------------------------ MODULE DeployerAtomicProofs ------------------------
(***************************************************************************)
(* Proofs about an operator who works alone, for any configurations and    *)
(* files and any number of deployments, refused or wrongly answered        *)
(* reloads and deaths of HAProxy: what a deployment overwrites is backed   *)
(* up, one that succeeded leaves file and log in agreement, and HAProxy    *)
(* with them when its reload was answered truly, and each is one step of   *)
(* AtomicDeploy.                                                           *)
(***************************************************************************)
EXTENDS DeployerAtomic, DeployerProofs

\* The one request.
Now == req[solo]

LEMMA OneHandler == Handlers = {solo} /\ solo \in Handlers
BY SoloAssumption DEF solo

(***************************************************************************)
(* The inductive invariant follows the request through its points.  The    *)
(* three properties need the same facts of it: what the file and the       *)
(* newest entry of the log are at each point.                              *)
(***************************************************************************)

NewestIs(c, s) ==
  versions # << >> /\ versions[Len(versions)] = [content |-> c, status |-> s]

Served == running \in {cfg, Nothing} /\ Loadable

RollbackPoints == {"stage", "check", "backup", "write", "reload", "mark", "addRolledBack",
                   "markRolledBack"}

\* Each operation keeps to its own points; what Apply rendered is what the database
\* still holds, and what Rollback read is still in the log.
OnItsWay(r) ==
  /\ r.pc # "idle" => r.op \in {"apply", "rollback", "reload", "restart"}
  /\ r.pc # "idle" /\ r.op = "apply" =>
       r.pc \notin {"stop", "addRolledBack", "markRolledBack"} /\ r.content = db
  /\ r.pc # "idle" /\ r.op = "rollback" =>
       r.pc \in RollbackPoints /\ r.version \in Stored /\ versions[r.version].content = r.content
  /\ r.pc # "idle" /\ r.op \in {"reload", "restart"} => r.pc \in {"stop", "reload", "mark", "trim"}

\* From the backup to the write the live file is the one to go back to.
BackedUp(r) ==
  r.pc \in {"pages", "prunePages", "certs", "pruneCerts", "write"} =>
    /\ r.previous = cfg
    /\ cfg # Nothing => backups # << >> /\ backups[Len(backups)] = cfg

Written(r) ==
  /\ r.pc \in {"record", "status", "restore", "addRolledBack", "markRolledBack"}
       => cfg = r.content
  /\ r.pc \in {"reload", "mark", "trim"} /\ r.op \in {"apply", "rollback"} => cfg = r.content
  /\ r.pc = "undoReload" => cfg = r.previous
  /\ r.pc \in {"restore", "undoReload"} => r.previous # Nothing

Logged(r) ==
  /\ r.op = "apply" /\ r.pc \in {"reload", "status", "mark", "trim"} =>
       r.version = Len(versions) /\ NewestIs(r.content, "applied")
  /\ r.pc \in {"restore", "undoReload"} => NewestIs(r.content, "failed")
  /\ r.pc = "markRolledBack" => r.version < Len(versions) /\ NewestIs(r.content, "applied")

\* An answer that was true left HAProxy on the file.
Serving(r) ==
  /\ r.pc \in {"status", "addRolledBack", "markRolledBack", "trim"} /\ r.answer = "true" => Served
  /\ r.pc = "idle" /\ r.outcome = "ok" =>
       NewestIs(cfg, "applied") /\ (r.answer = "true" => Served)

Alone(r) == OnItsWay(r) /\ BackedUp(r) /\ Written(r) /\ Logged(r) /\ Serving(r)

SoloInv == IInv /\ Alone(Now)

(***************************************************************************)
(* The version log.                                                        *)
(***************************************************************************)

\* A log that ends in x and agrees with t before is t without its end, and x.
LEMMA EndReplaced ==
  ASSUME NEW s \in Seq(Version), NEW t \in Seq(Version), s # << >>, Len(s) = Len(t),
         \A v \in 1..(Len(s) - 1) : s[v] = t[v]
  PROVE  Append(SubSeq(t, 1, Len(t) - 1), s[Len(s)]) = s
<1> DEFINE n == Len(s)
           front == SubSeq(t, 1, n - 1)
<1>1. n \in Nat \ {0} /\ n = Len(t)
  BY EmptySeq
<1>2. \A v \in 1..n : s[v] \in Version /\ t[v] \in Version
  BY <1>1, ElementOfSeq
<1>3. front \in Seq(Version) /\ Len(front) = n - 1 /\ \A v \in 1..(n - 1) : front[v] = t[v]
  <2>1. 1 \in Int /\ n - 1 \in Int /\ \A v \in 1..(n - 1) : t[v] \in Version
    BY <1>1, <1>2
  <2>2. /\ front \in Seq(Version) /\ Len(front) = IF 1 <= n - 1 THEN (n - 1) - 1 + 1 ELSE 0
        /\ \A v \in 1..((n - 1) - 1 + 1) : front[v] = t[1 + v - 1]
    BY <2>1, SubSeqProperties
  <2> HIDE DEF front
  <2> QED
    BY <1>1, <2>2
<1> HIDE DEF front
<1> DEFINE whole == Append(front, s[n])
<1>4. /\ whole \in Seq(Version) /\ Len(whole) = Len(front) + 1
      /\ \A v \in 1..Len(front) : whole[v] = front[v]
      /\ whole[Len(front) + 1] = s[n]
  BY <1>1, <1>2, <1>3, AppendProperties
<1> HIDE DEF whole
<1>5. \A v \in 1..n : whole[v] = s[v]
  BY <1>1, <1>3, <1>4
<1>6. Len(whole) = Len(s)
  BY <1>1, <1>3, <1>4
<1>7. whole = s
  BY <1>4, <1>5, <1>6, SeqEqual
<1> QED
  BY <1>1, <1>7 DEF whole, front

LEMMA FrontSame ==
  ASSUME NEW s \in Seq(Version), NEW t \in Seq(Version), s # << >>, Len(s) = Len(t),
         \A v \in 1..(Len(s) - 1) : s[v] = t[v]
  PROVE  SubSeq(s, 1, Len(s) - 1) = SubSeq(t, 1, Len(t) - 1)
<1>1. Len(s) \in Nat \ {0}
  BY EmptySeq
<1>2. Len(s) - 1 \in Int /\ 1 \in Int
  BY <1>1
<1> DEFINE n == Len(s) - 1
           f == SubSeq(s, 1, n)
           g == SubSeq(t, 1, n)
<1>3. \A v \in 1..n : s[v] \in Version /\ t[v] \in Version
  BY <1>1, ElementOfSeq
<1>4. /\ f \in Seq(Version) /\ Len(f) = IF 1 <= n THEN n - 1 + 1 ELSE 0
      /\ \A v \in 1..(n - 1 + 1) : f[v] = s[1 + v - 1]
  BY <1>2, <1>3, SubSeqProperties
<1>5. /\ g \in Seq(Version) /\ Len(g) = IF 1 <= n THEN n - 1 + 1 ELSE 0
      /\ \A v \in 1..(n - 1 + 1) : g[v] = t[1 + v - 1]
  BY <1>2, <1>3, SubSeqProperties
<1> HIDE DEF f, g
<1>6. Len(f) = Len(g) /\ \A v \in 1..Len(f) : f[v] = g[v]
  BY <1>1, <1>4, <1>5
<1>7. f = g
  BY <1>4, <1>5, <1>6, SeqEqual
<1> QED
  BY <1>7 DEF f, g

LEMMA FrontOfAppend ==
  ASSUME NEW s \in Seq(Version), NEW x \in Version
  PROVE  LET l == Append(s, x) IN SubSeq(l, 1, Len(l) - 1) = s
<1> DEFINE l == Append(s, x)
           n == Len(s)
           f == SubSeq(l, 1, n)
<1>1. n \in Nat
  BY LenProperties
<1>2. l \in Seq(Version) /\ Len(l) = n + 1 /\ \A v \in 1..n : l[v] = s[v]
  BY AppendProperties
<1> HIDE DEF l
<1>3. 1 \in Int /\ n \in Int /\ \A v \in 1..n : l[v] \in Version
  BY <1>1, <1>2, ElementOfSeq
<1>4. /\ f \in Seq(Version) /\ Len(f) = IF 1 <= n THEN n - 1 + 1 ELSE 0
      /\ \A v \in 1..(n - 1 + 1) : f[v] = l[1 + v - 1]
  BY <1>3, SubSeqProperties
<1> HIDE DEF f
<1>5. Len(f) = Len(s) /\ \A v \in 1..Len(f) : f[v] = s[v]
  BY <1>1, <1>2, <1>4
<1>6. f = s
  BY <1>4, <1>5, SeqEqual
<1>7. SubSeq(l, 1, Len(l) - 1) = f
  BY <1>1, <1>2 DEF f
<1> QED
  BY <1>6, <1>7 DEF l

LEMMA AddVersionAdds ==
  ASSUME versions \in Seq(Version), NEW c \in Contents, NEW s \in Statuses, AddVersion(c, s)
  PROVE  /\ Len(versions') = Len(versions) + 1 /\ NewestIs(c, s)'
         /\ \A v \in DOMAIN versions : v \in DOMAIN versions' /\ versions'[v] = versions[v]
         /\ SubSeq(versions', 1, Len(versions') - 1) = versions
<1> DEFINE x == [content |-> c, status |-> s]
<1>1. x \in Version /\ versions' = Append(versions, x)
  BY DEF Version, AddVersion
<1> HIDE DEF x
<1>2. /\ versions' # << >> /\ Len(versions') = Len(versions) + 1 /\ versions' \in Seq(Version)
      /\ \A v \in 1..Len(versions) : versions'[v] = versions[v]
      /\ versions'[Len(versions) + 1] = x
  BY <1>1, AppendProperties
<1>3. DOMAIN versions = 1..Len(versions) /\ Len(versions) \in Nat
  BY LenProperties
<1>4. DOMAIN versions' = 1..Len(versions')
  BY <1>2, LenProperties
<1>5. SubSeq(versions', 1, Len(versions') - 1) = versions
  BY <1>1, FrontOfAppend
<1>6. NewestIs(c, s)'
  BY <1>2 DEF NewestIs, x
<1> QED
  BY <1>2, <1>3, <1>4, <1>5, <1>6

LEMMA MarkVersionMarks ==
  ASSUME versions \in Seq(Version), NEW v \in Stored, NEW s \in Statuses, MarkVersion(v, s)
  PROVE  /\ Len(versions') = Len(versions)
         /\ versions' = [versions EXCEPT ![v] = [versions[v] EXCEPT !.status = s]]
         /\ versions'[v] = [content |-> versions[v].content, status |-> s]
         /\ \A w \in DOMAIN versions : w # v => versions'[w] = versions[w]
<1>1. v \in 1..Len(versions) /\ DOMAIN versions = 1..Len(versions) /\ versions[v].status # "deleted"
  BY LenProperties DEF Stored
<1> DEFINE x == [versions[v] EXCEPT !.status = s]
<1>2. versions[v] \in Version
  BY <1>1, ElementOfSeq
<1>3. x \in Version /\ x = [content |-> versions[v].content, status |-> s]
  BY <1>2 DEF Version
<1>4. versions' = [versions EXCEPT ![v] = x]
  BY <1>1, Zenon DEF MarkVersion
<1> HIDE DEF x
<1>5. /\ Len(versions') = Len(versions)
      /\ \A w \in 1..Len(versions) : versions'[w] = IF w = v THEN x ELSE versions[w]
  BY <1>1, <1>3, <1>4, ExceptSeq
<1>6. versions' = [versions EXCEPT ![v] = [versions[v] EXCEPT !.status = s]]
  BY <1>4 DEF x
<1> QED
  BY <1>1, <1>3, <1>5, <1>6

\* The trim keeps the newest entries, at least one.
LEMMA TrimmedKeepsNewest ==
  ASSUME versions \in Seq(Version), versions # << >>
  PROVE  /\ Trimmed(VersionKeep) \in Seq(Version) /\ Trimmed(VersionKeep) # << >>
         /\ Len(Trimmed(VersionKeep)) = Len(versions)
         /\ Trimmed(VersionKeep)[Len(versions)] = versions[Len(versions)]
<1>1. Trimmed(VersionKeep) \in Seq(Version)
  BY TrimmedTyped
<1>2. DOMAIN versions = 1..Len(versions) /\ Len(versions) \in Nat \ {0}
  BY LenProperties, EmptySeq
<1>3. DOMAIN Trimmed(VersionKeep) = 1..Len(versions)
  BY <1>2 DEF Trimmed
<1>4. Len(Trimmed(VersionKeep)) = Len(versions)
  BY <1>1, <1>2, <1>3, LenProperties
<1>5. VersionKeep \in Nat \ {0}
  BY BoundsAssumption
<1>6. Trimmed(VersionKeep)[Len(versions)] = versions[Len(versions)]
  BY <1>2, <1>5 DEF Trimmed
<1>7. Trimmed(VersionKeep) # << >>
  BY <1>1, <1>2, <1>4, EmptySeq
<1> QED
  BY <1>1, <1>4, <1>6, <1>7

(***************************************************************************)
(* What a step makes of the one request.                                   *)
(***************************************************************************)

\* It goes on to p; op, content and version stay, and the file to go back to.
GoesOn(p) ==
  /\ Now'.pc = p /\ Now'.op = Now.op /\ Now'.content = Now.content
  /\ Now'.version = Now.version /\ Now'.previous = Now.previous

LEMMA GotoGoesOn ==
  ASSUME IInv, NEW p, Goto(solo, p)
  PROVE  GoesOn(p) /\ Now'.answer = Now.answer
<1>1. Now \in Requests /\ Now' = [Now EXCEPT !.pc = p]
  BY OneHandler, Zenon DEF Goto, Now, IInv, RequestsSound
<1> QED
  BY <1>1, Zenon DEF GoesOn, Requests

LEMMA ReturnEnds ==
  ASSUME IInv, NEW o, Return(solo, o)
  PROVE  Now'.pc = "idle" /\ Now'.op = "none" /\ Now'.outcome = o
<1>1. Now' = Idle(o)
  BY OneHandler DEF Return, Now, IInv, RequestsSound
<1> QED
  BY <1>1 DEF Idle

LEMMA SucceedEnds ==
  ASSUME IInv, NEW o, Succeed(solo, o)
  PROVE  Now'.pc = "idle" /\ Now'.op = "none" /\ Now'.answer = Now.answer
<1>1. Now' = [Idle(o) EXCEPT !.answer = Now.answer]
  BY OneHandler DEF Succeed, Now, IInv, RequestsSound
<1> QED
  BY <1>1 DEF Idle

LEMMA NowTyped ==
  ASSUME IInv
  PROVE  /\ Now \in Requests /\ Sound(Now, checked) /\ versions \in Seq(Version)
         /\ DOMAIN versions = 1..Len(versions) /\ Len(versions) \in Nat
         /\ db \in Contents /\ cfg \in Contents \cup {Nothing} /\ backups \in Seq(Contents)
BY OneHandler, LenProperties DEF IInv, RequestsSound, StateTyped, LiveTyped, Now

\* What each step is to do: keep the invariant, and be a step of AtomicDeploy, or
\* none.
Unseen == UNCHANGED <<AbstractDisk, AbstractLog>>
Advances == Alone(Now)' /\ (Abstract!Next \/ Unseen)

\* A request that goes on where nothing is replaced or recorded yet.
LEMMA UnseenBefore ==
  ASSUME UNCHANGED <<cfg, versions>>, ~Replaced, ~Recorded, ~Replaced', ~Recorded'
  PROVE  Unseen
BY DEF Unseen, AbstractDisk, AbstractLog

\* One that goes on after both.
LEMMA UnseenAfter ==
  ASSUME UNCHANGED versions, Replaced, Replaced', Recorded <=> Recorded',
         Now'.previous = Now.previous
  PROVE  Unseen
BY DEF Unseen, AbstractDisk, AbstractLog, Now

LEMMA BeginAdvances ==
  ASSUME SoloInv, Request(solo)
  PROVE  Advances
<1>1. UNCHANGED <<db, disk, versions, running, checked>> /\ Now.pc = "idle"
  BY DEF Request, BeginApply, BeginRollback, BeginReload, BeginRestart, Begin, At, Now
<1>2. ASSUME NEW o \in {"apply", "rollback", "reload", "restart"}, NEW p \in Points, NEW c, NEW v,
             req' = [req EXCEPT ![solo] = [Idle("none") EXCEPT !.op = o, !.pc = p, !.content = c,
                                                               !.version = v]]
      PROVE  Now'.op = o /\ Now'.pc = p /\ Now'.content = c /\ Now'.version = v
  <2>1. Now' = [Idle("none") EXCEPT !.op = o, !.pc = p, !.content = c, !.version = v]
    BY <1>2, OneHandler DEF Now, SoloInv, IInv, RequestsSound
  <2> QED
    BY <2>1 DEF Idle
<1>3. \/ Now'.op = "apply" /\ Now'.pc = "stage" /\ Now'.content = db
      \/ Now'.op = "rollback" /\ Now'.pc = "stage" /\ Now'.version \in Stored
           /\ Now'.content = versions[Now'.version].content
      \/ Now'.op = "reload" /\ Now'.pc = "reload"
      \/ Now'.op = "restart" /\ Now'.pc = "stop"
  <2>1. CASE BeginApply(solo)
    <3>1. req' = [req EXCEPT ![solo] = [Idle("none") EXCEPT !.op = "apply", !.pc = "stage",
                                                            !.content = db]]
      BY <2>1, SoloAssumption DEF BeginApply, Fails
    <3>2. Now' = [Idle("none") EXCEPT !.op = "apply", !.pc = "stage", !.content = db]
      BY <3>1, OneHandler DEF Now, SoloInv, IInv, RequestsSound
    <3> QED
      BY <3>2 DEF Idle
  <2>2. CASE BeginRollback(solo)
    <3>1. PICK v \in Stored :
            req' = [req EXCEPT ![solo] = [Idle("none") EXCEPT !.op = "rollback", !.pc = "stage",
                                            !.content = versions[v].content, !.version = v]]
      BY <2>2, SoloAssumption DEF BeginRollback, Fails
    <3> DEFINE c == versions[v].content
    <3>2. req' = [req EXCEPT ![solo] = [Idle("none") EXCEPT !.op = "rollback", !.pc = "stage",
                                          !.content = c, !.version = v]]
      BY <3>1
    <3> HIDE DEF c
    <3>3. Now'.op = "rollback" /\ Now'.pc = "stage" /\ Now'.content = c /\ Now'.version = v
      BY <1>2, <3>2 DEF Points
    <3> QED
      BY <3>3 DEF c
  <2>3. CASE BeginReload(solo)
    <3>1. Now' = [Idle("none") EXCEPT !.op = "reload", !.pc = "reload"]
      BY <2>3, OneHandler DEF Now, SoloInv, IInv, RequestsSound, BeginReload
    <3> QED
      BY <3>1 DEF Idle
  <2>4. CASE BeginRestart(solo)
    <3>1. Now' = [Idle("none") EXCEPT !.op = "restart", !.pc = "stop"]
      BY <2>4, OneHandler DEF Now, SoloInv, IInv, RequestsSound, BeginRestart
    <3> QED
      BY <3>1 DEF Idle
  <2> QED
    BY <2>1, <2>2, <2>3, <2>4 DEF Request
<1>4. Stored' = Stored
  BY <1>1 DEF Stored
<1>5. Alone(Now)'
  BY <1>1, <1>3, <1>4 DEF Alone, OnItsWay, BackedUp, Written, Logged, Serving, RollbackPoints
<1>6. ~Replaced /\ ~Recorded /\ ~Replaced' /\ ~Recorded'
  BY <1>1, <1>3 DEF Replaced, Recorded, Now
<1> QED
  BY <1>1, <1>5, <1>6, UnseenBefore DEF Advances, disk

LEMMA CheckAdvances ==
  ASSUME SoloInv, Stage(solo) \/ CheckPasses(solo) \/ CheckFails(solo)
  PROVE  Advances
<1>1. UNCHANGED <<db, disk, running>> /\ Now.pc \in {"stage", "check"} /\ Alone(Now)
  BY DEF Stage, CheckPasses, CheckFails, At, Now, SoloInv
<1>2. IInv /\ Now \in Requests /\ Sound(Now, checked) /\ versions \in Seq(Version)
  BY NowTyped DEF SoloInv
<1>3. Now.op \in {"apply", "rollback"} /\ Now.content \in Contents
  BY <1>1, <1>2 DEF Sound, Deploying, Points
<1>4. ASSUME NEW p \in {"check", "backup"}, GoesOn(p), UNCHANGED versions PROVE Advances
  <2>1. Stored' = Stored
    BY <1>4 DEF Stored
  <2>2. Alone(Now)'
    BY <1>1, <1>3, <1>4, <2>1
       DEF GoesOn, Alone, OnItsWay, BackedUp, Written, Logged, Serving, RollbackPoints
  <2>3. ~Replaced /\ ~Recorded /\ ~Replaced' /\ ~Recorded'
    BY <1>1, <1>4 DEF Replaced, Recorded, Now, GoesOn
  <2> QED
    BY <1>1, <1>4, <2>2, <2>3, UnseenBefore DEF Advances, disk
<1>5. CASE Stage(solo)
  <2>1. Now' = [Now EXCEPT !.pc = "check", !.staged = FilesOf[db]] /\ UNCHANGED versions
    BY <1>2, <1>5, OneHandler, SoloAssumption, Zenon DEF Stage, Fails, Now, IInv, RequestsSound
  <2>2. GoesOn("check")
    BY <1>2, <2>1, Zenon DEF GoesOn, Requests
  <2> QED
    BY <1>4, <2>1, <2>2
<1>6. CASE CheckPasses(solo)
  BY <1>2, <1>4, <1>6, GotoGoesOn DEF CheckPasses
<1>7. CASE CheckFails(solo)
  <2>1. Now'.pc = "idle" /\ Now'.op = "none" /\ Now'.outcome = "rejected"
    BY <1>2, <1>7, ReturnEnds DEF CheckFails
  <2>2. Alone(Now)'
    BY <2>1 DEF Alone, OnItsWay, BackedUp, Written, Logged, Serving
  <2>3. ~Replaced /\ ~Recorded /\ ~Replaced' /\ ~Recorded'
    BY <1>1, <2>1 DEF Replaced, Recorded, Now
  <2>4. CASE UNCHANGED versions
    BY <1>1, <2>2, <2>3, <2>4, UnseenBefore DEF Advances, disk
  <2>5. CASE AddVersion(Now.content, "failed")
    <3>1. AbstractDisk = cfg /\ AbstractDisk' = cfg /\ AbstractLog = versions /\ AbstractLog' = versions'
      BY <1>1, <2>3 DEF AbstractDisk, AbstractLog, disk
    <3>2. Abstract!Rejected(Now.content)
      BY <2>5, <3>1 DEF Abstract!Rejected, Abstract!Plus, AddVersion
    <3> QED
      BY <1>3, <2>2, <3>2 DEF Advances, Abstract!Next
  <2> QED
    BY <1>7, <2>4, <2>5, SoloAssumption DEF CheckFails, Fails, Now
<1> QED
  BY <1>5, <1>6, <1>7

\* The backup of the live file is the newest one, whether or not another was made
\* within the same second.
LEMMA BackupIsNewest ==
  ASSUME backups \in Seq(Contents), NEW c \in Contents, WriteBackup(c)
  PROVE  backups' # << >> /\ backups'[Len(backups')] = c
<1>1. BackupKeep \in Nat \ {0} /\ Len(backups) \in Nat
  BY BoundsAssumption, LenProperties
<1>2. CASE backups' = Newest(Append(backups, c))
  <2> DEFINE s == Append(backups, c)
             n == Len(s)
  <2>1. s \in Seq(Contents) /\ n = Len(backups) + 1 /\ s[n] = c /\ s # << >>
    BY AppendProperties
  <2>2. \A i \in 1..n : s[i] \in Contents
    BY <2>1, ElementOfSeq
  <2>3. backups' = Newest(s)
    BY <1>2
  <2> HIDE DEF s
  <2>4. CASE n <= BackupKeep
    BY <2>1, <2>3, <2>4 DEF Newest
  <2>5. CASE ~(n <= BackupKeep)
    <3> DEFINE m == n - BackupKeep + 1
               t == SubSeq(s, m, n)
    <3>1. m \in 1..n /\ n \in Nat /\ m \in Int /\ n \in Int
      BY <1>1, <2>1, <2>5
    <3>2. \A i \in m..n : s[i] \in Contents
      BY <2>2, <3>1
    <3>3. backups' = t
      BY <2>3, <2>5 DEF Newest
    <3> HIDE DEF m
    <3>4. /\ t \in Seq(Contents) /\ Len(t) = IF m <= n THEN n - m + 1 ELSE 0
          /\ \A i \in 1..(n - m + 1) : t[i] = s[m + i - 1]
      BY <3>1, <3>2, SubSeqProperties
    <3> HIDE DEF t, n
    <3>5. Len(t) = n - m + 1 /\ Len(t) \in 1..(n - m + 1) /\ m + Len(t) - 1 = n
      BY <3>1, <3>4
    <3>6. t[Len(t)] = s[n]
      BY <3>4, <3>5
    <3>7. t # << >>
      BY <3>1, <3>4, <3>5, EmptySeq
    <3> QED
      BY <2>1, <3>3, <3>6, <3>7 DEF n
  <2> QED
    BY <2>4, <2>5
<1>3. CASE backups # << >> /\ backups' = [backups EXCEPT ![Len(backups)] = c]
  <2>1. Len(backups) \in 1..Len(backups)
    BY <1>3, EmptySeq, <1>1
  <2>2. /\ backups' \in Seq(Contents) /\ Len(backups') = Len(backups)
        /\ backups'[Len(backups)] = c
    BY <1>3, <2>1, ExceptSeq
  <2> QED
    BY <1>1, <2>1, <2>2, EmptySeq
<1> QED
  BY <1>2, <1>3 DEF WriteBackup

LEMMA PublishAdvances ==
  ASSUME SoloInv,
         \/ Backup(solo) \/ WriteErrorPages(solo) \/ PruneErrorPages(solo)
         \/ WriteCertificates(solo) \/ PruneCertificates(solo)
  PROVE  Advances
<1>1. /\ UNCHANGED <<db, cfg, versions, running>> /\ Alone(Now)
      /\ Now.pc \in {"backup", "pages", "prunePages", "certs", "pruneCerts"}
  BY DEF Backup, WriteErrorPages, PruneErrorPages, WriteCertificates, PruneCertificates,
         WriteFiles, PruneDir, At, Now, SoloInv
<1>2. /\ IInv /\ Now \in Requests /\ Sound(Now, checked) /\ versions \in Seq(Version)
      /\ backups \in Seq(Contents) /\ cfg \in Contents \cup {Nothing}
  BY NowTyped DEF SoloInv
<1>3. Now.op \in {"apply", "rollback"}
  BY <1>1, <1>2 DEF Sound, Deploying, Points
<1>4. ASSUME NEW p \in {"pages", "prunePages", "certs", "pruneCerts", "write"},
             Now.op = "rollback" => p = "write",
             Now'.pc = p, Now'.op = Now.op, Now'.content = Now.content,
             Now'.version = Now.version, Now'.previous = cfg,
             cfg # Nothing => backups' # << >> /\ backups'[Len(backups')] = cfg
      PROVE  Advances
  <2>1. Stored' = Stored
    BY <1>1 DEF Stored
  <2>2. Alone(Now)'
    BY <1>1, <1>3, <1>4, <2>1
       DEF Alone, OnItsWay, BackedUp, Written, Logged, Serving, RollbackPoints
  <2>3. ~Replaced /\ ~Recorded /\ ~Replaced' /\ ~Recorded'
    BY <1>1, <1>4 DEF Replaced, Recorded, Now
  <2> QED
    BY <1>1, <2>2, <2>3, UnseenBefore DEF Advances
<1>5. CASE Backup(solo)
  <2> DEFINE p == AfterBackup(solo)
  <2>1. /\ IF cfg = Nothing THEN UNCHANGED backups ELSE WriteBackup(cfg)
        /\ Now' = [Now EXCEPT !.pc = p, !.previous = cfg]
    BY <1>2, <1>5, OneHandler, SoloAssumption, Zenon
       DEF Backup, Fails, Now, IInv, RequestsSound
  <2>2. p = IF Now.op = "apply" THEN "pages" ELSE "write"
    BY DEF AfterBackup, Now
  <2> HIDE DEF p
  <2>3. /\ Now'.pc = p /\ Now'.op = Now.op /\ Now'.content = Now.content
        /\ Now'.version = Now.version /\ Now'.previous = cfg
    BY <1>2, <2>1, Zenon DEF Requests
  <2>4. cfg # Nothing => backups' # << >> /\ backups'[Len(backups')] = cfg
    BY <1>2, <2>1, BackupIsNewest
  <2> QED
    BY <1>3, <1>4, <2>2, <2>3, <2>4
<1>6. ASSUME Now.pc # "backup", UNCHANGED backups,
             NEW p \in {"prunePages", "certs", "pruneCerts", "write"}, NEW w,
             Now' = [Now EXCEPT !.pc = p, !.wanted = w]
      PROVE  Advances
  <2>1. /\ Now'.pc = p /\ Now'.op = Now.op /\ Now'.content = Now.content
        /\ Now'.version = Now.version /\ Now'.previous = Now.previous
    BY <1>2, <1>6, Zenon DEF Requests
  <2>2. Now.previous = cfg /\ (cfg # Nothing => backups # << >> /\ backups[Len(backups)] = cfg)
    BY <1>1, <1>6 DEF Alone, BackedUp
  <2>3. Now.op = "apply"
    BY <1>1, <1>3, <1>6 DEF Alone, OnItsWay, RollbackPoints
  <2> QED
    BY <1>4, <1>6, <2>1, <2>2, <2>3
<1>7. ASSUME NEW at \in {"pages", "certs"}, NEW kind, NEW next \in {"prunePages", "pruneCerts"},
             WriteFiles(solo, at, kind, next)
      PROVE  Advances
  <2> DEFINE w == FilesOf[db] \cap kind
  <2>1. Now' = [Now EXCEPT !.pc = next, !.wanted = w] /\ UNCHANGED backups /\ Now.pc = at
    BY <1>2, <1>7, OneHandler, SoloAssumption, Zenon
       DEF WriteFiles, Fails, Now, IInv, RequestsSound, At
  <2> HIDE DEF w
  <2> QED
    BY <1>6, <2>1
<1>8. ASSUME NEW at \in {"prunePages", "pruneCerts"}, NEW kind, NEW next \in {"certs", "write"},
             PruneDir(solo, at, kind, next)
      PROVE  Advances
  <2>1. Now' = [Now EXCEPT !.pc = next, !.wanted = {}] /\ UNCHANGED backups /\ Now.pc = at
    BY <1>2, <1>8, OneHandler, SoloAssumption, Zenon
       DEF PruneDir, Fails, Now, IInv, RequestsSound, At
  <2> QED
    BY <1>6, <2>1
<1> QED
  BY <1>5, <1>7, <1>8 DEF WriteErrorPages, PruneErrorPages, WriteCertificates, PruneCertificates

\* The file is replaced; to the outside it still is the one to go back to.
LEMMA WriteAdvances ==
  ASSUME SoloInv, WriteConfig(solo) \/ RecordApplied(solo)
  PROVE  Advances
<1>1. UNCHANGED <<db, files, backups, running>> /\ Now.pc \in {"write", "record"} /\ Alone(Now)
  BY DEF WriteConfig, RecordApplied, disk, At, Now, SoloInv
<1>2. /\ IInv /\ Now \in Requests /\ Sound(Now, checked) /\ versions \in Seq(Version)
      /\ Len(versions) \in Nat
  BY NowTyped DEF SoloInv
<1>3. Now.op \in {"apply", "rollback"} /\ Now.content \in Contents
  BY <1>1, <1>2 DEF Sound, Deploying, Points
<1>4. CASE WriteConfig(solo)
  <2> DEFINE p == IF Now.op = "apply" THEN "record" ELSE "reload"
  <2>1. /\ Now' = [Now EXCEPT !.pc = p, !.loaded = FALSE] /\ cfg' = Now.content
        /\ Now.pc = "write" /\ UNCHANGED versions
    BY <1>2, <1>4, OneHandler, SoloAssumption, Zenon
       DEF WriteConfig, Fails, Now, IInv, RequestsSound, At
  <2>2. p \in {"record", "reload"} /\ (p = "record" <=> Now.op = "apply")
    OBVIOUS
  <2> HIDE DEF p
  <2>3. GoesOn(p)
    BY <1>2, <2>1, Zenon DEF GoesOn, Requests
  <2>4. Stored' = Stored
    BY <2>1 DEF Stored
  <2>5. Alone(Now)'
    BY <1>1, <1>3, <2>1, <2>2, <2>3, <2>4
       DEF GoesOn, Alone, OnItsWay, BackedUp, Written, Logged, Serving, RollbackPoints
  <2>6. ~Replaced /\ ~Recorded /\ Replaced' /\ ~Recorded' /\ Now.previous = cfg
    BY <1>1, <1>3, <2>1, <2>2, <2>3 DEF Replaced, Recorded, Now, GoesOn, Alone, BackedUp
  <2> QED
    BY <2>1, <2>3, <2>5, <2>6 DEF Advances, Unseen, AbstractDisk, AbstractLog, GoesOn, Now
<1>5. CASE RecordApplied(solo)
  <2> DEFINE v == Len(versions) + 1
  <2>1. /\ Now' = [Now EXCEPT !.pc = "reload", !.version = v] /\ AddVersion(Now.content, "applied")
        /\ UNCHANGED cfg /\ Now.pc = "record"
    BY <1>2, <1>5, OneHandler, SoloAssumption, Zenon
       DEF RecordApplied, Fails, Now, IInv, RequestsSound, At, disk
  <2> HIDE DEF v
  <2>2. /\ Now'.pc = "reload" /\ Now'.op = Now.op /\ Now'.content = Now.content
        /\ Now'.version = v /\ Now'.previous = Now.previous
    BY <1>2, <2>1, Zenon DEF Requests
  <2>3. Now.op = "apply"
    BY <1>1, <1>3, <2>1 DEF Alone, OnItsWay, RollbackPoints
  <2>4. /\ Len(versions') = v /\ NewestIs(Now.content, "applied")'
        /\ SubSeq(versions', 1, Len(versions') - 1) = versions
    <3>1. "applied" \in Statuses
      BY DEF Statuses
    <3>2. Len(versions') = v /\ SubSeq(versions', 1, Len(versions') - 1) = versions
      BY <1>2, <1>3, <2>1, <3>1, AddVersionAdds DEF v
    <3>3. versions' # << >> /\ versions'[Len(versions')] = [content |-> Now.content, status |-> "applied"]
      BY <1>2, <1>3, <2>1, <3>1, AddVersionAdds DEF NewestIs
    <3> QED
      BY <2>2, <3>2, <3>3 DEF NewestIs
  <2>5. Alone(Now)'
    BY <1>1, <2>1, <2>2, <2>3, <2>4 DEF Alone, OnItsWay, BackedUp, Written, Logged, Serving, NewestIs
  <2>6. Replaced /\ ~Recorded /\ Replaced' /\ Recorded'
    BY <2>1, <2>2, <2>3 DEF Replaced, Recorded, Now
  <2> QED
    BY <2>2, <2>4, <2>5, <2>6 DEF Advances, Unseen, AbstractDisk, AbstractLog, Now
<1> QED
  BY <1>4, <1>5

\* A reload reported as good, by an answer that is true, has loaded the file on disk.
LEMMA ReloadAdvances ==
  ASSUME SoloInv, Reload(solo) \/ RestartStop(solo) \/ Status(solo)
  PROVE  Advances
<1>1. UNCHANGED <<db, disk, versions>> /\ Now.pc \in {"reload", "stop", "status"} /\ Alone(Now)
  BY DEF Reload, RestartStop, Status, At, Now, SoloInv
<1>2. IInv /\ Now \in Requests /\ Sound(Now, checked)
  BY NowTyped DEF SoloInv
<1>3. UNCHANGED <<cfg, files, backups>> /\ Stored' = Stored
  BY <1>1 DEF disk, Stored
<1>4. Now.op \in {"apply", "rollback", "reload", "restart"}
  BY <1>1 DEF Alone, OnItsWay
<1>5. ASSUME NEW p \in {"status", "addRolledBack", "trim", "mark", "reload"}, GoesOn(p),
             Now.pc = "stop" <=> p = "reload",
             Now.op = "apply" => p \in {"status", "trim", "mark"},
             Now.op = "rollback" => p \in {"addRolledBack", "mark"},
             Now.op \in {"reload", "restart"} => p \in {"trim", "mark", "reload"},
             Now'.answer = "true" /\ p \notin {"mark", "reload"} => Served'
      PROVE  Advances
  <2>1. Now.op \in {"apply", "rollback"} <=> Now.op \notin {"reload", "restart"}
    BY <1>4
  <2>2. OnItsWay(Now)'
    BY <1>1, <1>3, <1>4, <1>5 DEF GoesOn, Alone, OnItsWay, RollbackPoints
  <2>3. BackedUp(Now)' /\ Written(Now)'
    BY <1>1, <1>3, <1>4, <1>5 DEF GoesOn, Alone, BackedUp, Written, OnItsWay
  <2>4. Logged(Now)'
    BY <1>1, <1>3, <1>4, <1>5 DEF GoesOn, Alone, Logged, OnItsWay, NewestIs
  <2>5. Serving(Now)'
    BY <1>4, <1>5 DEF GoesOn, Serving
  <2>6. Unseen
    <3>1. CASE Now.op \in {"apply", "rollback"}
      <4>1. Replaced /\ Replaced' /\ (Recorded <=> Recorded') /\ Now'.previous = Now.previous
        BY <1>1, <1>4, <1>5, <3>1 DEF Replaced, Recorded, Now, GoesOn, Alone, OnItsWay, RollbackPoints
      <4> QED
        BY <1>1, <4>1, UnseenAfter
    <3>2. CASE Now.op \in {"reload", "restart"}
      <4>1. ~Replaced /\ ~Recorded /\ ~Replaced' /\ ~Recorded'
        BY <1>4, <1>5, <3>2 DEF Replaced, Recorded, Now, GoesOn
      <4> QED
        BY <1>1, <1>3, <4>1, UnseenBefore
    <3> QED
      BY <1>4, <3>1, <3>2
  <2> QED
    BY <2>2, <2>3, <2>4, <2>5, <2>6 DEF Advances, Alone
<1>6. CASE Reload(solo)
  <2> DEFINE p == AfterReload(solo)
  <2>1. /\ p = IF Now.op = "apply" THEN "status"
               ELSE IF Now.op = "rollback" THEN "addRolledBack" ELSE "trim"
        /\ Now.pc = "reload"
    BY <1>6 DEF AfterReload, Now, Reload, At
  <2> HIDE DEF p
  <2>2. CASE Load(solo, [req[solo] EXCEPT !.pc = p, !.loaded = TRUE, !.answer = "true"])
    <3>1. Now' = [Now EXCEPT !.pc = p, !.loaded = TRUE, !.answer = "true"]
      BY <2>2, OneHandler, Zenon DEF Load, Now
    <3>2. GoesOn(p)
      BY <1>2, <3>1, Zenon DEF GoesOn, Requests
    <3>3. Served'
      BY <1>3, <2>2 DEF Load, Served, Loadable
    <3> QED
      BY <1>4, <1>5, <2>1, <3>2, <3>3
  <2>3. CASE Load(solo, [req[solo] EXCEPT !.pc = "mark", !.loaded = TRUE])
    <3>1. Now' = [Now EXCEPT !.pc = "mark", !.loaded = TRUE]
      BY <2>3, OneHandler, Zenon DEF Load, Now
    <3>2. GoesOn("mark")
      BY <1>2, <3>1, Zenon DEF GoesOn, Requests
    <3> QED
      BY <1>4, <1>5, <2>1, <3>2
  <2>4. CASE Goto(solo, "mark")
    <3>1. GoesOn("mark")
      BY <1>2, <2>4, GotoGoesOn
    <3> QED
      BY <1>4, <1>5, <2>1, <3>1
  <2>5. ASSUME NEW a, a # "true", req' = [req EXCEPT ![solo].pc = p, ![solo].answer = a]
        PROVE  Advances
    <3>1. Now' = [Now EXCEPT !.pc = p, !.answer = a]
      BY <2>5, <1>2, OneHandler, Zenon DEF Now, IInv, RequestsSound
    <3>2. GoesOn(p) /\ Now'.answer = a
      BY <1>2, <3>1, Zenon DEF GoesOn, Requests
    <3> QED
      BY <1>4, <1>5, <2>1, <2>5, <3>2
  <2>6. \/ Load(solo, [req[solo] EXCEPT !.pc = p, !.loaded = TRUE, !.answer = "true"])
        \/ Load(solo, [req[solo] EXCEPT !.pc = "mark", !.loaded = TRUE])
        \/ Goto(solo, "mark")
        \/ req' = [req EXCEPT ![solo].pc = p,
                     ![solo].answer = IF running' = Nothing THEN "dead" ELSE "unconfirmed"]
    BY <1>6, Zenon DEF Reload, ProcessReload, p
  <2>7. (IF running' = Nothing THEN "dead" ELSE "unconfirmed") # "true"
    OBVIOUS
  <2> QED
    BY <2>2, <2>3, <2>4, <2>5, <2>6, <2>7, Zenon
<1>7. CASE RestartStop(solo)
  <2>1. GoesOn("reload") /\ Now.pc = "stop"
    BY <1>2, <1>7, GotoGoesOn DEF RestartStop, At, Now
  <2>2. Now.op \in {"reload", "restart"}
    BY <1>1, <1>4, <2>1 DEF Alone, OnItsWay, RollbackPoints
  <2> QED
    BY <1>5, <2>1, <2>2
<1>8. CASE Status(solo)
  <2>1. UNCHANGED running /\ Now.pc = "status" /\ (Goto(solo, "mark") \/ Goto(solo, "trim"))
    BY <1>8 DEF Status, At, Now
  <2>2. Now.op = "apply" /\ (Now.answer = "true" => Served)
    BY <1>1, <1>4, <2>1 DEF Alone, OnItsWay, RollbackPoints, Serving
  <2>3. Served => Served'
    BY <1>3, <2>1 DEF Served, Loadable
  <2>4. ASSUME NEW p \in {"mark", "trim"}, Goto(solo, p) PROVE Advances
    <3>1. GoesOn(p) /\ Now'.answer = Now.answer
      BY <1>2, <2>4, GotoGoesOn
    <3> QED
      BY <1>5, <2>1, <2>2, <2>3, <3>1
  <2> QED
    BY <2>1, <2>4
<1> QED
  BY <1>6, <1>7, <1>8

\* A refused reload: Apply goes back, and the log says failed; Roll back stops there.
LEMMA MarkAdvances ==
  ASSUME SoloInv, MarkFailed(solo)
  PROVE  Advances
<1>1. /\ UNCHANGED <<db, cfg, files, backups, running>> /\ Now.pc = "mark" /\ Alone(Now)
      /\ Now.op \in {"apply", "rollback", "reload", "restart"}
  BY DEF MarkFailed, disk, At, Now, SoloInv, Alone, OnItsWay
<1>2. /\ IInv /\ Now \in Requests /\ Sound(Now, checked) /\ versions \in Seq(Version)
      /\ Len(versions) \in Nat /\ DOMAIN versions = 1..Len(versions)
  BY NowTyped DEF SoloInv
<1>3. ASSUME NEW o \in {"undone", "error"}, Return(solo, o)
      PROVE  Now'.pc = "idle" /\ Now'.op = "none" /\ Alone(Now)' /\ ~Replaced' /\ ~Recorded'
  <2>1. Now'.pc = "idle" /\ Now'.op = "none" /\ Now'.outcome = o
    BY <1>2, <1>3, ReturnEnds
  <2> QED
    BY <2>1 DEF Alone, OnItsWay, BackedUp, Written, Logged, Serving, Replaced, Recorded, Now
<1>4. CASE Now.op = "apply"
  <2>1. /\ Now.version = Len(versions) /\ NewestIs(Now.content, "applied") /\ cfg = Now.content
        /\ Now.content \in Contents /\ Replaced /\ Recorded
    BY <1>1, <1>2, <1>4 DEF Alone, Logged, Written, Sound, Replaced, Recorded, Now
  <2>2. Len(versions) \in Stored
    <3>1. Len(versions) \in DOMAIN versions
      BY <1>2, <2>1, EmptySeq DEF NewestIs
    <3> QED
      BY <2>1, <3>1 DEF NewestIs, Stored
  <2>3. MarkVersion(Len(versions), "failed")
    BY <1>1, <1>4, <2>1, SoloAssumption DEF MarkFailed, Fails, Now
  <2>4. /\ Len(versions') = Len(versions)
        /\ versions'[Len(versions)] = [content |-> versions[Len(versions)].content, status |-> "failed"]
        /\ \A w \in DOMAIN versions : w # Len(versions) => versions'[w] = versions[w]
    <3>1. "failed" \in Statuses
      BY DEF Statuses
    <3> QED
      BY <1>2, <2>2, <2>3, <3>1, MarkVersionMarks
  <2>5. versions' \in Seq(Version) /\ versions' # << >>
    <3>1. versions' \in Seq(Version)
      BY <1>2, <2>3, MarkVersionTyped DEF Statuses
    <3> QED
      BY <2>1, <2>4, <3>1, EmptySeq, <1>2 DEF NewestIs
  <2>6. versions'[Len(versions')] = [content |-> Now.content, status |-> "failed"]
    BY <2>1, <2>4 DEF NewestIs
  <2>7. \A v \in 1..(Len(versions') - 1) : versions'[v] = versions[v]
    BY <1>2, <2>4
  <2>8. CASE Now.previous = Nothing
    <3>1. Return(solo, "undone")
      BY <1>4, <2>8 DEF MarkFailed, Now
    <3>2. AbstractDisk = Nothing /\ AbstractLog = SubSeq(versions, 1, Len(versions) - 1)
      BY <2>1, <2>8 DEF AbstractDisk, AbstractLog, Now
    <3>3. AbstractDisk' = Now.content /\ AbstractLog' = versions' /\ Alone(Now)'
      BY <1>1, <1>3, <2>1, <3>1 DEF AbstractDisk, AbstractLog
    <3>4. Append(SubSeq(versions, 1, Len(versions) - 1), versions'[Len(versions')]) = versions'
      BY <1>2, <2>4, <2>5, <2>7, EndReplaced
    <3>5. Abstract!Undone(Now.content)
      BY <2>6, <3>2, <3>3, <3>4 DEF Abstract!Undone, Abstract!Plus
    <3> QED
      BY <2>1, <3>3, <3>5 DEF Advances, Abstract!Next
  <2>9. CASE Now.previous # Nothing
    <3>1. Goto(solo, "restore")
      BY <1>4, <2>9 DEF MarkFailed, Now
    <3>2. GoesOn("restore")
      BY <1>2, <3>1, GotoGoesOn
    <3>3. Alone(Now)'
      BY <1>1, <1>4, <2>1, <2>5, <2>6, <2>9, <3>2
         DEF GoesOn, Alone, OnItsWay, BackedUp, Written, Logged, Serving, NewestIs
    <3>4. Replaced' /\ Recorded'
      BY <1>4, <3>2 DEF Replaced, Recorded, GoesOn, Now
    <3>5. SubSeq(versions', 1, Len(versions') - 1) = SubSeq(versions, 1, Len(versions) - 1)
      BY <1>2, <2>4, <2>5, <2>7, FrontSame
    <3> QED
      BY <2>1, <3>2, <3>3, <3>4, <3>5 DEF Advances, Unseen, AbstractDisk, AbstractLog, GoesOn, Now
  <2> QED
    BY <2>8, <2>9
<1>5. CASE Now.op # "apply"
  <2>1. Return(solo, "error") /\ UNCHANGED versions
    BY <1>5 DEF MarkFailed, Now
  <2>2. AbstractDisk' = cfg /\ AbstractLog' = versions /\ Alone(Now)' /\ ~Replaced' /\ ~Recorded'
    BY <1>1, <1>3, <2>1 DEF AbstractDisk, AbstractLog
  <2>3. ~Recorded
    BY <1>1, <1>5 DEF Recorded, Now
  <2>4. CASE Now.op = "rollback"
    <3>1. /\ Now.version \in DOMAIN versions /\ versions[Now.version].status # "deleted"
          /\ versions[Now.version].content = Now.content /\ cfg = Now.content
      BY <1>1, <2>4 DEF Alone, OnItsWay, Written, Stored
    <3>2. AbstractLog = versions
      BY <2>3 DEF AbstractLog
    <3>3. Abstract!NotRolledBack(Now.version)
      BY <2>2, <3>1, <3>2 DEF Abstract!NotRolledBack
    <3> QED
      BY <2>2, <3>1, <3>2, <3>3 DEF Advances, Abstract!Next
  <2>5. CASE Now.op # "rollback"
    <3>1. ~Replaced
      BY <1>5, <2>5 DEF Replaced, Now
    <3> QED
      BY <1>1, <2>1, <2>2, <2>3, <3>1, UnseenBefore DEF Advances
  <2> QED
    BY <2>4, <2>5
<1> QED
  BY <1>4, <1>5

LEMMA UndoAdvances ==
  ASSUME SoloInv, Restore(solo) \/ UndoReload(solo)
  PROVE  Advances
<1>1. /\ UNCHANGED <<db, files, backups, versions>> /\ Now.pc \in {"restore", "undoReload"}
      /\ Alone(Now)
  BY DEF Restore, UndoReload, disk, At, Now, SoloInv
<1>2. /\ IInv /\ Now \in Requests /\ Sound(Now, checked) /\ versions \in Seq(Version)
      /\ Len(versions) \in Nat
  BY NowTyped DEF SoloInv
<1>3. /\ Now.op = "apply" /\ Now.content \in Contents /\ Now.previous # Nothing
      /\ NewestIs(Now.content, "failed") /\ Replaced /\ Recorded
  BY <1>1, <1>2 DEF Alone, OnItsWay, Written, Logged, Sound, Replaced, Recorded, Now,
                    Deploying, Points, RollbackPoints
<1>4. CASE Restore(solo)
  <2>1. Goto(solo, "undoReload") /\ cfg' = Now.previous
    BY <1>4, SoloAssumption DEF Restore, Fails, Now
  <2>2. GoesOn("undoReload")
    BY <1>2, <2>1, GotoGoesOn
  <2>3. Alone(Now)'
    BY <1>1, <1>3, <2>1, <2>2
       DEF GoesOn, Alone, OnItsWay, BackedUp, Written, Logged, Serving, NewestIs
  <2>4. Replaced' /\ Recorded'
    BY <1>3, <2>2 DEF Replaced, Recorded, GoesOn, Now
  <2> QED
    BY <1>1, <1>3, <2>2, <2>3, <2>4, UnseenAfter DEF Advances, GoesOn
<1>5. CASE UndoReload(solo)
  <2>1. Now'.pc = "idle" /\ Now'.op = "none" /\ Now'.outcome = "undone"
    <3>1. CASE Load(solo, Idle("undone"))
      <4>1. Now' = Idle("undone")
        BY <3>1, OneHandler, Zenon DEF Load, Now
      <4> QED
        BY <4>1 DEF Idle
    <3>2. CASE Return(solo, "undone")
      BY <1>2, <3>2, ReturnEnds
    <3> QED
      BY <1>5, <3>1, <3>2 DEF UndoReload
  <2>2. Alone(Now)' /\ ~Replaced' /\ ~Recorded'
    BY <2>1 DEF Alone, OnItsWay, BackedUp, Written, Logged, Serving, Replaced, Recorded, Now
  <2>3. cfg = Now.previous /\ UNCHANGED cfg
    BY <1>1, <1>5 DEF Alone, Written, UndoReload, disk, At, Now
  <2>4. /\ AbstractDisk = cfg /\ AbstractDisk' = cfg /\ AbstractLog' = versions
        /\ AbstractLog = SubSeq(versions, 1, Len(versions) - 1)
    BY <1>1, <1>3, <2>2, <2>3 DEF AbstractDisk, AbstractLog, Now
  <2>5. Append(SubSeq(versions, 1, Len(versions) - 1), versions[Len(versions)]) = versions
    BY <1>2, <1>3, EndReplaced DEF NewestIs
  <2>6. Abstract!Undone(Now.content)
    BY <1>3, <2>3, <2>4, <2>5 DEF Abstract!Undone, Abstract!Plus, NewestIs
  <2> QED
    BY <1>3, <2>2, <2>6 DEF Advances, Abstract!Next
<1> QED
  BY <1>4, <1>5

\* An old version is on disk again: a new entry first, then the mark on the old one.
LEMMA RollbackAdvances ==
  ASSUME SoloInv, AddRolledBack(solo) \/ MarkRolledBack(solo)
  PROVE  Advances
<1>1. /\ UNCHANGED <<db, cfg, files, backups, running>> /\ Alone(Now)
      /\ Now.pc \in {"addRolledBack", "markRolledBack"}
  BY DEF AddRolledBack, MarkRolledBack, disk, At, Now, SoloInv
<1>2. /\ IInv /\ Now \in Requests /\ Sound(Now, checked) /\ versions \in Seq(Version)
      /\ Len(versions) \in Nat /\ DOMAIN versions = 1..Len(versions)
  BY NowTyped DEF SoloInv
<1>3. /\ Now.op = "rollback" /\ Now.content \in Contents /\ cfg = Now.content
      /\ (Now.answer = "true" => Served)
      /\ Now.version \in Stored /\ versions[Now.version].content = Now.content /\ Replaced
  BY <1>1, <1>2 DEF Alone, OnItsWay, Written, Serving, Sound, Replaced, Now, Deploying, Points
<1>4. Served => Served'
  BY <1>1 DEF Served, Loadable
<1>5. Now.version \in 1..Len(versions) /\ versions[Now.version].status # "deleted"
  BY <1>2, <1>3 DEF Stored
<1>6. CASE AddRolledBack(solo)
  <2>1. AddVersion(Now.content, "applied") /\ Goto(solo, "markRolledBack") /\ Now.pc = "addRolledBack"
    BY <1>6, SoloAssumption DEF AddRolledBack, Fails, Now, At
  <2>2. GoesOn("markRolledBack") /\ Now'.answer = Now.answer
    BY <1>2, <2>1, GotoGoesOn
  <2>3. "applied" \in Statuses
    BY DEF Statuses
  <2>4. /\ Len(versions') = Len(versions) + 1
        /\ versions' # << >> /\ versions'[Len(versions')] = [content |-> Now.content, status |-> "applied"]
        /\ \A v \in DOMAIN versions : v \in DOMAIN versions' /\ versions'[v] = versions[v]
        /\ SubSeq(versions', 1, Len(versions') - 1) = versions
    BY <1>2, <1>3, <2>1, <2>3, AddVersionAdds DEF NewestIs
  <2>5. Now.version \in Stored' /\ versions'[Now.version].content = Now.content /\ Now.version < Len(versions')
    BY <1>2, <1>3, <1>5, <2>4 DEF Stored
  <2>6. Alone(Now)'
    BY <1>1, <1>3, <1>4, <2>2, <2>4, <2>5
       DEF GoesOn, Alone, OnItsWay, BackedUp, Written, Logged, Serving, NewestIs, RollbackPoints
  <2>7. ~Recorded /\ Replaced' /\ Recorded'
    BY <1>3, <2>1, <2>2 DEF Replaced, Recorded, GoesOn, Now
  <2> QED
    BY <1>3, <2>2, <2>4, <2>6, <2>7 DEF Advances, Unseen, AbstractDisk, AbstractLog, GoesOn, Now
<1>7. CASE MarkRolledBack(solo)
  <2> DEFINE v == Now.version
  <2>1. MarkVersion(v, "rolled_back") /\ Succeed(solo, "ok") /\ Now.pc = "markRolledBack"
    BY <1>7, SoloAssumption DEF MarkRolledBack, Fails, Now, At
  <2>2. v < Len(versions) /\ NewestIs(Now.content, "applied") /\ Recorded
    BY <1>1, <1>3, <2>1 DEF Alone, Logged, Recorded, Now
  <2>3. /\ Len(versions') = Len(versions)
        /\ versions' = [versions EXCEPT ![v] = [versions[v] EXCEPT !.status = "rolled_back"]]
        /\ \A w \in DOMAIN versions : w # v => versions'[w] = versions[w]
    BY <1>2, <1>3, <2>1, MarkVersionMarks DEF Statuses
  <2>4. versions' \in Seq(Version)
    BY <1>2, <2>1, MarkVersionTyped DEF Statuses
  <2>5. versions' # << >> /\ versions'[Len(versions')] = [content |-> cfg', status |-> "applied"]
    BY <1>1, <1>2, <1>3, <1>5, <2>2, <2>3, <2>4, EmptySeq DEF NewestIs
  <2>6. Now'.pc = "idle" /\ Now'.op = "none" /\ Now'.answer = Now.answer
    BY <1>2, <2>1, SucceedEnds
  <2>7. Alone(Now)' /\ ~Replaced' /\ ~Recorded'
    BY <1>3, <1>4, <2>5, <2>6
       DEF Alone, OnItsWay, BackedUp, Written, Logged, Serving, NewestIs, Replaced, Recorded, Now
  <2> DEFINE front == SubSeq(versions, 1, Len(versions) - 1)
  <2>8. AbstractLog = front /\ AbstractLog' = versions' /\ AbstractDisk' = cfg
    BY <1>1, <2>2, <2>7 DEF AbstractDisk, AbstractLog
  <2>9. /\ Append(front, [content |-> Now.content, status |-> "applied"]) = versions
        /\ v \in DOMAIN front /\ front[v] = versions[v]
    <3>1. Append(front, versions[Len(versions)]) = versions
      BY <1>2, <2>2, EndReplaced DEF NewestIs
    <3>2. \A w \in 1..(Len(versions) - 1) : versions[w] \in Version
      BY <1>2, ElementOfSeq
    <3>3. 1 \in Int /\ Len(versions) - 1 \in Int
      BY <1>2
    <3>4. /\ front \in Seq(Version)
          /\ Len(front) = IF 1 <= Len(versions) - 1 THEN (Len(versions) - 1) - 1 + 1 ELSE 0
          /\ \A w \in 1..((Len(versions) - 1) - 1 + 1) : front[w] = versions[1 + w - 1]
      BY <3>2, <3>3, SubSeqProperties
    <3> HIDE DEF front, v
    <3>5. v \in 1..(Len(versions) - 1)
      BY <1>2, <1>5, <2>2 DEF v
    <3>6. DOMAIN front = 1..Len(front)
      BY <3>4, LenProperties
    <3> DEFINE m == Len(versions) - 1
    <3>7. v \in 1..Len(front) /\ front[v] = versions[v]
      <4>1. m \in Nat /\ v \in 1..m
        BY <1>2, <3>5
      <4>2. Len(front) = IF 1 <= m THEN m - 1 + 1 ELSE 0
        BY <3>4
      <4>3. \A w \in 1..(m - 1 + 1) : front[w] = versions[1 + w - 1]
        BY <3>4
      <4> HIDE DEF m
      <4>4. m - 1 + 1 = m /\ v \in Int /\ 1 + v - 1 = v /\ 1 <= m
        BY <4>1
      <4>5. v \in 1..(m - 1 + 1)
        BY <4>1, <4>4
      <4>6. front[v] = versions[1 + v - 1]
        BY <4>3, <4>5
      <4> QED
        BY <4>1, <4>2, <4>4, <4>6
    <3>8. Append(front, [content |-> Now.content, status |-> "applied"]) = versions
      BY <2>2, <3>1 DEF NewestIs
    <3> QED
      BY <3>6, <3>7, <3>8
  <2> HIDE DEF front, v
  <2>10. Abstract!RolledBack(v)
    <3>1. /\ AbstractLog[v].status # "deleted" /\ AbstractLog[v].content = Now.content
          /\ AbstractDisk' = AbstractLog[v].content
      BY <1>3, <1>5, <2>8, <2>9 DEF v
    <3>2. AbstractLog' = [versions EXCEPT ![v].status = "rolled_back"]
      BY <2>3, <2>8
    <3> QED
      BY <2>8, <2>9, <3>1, <3>2, Zenon DEF Abstract!RolledBack, Abstract!Plus
  <2> QED
    BY <2>7, <2>8, <2>9, <2>10 DEF Advances, Abstract!Next
<1> QED
  BY <1>6, <1>7

LEMMA TrimAdvances ==
  ASSUME SoloInv, Trim(solo)
  PROVE  Advances
<1>1. UNCHANGED <<db, cfg, files, backups, running>> /\ Alone(Now) /\ Now.pc = "trim"
  BY DEF Trim, disk, At, Now, SoloInv
<1>2. /\ IInv /\ Now \in Requests /\ Sound(Now, checked) /\ versions \in Seq(Version)
  BY NowTyped DEF SoloInv
<1>3. CASE Now.op = "apply"
  <2>1. /\ NewestIs(Now.content, "applied") /\ cfg = Now.content
        /\ (Now.answer = "true" => Served) /\ Now.content \in Contents /\ Replaced /\ Recorded
    BY <1>1, <1>2, <1>3 DEF Alone, Logged, Written, Serving, Sound, Replaced, Recorded, Now
  <2>2. versions' = Trimmed(VersionKeep) /\ Succeed(solo, "ok")
    BY <1>3, SoloAssumption DEF Trim, Fails, Now
  <2>3. Now'.pc = "idle" /\ Now'.op = "none" /\ Now'.answer = Now.answer
    BY <1>2, <2>2, SucceedEnds
  <2>4. versions' # << >> /\ versions'[Len(versions')] = [content |-> cfg', status |-> "applied"]
    BY <1>1, <1>2, <2>1, <2>2, TrimmedKeepsNewest DEF NewestIs
  <2>5. Served => Served'
    BY <1>1 DEF Served, Loadable
  <2>6. Alone(Now)' /\ ~Replaced' /\ ~Recorded'
    BY <2>1, <2>3, <2>4, <2>5
       DEF Alone, OnItsWay, BackedUp, Written, Logged, Serving, NewestIs, Replaced, Recorded, Now
  <2>7. /\ AbstractLog = SubSeq(versions, 1, Len(versions) - 1) /\ AbstractLog' = Trimmed(VersionKeep)
        /\ AbstractDisk' = Now.content
    BY <1>1, <2>1, <2>2, <2>6 DEF AbstractDisk, AbstractLog
  <2>8. Append(AbstractLog, [content |-> Now.content, status |-> "applied"]) = versions
    <3>1. Append(SubSeq(versions, 1, Len(versions) - 1), versions[Len(versions)]) = versions
      BY <1>2, <2>1, EndReplaced DEF NewestIs
    <3> QED
      BY <2>1, <2>7, <3>1 DEF NewestIs
  <2>9. Abstract!Kept(versions) = Trimmed(VersionKeep)
    BY DEF Abstract!Kept, Trimmed
  <2>10. Abstract!Applied(Now.content)
    BY <2>7, <2>8, <2>9 DEF Abstract!Applied, Abstract!Plus
  <2> QED
    BY <2>1, <2>6, <2>10 DEF Advances, Abstract!Next
<1>4. CASE Now.op # "apply"
  <2>1. Return(solo, "reloaded") /\ UNCHANGED versions
    BY <1>4 DEF Trim, Now
  <2>2. Now'.pc = "idle" /\ Now'.op = "none" /\ Now'.outcome = "reloaded"
    BY <1>2, <2>1, ReturnEnds
  <2>3. Alone(Now)' /\ ~Replaced' /\ ~Recorded'
    BY <2>2 DEF Alone, OnItsWay, BackedUp, Written, Logged, Serving, Replaced, Recorded, Now
  <2>4. ~Replaced /\ ~Recorded
    BY <1>1, <1>4 DEF Replaced, Recorded, Now, Alone, OnItsWay, RollbackPoints
  <2> QED
    BY <1>1, <2>1, <2>3, <2>4, UnseenBefore DEF Advances
<1> QED
  BY <1>3, <1>4

\* The operator, who works alone, edits between requests only; HAProxy may die anywhere.
LEMMA OutsideAdvances ==
  ASSUME SoloInv, Edit \/ HAProxyDies
  PROVE  Advances
<1>1. UNCHANGED <<disk, versions, req>> /\ Alone(Now) /\ Now' = Now
  BY DEF Edit, HAProxyDies, SoloInv, Now
<1>2. db' = db \/ Now.pc = "idle"
  BY SoloAssumption, OneHandler DEF Edit, HAProxyDies, At, Now
<1>3. running' \in {running, Nothing}
  BY DEF Edit, HAProxyDies
<1>4. UNCHANGED <<cfg, files, backups>> /\ Stored' = Stored
  BY <1>1 DEF disk, Stored
<1>5. Served => Served'
  BY <1>3, <1>4 DEF Served, Loadable
<1>6. Alone(Now)'
  BY <1>1, <1>2, <1>4, <1>5
     DEF Alone, OnItsWay, BackedUp, Written, Logged, Serving, NewestIs
<1>7. Unseen
  BY <1>1, <1>4 DEF Unseen, AbstractDisk, AbstractLog, Replaced, Recorded, Now
<1> QED
  BY <1>6, <1>7 DEF Advances

(***************************************************************************)
(* The theorems.                                                           *)
(***************************************************************************)

LEMMA StepAdvances ==
  ASSUME SoloInv, Next
  PROVE  Advances
<1>1. CASE \E h \in Handlers : Request(h) \/ Step(h)
  <2>1. Request(solo) \/ Step(solo)
    BY <1>1, OneHandler
  <2>2. Step(solo) =>
          \/ Stage(solo) \/ CheckPasses(solo) \/ CheckFails(solo) \/ Backup(solo)
          \/ WriteErrorPages(solo) \/ PruneErrorPages(solo) \/ WriteCertificates(solo)
          \/ PruneCertificates(solo) \/ WriteConfig(solo) \/ RecordApplied(solo)
          \/ Reload(solo) \/ RestartStop(solo) \/ Status(solo) \/ MarkFailed(solo)
          \/ Restore(solo) \/ UndoReload(solo) \/ AddRolledBack(solo)
          \/ MarkRolledBack(solo) \/ Trim(solo)
    BY DEF Step
  <2> QED
    BY <2>1, <2>2, BeginAdvances, CheckAdvances, PublishAdvances, WriteAdvances, ReloadAdvances,
       MarkAdvances, UndoAdvances, RollbackAdvances, TrimAdvances
<1>2. ~CrashAndBoot
  BY SoloAssumption DEF CrashAndBoot, Fails
<1> QED
  BY <1>1, <1>2, OutsideAdvances DEF Next

\* The request of an operator who works alone keeps to its path: at each point the
\* file, the log and the backup are what the rest of the request relies on.
THEOREM AloneInvariant == Spec => []SoloInv
<1>1. Init => Alone(Now)
  <2> SUFFICES ASSUME Init PROVE Alone(Now)
    OBVIOUS
  <2>1. Now = Idle("none")
    BY OneHandler DEF Init, Now
  <2>2. Now.pc = "idle" /\ Now.op = "none" /\ Now.outcome = "none"
    BY <2>1 DEF Idle
  <2> QED
    BY <2>2 DEF Alone, OnItsWay, BackedUp, Written, Logged, Serving
<1>2. IInv /\ Alone(Now) /\ [Next]_vars => Alone(Now)'
  <2>1. CASE Next
    BY <2>1, StepAdvances DEF Advances, SoloInv
  <2>2. CASE UNCHANGED vars
    BY <2>2 DEF vars, disk, Alone, OnItsWay, BackedUp, Written, Logged, Serving, NewestIs,
                Served, Loadable, Stored, Now
  <2> QED
    BY <2>1, <2>2
<1>3. IInv /\ Alone(Now) => SoloInv
  BY DEF SoloInv
<1> QED
  BY <1>1, <1>2, <1>3, InductiveInvariant, PTL DEF Spec

\* After a deployment that succeeded the newest applied version is the file on disk; if
\* the answer to its reload was true, HAProxy serves that file or is down, and the file
\* would load again; until the next request, whatever is edited.
THEOREM SuccessLeavesConsistent == Spec => []SuccessIsConsistent
<1>1. SoloInv => SuccessIsConsistent
  <2> SUFFICES ASSUME SoloInv, NEW h \in Handlers, At(h, "idle"), req[h].outcome = "ok"
               PROVE  /\ Applied # {} /\ versions[LatestApplied].content = cfg
                      /\ req[h].answer = "true" => running \in {cfg, Nothing} /\ Loadable
    BY DEF SuccessIsConsistent
  <2>1. (req[h].answer = "true" => Served) /\ NewestIs(cfg, "applied")
    BY OneHandler DEF SoloInv, Alone, Serving, At, Now
  <2>2. /\ versions \in Seq(Version) /\ DOMAIN versions = 1..Len(versions)
        /\ Len(versions) \in Nat \ {0}
    BY <2>1, NowTyped, EmptySeq DEF SoloInv, NewestIs
  <2>3. Len(versions) \in Applied /\ \A w \in Applied : w <= Len(versions)
    BY <2>1, <2>2 DEF Applied, NewestIs
  <2>4. LatestApplied = Len(versions)
    <3>1. LatestApplied \in Applied /\ \A w \in Applied : w <= LatestApplied
      BY <2>3 DEF LatestApplied
    <3>2. LatestApplied \in 1..Len(versions)
      BY <2>2, <3>1 DEF Applied
    <3> DEFINE l == LatestApplied
               n == Len(versions)
    <3>3. n <= l /\ l <= n /\ l \in 1..n /\ n \in Nat
      BY <2>2, <2>3, <3>1, <3>2
    <3> HIDE DEF l, n
    <3>4. l = n
      BY <3>3
    <3> QED
      BY <3>4 DEF l, n
  <2> QED
    BY <2>1, <2>3, <2>4 DEF Served, NewestIs
<1> QED
  BY <1>1, AloneInvariant, PTL

\* The content a deployment overwrites is the newest backup.
THEOREM BackupBeforeOverwrite == Spec => OverwrittenIsBackedUp
<1>1. SoloInv => [\A h \in Handlers :
                    At(h, "write") /\ cfg' # cfg /\ cfg # Nothing
                      => backups # << >> /\ backups[Len(backups)] = cfg]_vars
  BY OneHandler DEF SoloInv, Alone, BackedUp, At, Now
<1> QED
  BY <1>1, AloneInvariant, PTL DEF OverwrittenIsBackedUp

\* Every Apply and every Rollback of an operator who works alone is one step of
\* AtomicDeploy, whenever HAProxy refuses a reload or dies, and however many
\* deployments there are.
THEOREM AtomicRefinement == Spec => DeploysAtomically
<1>1. Init => Abstract!Init
  <2> SUFFICES ASSUME Init PROVE Abstract!Init
    OBVIOUS
  <2>1. Now = Idle("none")
    BY OneHandler DEF Init, Now
  <2>2. ~Replaced /\ ~Recorded
    BY <2>1 DEF Replaced, Recorded, Now, Idle
  <2> QED
    BY <2>2 DEF Init, Abstract!Init, AbstractDisk, AbstractLog
<1>2. SoloInv /\ [Next]_vars => [Abstract!Next]_<<AbstractDisk, AbstractLog>>
  <2>1. ASSUME SoloInv, Next PROVE Abstract!Next \/ Unseen
    BY <2>1, StepAdvances DEF Advances
  <2>2. UNCHANGED vars => Unseen
    BY DEF vars, Unseen, AbstractDisk, AbstractLog, Replaced, Recorded
  <2> QED
    BY <2>1, <2>2 DEF Unseen
<1> QED
  BY <1>1, <1>2, AloneInvariant, PTL DEF Spec, DeploysAtomically, Abstract!Spec
=============================================================================
