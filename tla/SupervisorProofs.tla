-------------------------- MODULE SupervisorProofs --------------------------
(***************************************************************************)
(* Proofs about Supervisor, for any number of handlers and any bounds: the *)
(* state is well typed, the supervisor never loses track of a HAProxy it   *)
(* started, and what a handler answers about a reload or a restart is true *)
(* of HAProxy. Three formulas carry the proofs: the children are numbered  *)
(* in order (IInv), each request's notes are true of HAProxy (Traced), and *)
(* a step of anybody else changes HAProxy only in ways the notes allow for *)
(* (Drifts).                                                               *)
(***************************************************************************)
EXTENDS Supervisor, TLAPS

(***************************************************************************)
(* Type correctness.                                                       *)
(***************************************************************************)

MasterType == [workers : SUBSET Workers, starting : SUBSET Workers,
               failed : 0..MaxForks, usr2 : BOOLEAN, reloaded : BOOLEAN]

\* What the caller part of the type invariant says (req and the reload mutex).
CallersTyped == req \in [Callers -> Requests] /\ reloadMu \in Callers \cup {NoOne}

\* The rest of it: the children and HAProxy.
ProcessTyped ==
  /\ cmd \in 0..MaxStarts
  /\ child \in [Children -> ChildStates]
  /\ master \in MasterType
  /\ forks \in 0..MaxForks
  /\ lastFailed \in 0..MaxForks

\* A request that has not begun, or has ended, is well typed (Fresh).
LEMMA FreshTyped ==
  ASSUME NEW p \in Points, NEW v \in Verdicts
  PROVE  Fresh(p, v) \in Requests
BY BoundsAssumption, SMT DEF Fresh, Requests, NoProcState, ProcState, Points, Verdicts

\* A caller that returns stays well typed, and so does the mutex it lets go.
LEMMA ReturnTyped ==
  ASSUME CallersTyped, NEW c \in Callers, NEW v \in Verdicts, Return(c, v)
  PROVE  CallersTyped'
<1>1. Fresh("done", v) \in Requests
  BY FreshTyped DEF Points
<1> QED
  BY <1>1 DEF CallersTyped, Return

\* Entering waitHealthy with a well-typed request.
LEMMA WaitHealthyTyped ==
  ASSUME CallersTyped, NEW c \in Callers, NEW r \in Requests, NEW b \in ProcState,
         NEW e \in BOOLEAN, WaitHealthy(c, r, b, e)
  PROVE  CallersTyped'
<1>1. "health" \in Points
  BY DEF Points
<1>2. [r EXCEPT !.pc = "health", !.base = b, !.expectReload = e] \in Requests
  BY <1>1, Zenon DEF Requests
<1> QED
  BY <1>2 DEF CallersTyped, WaitHealthy

\* Starting a master numbers a new child and a new worker within the bounds.
LEMMA LaunchTyped ==
  ASSUME ProcessTyped, Launch
  PROVE  ProcessTyped'
<1>1. cmd + 1 \in Children /\ forks + 1 \in Workers
  BY BoundsAssumption, SMT DEF ProcessTyped, Launch, Children, Workers
<1>2. NewMaster(forks + 1) \in MasterType
  BY <1>1, BoundsAssumption, SMT DEF NewMaster, MasterType
<1>3. cmd' \in 0..MaxStarts /\ forks' \in 0..MaxForks
  BY <1>1, BoundsAssumption, SMT DEF ProcessTyped, Launch, Children, Workers
<1>4. child' \in [Children -> ChildStates]
  BY <1>1 DEF ProcessTyped, Launch, ChildStates
<1> QED
  BY <1>2, <1>3, <1>4 DEF ProcessTyped, Launch

\* startLocked keeps every part well typed.
LEMMA StartLockedTyped ==
  ASSUME TypeOK, NEW c \in Callers, StartLocked(c)
  PROVE  CallersTyped' /\ ProcessTyped'
<1> USE DEF TypeOK
<1>1. CallersTyped /\ ProcessTyped
  BY DEF CallersTyped, ProcessTyped, MasterType
<1>2. NoProcState \in ProcState /\ req[c] \in Requests
  BY BoundsAssumption, SMT DEF NoProcState, ProcState
<1>3. ASSUME NoLaunch PROVE ProcessTyped'
  BY <1>1, <1>3 DEF NoLaunch, haproxyVars, ProcessTyped
<1>4. ASSUME WaitHealthy(c, req[c], NoProcState, FALSE) PROVE CallersTyped'
  BY <1>1, <1>2, <1>4, WaitHealthyTyped
<1>5. ASSUME Return(c, "failed") PROVE CallersTyped'
  BY <1>1, <1>5, ReturnTyped DEF Verdicts
<1>6. ASSUME Launch PROVE ProcessTyped'
  BY <1>1, <1>6, LaunchTyped
<1> QED
  BY <1>3, <1>4, <1>5, <1>6 DEF StartLocked

\* A caller that changes fields of its own request, to values of their types.
LEMMA CallerTyped ==
  ASSUME CallersTyped, NEW c \in Callers, NEW r \in Requests,
         req' = [req EXCEPT ![c] = r], UNCHANGED reloadMu
  PROVE  CallersTyped'
BY DEF CallersTyped

LEMMA RequestTyped ==
  ASSUME TypeOK, NEW c \in Callers, NEW o \in {"reload", "restart"}, Request(c, o)
  PROVE  CallersTyped'
<1> DEFINE p == IF o = "reload" THEN "lock" ELSE "stop"
<1>1. p \in Points
  BY DEF Points
<1>2. req[c] \in Requests
  BY DEF TypeOK
<1> HIDE DEF p
<1>3. [req[c] EXCEPT !.op = o, !.pc = p] \in Requests
  BY <1>1, <1>2, Zenon DEF Requests
<1>4. req' = [req EXCEPT ![c] = [req[c] EXCEPT !.op = o, !.pc = p]]
  BY Zenon DEF Request, TypeOK, p
<1> QED
  BY <1>3, <1>4 DEF TypeOK, CallersTyped, Request

LEMMA ReloadTyped ==
  ASSUME TypeOK, NEW c \in Callers,
         ReloadLock(c) \/ ReloadCheck(c) \/ ReloadBaseline(c) \/ ReloadSignal(c)
  PROVE  CallersTyped' /\ ProcessTyped'
<1>1. CallersTyped /\ ProcessTyped /\ req[c] \in Requests
  BY DEF TypeOK, CallersTyped, ProcessTyped, MasterType
<1>2. ASSUME UNCHANGED <<cmd, child, haproxyVars>> PROVE ProcessTyped'
  BY <1>1, <1>2 DEF ProcessTyped, haproxyVars
<1>3. CASE ReloadLock(c)
  <2>1. [req[c] EXCEPT !.pc = "check"] \in Requests
    BY <1>1, Zenon DEF Requests, Points
  <2> QED
    BY <1>1, <1>2, <1>3, <2>1 DEF ReloadLock, CallersTyped
<1>4. CASE ReloadCheck(c)
  <2>1. CASE RunningLocked
    <3>1. [req[c] EXCEPT !.pc = "baseline", !.pid = cmd] \in Requests
      BY <1>1, Zenon DEF Requests, Points, ProcessTyped
    <3>2. req' = [req EXCEPT ![c] = [req[c] EXCEPT !.pc = "baseline", !.pid = cmd]]
      BY <1>4, <2>1, Zenon DEF ReloadCheck
    <3> QED
      BY <1>1, <1>2, <1>4, <2>1, <3>1, <3>2, CallerTyped DEF ReloadCheck, NoLaunch
  <2>2. CASE ~RunningLocked
    BY <1>4, <2>2, StartLockedTyped DEF ReloadCheck
  <2> QED
    BY <2>1, <2>2
<1>5. CASE ReloadBaseline(c)
  <2>1. PICK answered \in BOOLEAN :
          req' = [req EXCEPT ![c].pc = "signal", ![c].clean = answered /\ ReloadsDecided,
                    ![c].base = IF answered
                                THEN [workers |-> master.workers, failed |-> master.failed]
                                ELSE NoProcState]
    BY <1>5 DEF ReloadBaseline
  <2> DEFINE b == IF answered THEN [workers |-> master.workers, failed |-> master.failed]
                  ELSE NoProcState
             k == answered /\ ReloadsDecided
  <2>2. b \in ProcState
    BY <1>1, BoundsAssumption, SMT DEF ProcState, NoProcState, ProcessTyped, MasterType
  <2>3. k \in BOOLEAN
    OBVIOUS
  <2>4. req' = [req EXCEPT ![c] = [req[c] EXCEPT !.pc = "signal", !.clean = k, !.base = b]]
    BY <2>1, Zenon
  <2> HIDE DEF b, k
  <2>5. [req[c] EXCEPT !.pc = "signal", !.clean = k, !.base = b] \in Requests
    BY <1>1, <2>2, <2>3, Zenon DEF Requests, Points
  <2> QED
    BY <1>1, <1>2, <1>5, <2>4, <2>5, CallerTyped DEF ReloadBaseline
<1>6. CASE ReloadSignal(c)
  <2>1. CASE Return(c, "failed") /\ UNCHANGED master
    BY <1>1, <1>2, <1>6, <2>1, ReturnTyped DEF ReloadSignal, Verdicts, haproxyVars
  <2>2. CASE /\ WaitHealthy(c, [req[c] EXCEPT !.since = forks], req[c].base, TRUE)
             /\ master' = [master EXCEPT !.usr2 = @ \/ child[req[c].pid] = "up"]
    <3>1. forks \in 0..(MaxStarts + MaxForks)
      BY <1>1, BoundsAssumption, SMT DEF ProcessTyped
    <3>2. [req[c] EXCEPT !.since = forks] \in Requests /\ req[c].base \in ProcState
      BY <1>1, <3>1, Zenon DEF Requests
    <3>3. CallersTyped'
      BY <1>1, <2>2, <3>2, WaitHealthyTyped
    <3>4. \A u \in BOOLEAN : [master EXCEPT !.usr2 = u] \in MasterType
      BY <1>1, Zenon DEF ProcessTyped, MasterType
    <3>5. (master.usr2 \/ child[req[c].pid] = "up") \in BOOLEAN
      OBVIOUS
    <3>6. master' \in MasterType
      BY <2>2, <3>4, Zenon
    <3> QED
      BY <1>1, <1>6, <3>3, <3>6 DEF ReloadSignal, ProcessTyped
  <2> QED
    BY <1>6, <2>1, <2>2 DEF ReloadSignal
<1> QED
  BY <1>3, <1>4, <1>5, <1>6

\* The bounds of the polling loop: a poll is only counted before the deadline.
LEMMA NextTurnTyped ==
  ASSUME TypeOK, NEW c \in Callers, NEW fresh \in SUBSET Workers,
         NEW settled \in 0..(DeadlinePolls + SettlePolls), NextTurn(c, fresh, settled)
  PROVE  CallersTyped'
<1>1. req[c] \in Requests /\ CallersTyped
  BY DEF TypeOK, CallersTyped
<1>2. CASE Return(c, "failed")
  BY <1>1, <1>2, ReturnTyped DEF Verdicts
<1>3. CASE /\ req[c].polls < DeadlinePolls
           /\ req' = [req EXCEPT ![c].pc = "health", ![c].polls = @ + 1, ![c].fresh = fresh,
                        ![c].settled = settled, ![c].seen = NoProcState, ![c].by = 0]
           /\ UNCHANGED reloadMu
  <2> DEFINE n == req[c].polls + 1
             r == [req[c] EXCEPT !.pc = "health", !.polls = n, !.fresh = fresh,
                                 !.settled = settled, !.seen = NoProcState, !.by = 0]
  <2>1. req[c].polls \in 0..DeadlinePolls
    BY <1>1, Zenon DEF Requests
  <2>2. n \in 0..DeadlinePolls
    BY <1>3, <2>1, BoundsAssumption, SMT
  <2>3. NoProcState \in ProcState /\ 0 \in 0..MaxStarts
    BY BoundsAssumption, SMT DEF NoProcState, ProcState
  <2>4. req' = [req EXCEPT ![c] = r]
    BY <1>3, Zenon
  <2> HIDE DEF n
  <2>5. r \in Requests
    BY <1>1, <2>2, <2>3, Zenon DEF Requests, Points
  <2> HIDE DEF r
  <2> QED
    BY <1>1, <1>3, <2>4, <2>5, CallerTyped
<1> QED
  BY <1>2, <1>3 DEF NextTurn

LEMMA WaitHealthyStepTyped ==
  ASSUME TypeOK, NEW c \in Callers, WaitHealthyStep(c)
  PROVE  CallersTyped' /\ ProcessTyped'
<1>1. CallersTyped /\ ProcessTyped /\ req[c] \in Requests
  BY DEF TypeOK, CallersTyped, ProcessTyped, MasterType
<1>2. ProcessTyped'
  BY <1>1 DEF WaitHealthyStep, PollNotRunning, PollAsk, PollAnswered, PollUnanswered, PollJudged,
              PollNoSocket, ProcessTyped, haproxyVars
<1>3. /\ req[c].fresh \in SUBSET Workers
      /\ req[c].polls \in 0..DeadlinePolls
      /\ req[c].settled \in 0..(DeadlinePolls + SettlePolls)
      /\ req[c].seen \in ProcState
  BY <1>1, Zenon DEF Requests
<1>4. ASSUME NEW v \in Verdicts, Return(c, v) PROVE CallersTyped'
  BY <1>1, <1>4, ReturnTyped
<1>5. CASE PollNotRunning(c) \/ PollNoSocket(c)
  BY <1>2, <1>4, <1>5 DEF PollNotRunning, PollNoSocket, Verdicts
<1>6. CASE PollAsk(c)
  <2>1. [req[c] EXCEPT !.pc = "asked"] \in Requests
    BY <1>1, Zenon DEF Requests, Points
  <2>2. req' = [req EXCEPT ![c] = [req[c] EXCEPT !.pc = "asked"]]
    BY <1>6, Zenon DEF PollAsk
  <2> QED
    BY <1>1, <1>2, <1>6, <2>1, <2>2, CallerTyped DEF PollAsk
<1>7. CASE PollAnswered(c)
  <2> DEFINE p == [workers |-> master.workers, failed |-> master.failed]
  <2>1. p \in ProcState /\ cmd \in 0..MaxStarts
    BY <1>1, BoundsAssumption, SMT DEF ProcState, ProcessTyped, MasterType
  <2>2. req' = [req EXCEPT ![c] = [req[c] EXCEPT !.pc = "judge", !.by = cmd, !.seen = p]]
    BY <1>7, Zenon DEF PollAnswered
  <2> HIDE DEF p
  <2>3. [req[c] EXCEPT !.pc = "judge", !.by = cmd, !.seen = p] \in Requests
    BY <1>1, <2>1, Zenon DEF Requests, Points
  <2> QED
    BY <1>1, <1>2, <1>7, <2>2, <2>3, CallerTyped DEF PollAnswered
<1>8. CASE PollUnanswered(c)
  BY <1>2, <1>3, <1>8, NextTurnTyped DEF PollUnanswered
<1>9. CASE PollJudged(c)
  <2> DEFINE f == FreshNow(req[c], req[c].seen.workers)
             t == IF f = {} THEN 0 ELSE SettledAt(req[c])
  <2>1. req[c].seen.workers \in SUBSET Workers
    BY <1>3 DEF ProcState
  <2>2. f \in SUBSET Workers
    BY <1>3, <2>1 DEF FreshNow
  <2>3. SettledAt(req[c]) \in 0..(DeadlinePolls + SettlePolls)
    BY <1>3, BoundsAssumption, SMT DEF SettledAt
  <2>4. 0 \in 0..(DeadlinePolls + SettlePolls)
    BY BoundsAssumption, SMT
  <2>5. t \in 0..(DeadlinePolls + SettlePolls)
    BY <2>3, <2>4, Zenon
  <2>6. Return(c, "refused") \/ Return(c, "failed") \/ Return(c, "ok") \/ NextTurn(c, f, t)
    BY <1>9, Zenon DEF PollJudged
  <2> HIDE DEF f, t
  <2> QED
    BY <1>2, <1>4, <2>2, <2>5, <2>6, NextTurnTyped DEF Verdicts
<1> QED
  BY <1>2, <1>5, <1>6, <1>7, <1>8, <1>9 DEF WaitHealthyStep

LEMMA StopTyped ==
  ASSUME TypeOK, NEW c \in Callers,
         StopBegin(c) \/ StopExited(c) \/ StopKill(c) \/ StopGiveUp(c) \/ RestartStart(c)
  PROVE  CallersTyped' /\ ProcessTyped'
<1>1. CallersTyped /\ ProcessTyped /\ req[c] \in Requests
  BY DEF TypeOK, CallersTyped, ProcessTyped, MasterType
<1>2. ASSUME UNCHANGED <<cmd, child, haproxyVars>> PROVE ProcessTyped'
  BY <1>1, <1>2 DEF ProcessTyped, haproxyVars
<1>3. ASSUME NEW v \in Verdicts, Return(c, v) PROVE CallersTyped'
  BY <1>1, <1>3, ReturnTyped
<1>4. \A p \in Points : [req[c] EXCEPT !.pc = p] \in Requests
  BY <1>1, Zenon DEF Requests
<1>5. CASE StopBegin(c)
  <2>1. cmd \in 0..MaxStarts /\ cmd \in 0..(MaxStarts + MaxForks)
    BY <1>1, BoundsAssumption, SMT DEF ProcessTyped
  <2>2. [req[c] EXCEPT !.pc = "grace", !.pid = cmd, !.since = cmd] \in Requests
    BY <1>1, <2>1, Zenon DEF Requests, Points
  <2>3. [req[c] EXCEPT !.pc = "start", !.since = cmd] \in Requests
    BY <1>1, <2>1, Zenon DEF Requests, Points
  <2>4. \/ /\ req' = [req EXCEPT ![c] = [req[c] EXCEPT !.pc = "grace", !.pid = cmd, !.since = cmd]]
           /\ UNCHANGED reloadMu
        \/ /\ req' = [req EXCEPT ![c] = [req[c] EXCEPT !.pc = "start", !.since = cmd]]
           /\ UNCHANGED reloadMu
        \/ Return(c, "ok")
    BY <1>5, Zenon DEF StopBegin
  <2>5. CallersTyped'
    BY <1>1, <1>3, <2>2, <2>3, <2>4, CallerTyped DEF Verdicts
  <2> QED
    BY <1>2, <1>5, <2>5 DEF StopBegin
<1>6. CASE StopExited(c)
  <2>1. \/ req' = [req EXCEPT ![c] = [req[c] EXCEPT !.pc = "start"]] /\ UNCHANGED reloadMu
        \/ Return(c, "ok")
    BY <1>6, Zenon DEF StopExited, Stopped
  <2>2. CallersTyped'
    BY <1>1, <1>3, <1>4, <2>1, CallerTyped DEF Verdicts, Points
  <2> QED
    BY <1>2, <1>6, <2>2 DEF StopExited
<1>7. CASE StopKill(c)
  <2>1. CallersTyped'
    <3>1. req' = [req EXCEPT ![c] = [req[c] EXCEPT !.pc = "kill"]]
      BY <1>7, Zenon DEF StopKill
    <3> QED
      BY <1>1, <1>4, <1>7, <3>1, CallerTyped DEF StopKill, Points
  <2>2. NoMaster \in MasterType
    BY BoundsAssumption, SMT DEF NoMaster, MasterType
  <2> QED
    BY <1>1, <1>7, <2>1, <2>2 DEF StopKill, ProcessTyped, ChildStates
<1>8. CASE StopGiveUp(c)
  BY <1>2, <1>3, <1>8 DEF StopGiveUp, Verdicts
<1>9. CASE RestartStart(c)
  BY <1>9, StartLockedTyped DEF RestartStart
<1> QED
  BY <1>5, <1>6, <1>7, <1>8, <1>9

LEMMA HAProxyTyped ==
  ASSUME ProcessTyped,
         \/ MasterForks \/ WorkerReady \/ WorkerFails
         \/ \E i \in Children : Watch(i) \/ MasterExits(i)
  PROVE  ProcessTyped'
<1>1. master \in MasterType /\ master.workers \in SUBSET Workers
      /\ master.starting \in SUBSET Workers /\ master.failed \in 0..MaxForks
  BY DEF ProcessTyped, MasterType
<1>2. NoMaster \in MasterType
  BY BoundsAssumption, SMT DEF NoMaster, MasterType
<1>3. ASSUME NEW i \in Children, Watch(i) \/ MasterExits(i) PROVE ProcessTyped'
  BY <1>2, <1>3 DEF Watch, MasterExits, ProcessTyped, ChildStates, haproxyVars
<1>4. CASE MasterForks
  <2>1. forks + 1 \in Workers /\ forks' \in 0..MaxForks
    BY <1>4, BoundsAssumption, SMT DEF MasterForks, ProcessTyped, Workers
  <2>2. PICK kept \in {{}, master.workers} :
          master' = [master EXCEPT !.usr2 = FALSE, !.reloaded = TRUE,
                                   !.workers = kept \cup {forks + 1}, !.starting = {forks + 1}]
    BY <1>4 DEF MasterForks
  <2>3. kept \cup {forks + 1} \in SUBSET Workers /\ {forks + 1} \in SUBSET Workers
    BY <1>1, <2>1
  <2>4. master' \in MasterType
    BY <1>1, <2>2, <2>3, Zenon DEF MasterType
  <2> QED
    BY <1>4, <2>1, <2>4 DEF MasterForks, ProcessTyped, goVars
<1>5. CASE WorkerReady
  <2>1. master.workers \cap master.starting \in SUBSET Workers /\ {} \in SUBSET Workers
    BY <1>1
  <2>2. master' = [master EXCEPT !.workers = master.workers \cap master.starting, !.starting = {}]
    BY <1>5, Zenon DEF WorkerReady
  <2>3. master' \in MasterType
    BY <1>1, <2>1, <2>2, Zenon DEF MasterType
  <2> QED
    BY <1>5, <2>3 DEF WorkerReady, ProcessTyped, goVars
<1>6. CASE WorkerFails
  <2>1. /\ master.workers \ master.starting \in SUBSET Workers /\ {} \in SUBSET Workers
        /\ master.failed + 1 \in 0..MaxForks
    BY <1>1, <1>6, BoundsAssumption, SMT DEF WorkerFails
  <2>2. master' = [master EXCEPT !.workers = master.workers \ master.starting, !.starting = {},
                                 !.failed = master.failed + 1]
    BY <1>6, Zenon DEF WorkerFails
  <2>3. master' \in MasterType
    BY <1>1, <2>1, <2>2, Zenon DEF MasterType
  <2> QED
    BY <1>6, <2>3 DEF WorkerFails, ProcessTyped, goVars
<1> QED
  BY <1>3, <1>4, <1>5, <1>6

\* Every step, of the callers, of main, of the watchers and of HAProxy.
LEMMA NextTyped ==
  ASSUME TypeOK, [Next]_vars
  PROVE  CallersTyped' /\ ProcessTyped'
<1>1. CallersTyped /\ ProcessTyped
  BY DEF TypeOK, CallersTyped, ProcessTyped, MasterType
<1>2. ASSUME NEW c \in Callers, CallerStep(c) PROVE CallersTyped' /\ ProcessTyped'
  BY <1>2, ReloadTyped, WaitHealthyStepTyped, StopTyped DEF CallerStep
<1>3. ASSUME NEW c \in Callers, NEW o \in {"reload", "restart"}, Request(c, o)
      PROVE  CallersTyped' /\ ProcessTyped'
  <2>1. CallersTyped'
    BY <1>3, RequestTyped
  <2> QED
    BY <1>1, <1>3, <2>1 DEF Request, ProcessTyped, haproxyVars
<1>4. CASE BootStart
  <2>1. CallersTyped'
    <3>1. Main \in Callers /\ req[Main] \in Requests
      BY <1>1 DEF CallersTyped, Callers
    <3>2. [req[Main] EXCEPT !.pc = "idle"] \in Requests
      BY <3>1, Zenon DEF Requests, Points
    <3>3. req' = [req EXCEPT ![Main] = [req[Main] EXCEPT !.pc = "idle"]]
      BY <1>4, Zenon DEF BootStart
    <3> QED
      BY <1>1, <1>4, <3>1, <3>2, <3>3, CallerTyped DEF BootStart
  <2>2. ProcessTyped'
    BY <1>1, <1>4, LaunchTyped DEF BootStart, NoLaunch, haproxyVars, ProcessTyped
  <2> QED
    BY <2>1, <2>2
<1>5. CASE BeginShutdown
  <2>1. Main \in Callers /\ req[Main] \in Requests
    BY <1>1 DEF CallersTyped, Callers
  <2>2. [req[Main] EXCEPT !.op = "shutdown", !.pc = "stop"] \in Requests
    BY <2>1, Zenon DEF Requests, Points
  <2>3. req' = [req EXCEPT ![Main] = [req[Main] EXCEPT !.op = "shutdown", !.pc = "stop"]]
    BY <1>5, Zenon DEF BeginShutdown
  <2>4. CallersTyped'
    BY <1>1, <1>5, <2>1, <2>2, <2>3, CallerTyped DEF BeginShutdown
  <2> QED
    BY <1>1, <1>5, <2>4 DEF BeginShutdown, ProcessTyped, haproxyVars
<1>6. CASE ControllerExit
  <2>1. Fresh("done", "none") \in Requests
    BY FreshTyped DEF Points, Verdicts
  <2> QED
    BY <1>1, <1>6, <2>1 DEF ControllerExit, CallersTyped, ProcessTyped, haproxyVars
<1>7. CASE \/ MasterForks \/ WorkerReady \/ WorkerFails
           \/ \E i \in Children : Watch(i) \/ MasterExits(i)
  <2>1. ProcessTyped'
    BY <1>1, <1>7, HAProxyTyped
  <2>2. CallersTyped'
    BY <1>1, <1>7 DEF MasterForks, WorkerReady, WorkerFails, Watch, MasterExits, goVars,
                      CallersTyped
  <2> QED
    BY <2>1, <2>2
<1>8. CASE UNCHANGED vars
  BY <1>1, <1>8 DEF vars, goVars, haproxyVars, CallersTyped, ProcessTyped
<1> QED
  BY <1>2, <1>3, <1>4, <1>5, <1>6, <1>7, <1>8 DEF Next

\* Every reachable state is well typed: the polling loop, the worker and child
\* numbers and the history values stay within their bounds.
THEOREM TypeCorrect == Spec => []TypeOK
<1>1. Init => TypeOK
  <2>1. NoMaster \in MasterType
    BY BoundsAssumption, SMT DEF NoMaster, MasterType
  <2>2. ASSUME Init PROVE req \in [Callers -> Requests]
    <3>1. \A p \in {"boot", "idle"} : Fresh(p, "none") \in Requests
      BY FreshTyped DEF Points, Verdicts
    <3> QED
      BY <2>2, <3>1 DEF Init
  <2>3. ASSUME Init PROVE ProcessTyped /\ reloadMu \in Callers \cup {NoOne}
    BY <2>1, <2>3, BoundsAssumption, SMT DEF Init, ProcessTyped, ChildStates
  <2>4. ASSUME Init PROVE sock \in BOOLEAN /\ exited \in BOOLEAN
    BY <2>4 DEF Init
  <2> QED
    BY <2>2, <2>3, <2>4, Zenon DEF TypeOK, ProcessTyped, MasterType
<1>2. TypeOK /\ [Next]_vars => TypeOK'
  <2> SUFFICES ASSUME TypeOK, [Next]_vars PROVE TypeOK'
    OBVIOUS
  <2>1. CallersTyped' /\ ProcessTyped'
    BY NextTyped
  <2>2. sock' \in BOOLEAN /\ exited' \in BOOLEAN
    BY DEF TypeOK, Next, vars, goVars, CallerStep, Request, ReloadLock, ReloadCheck,
           ReloadBaseline, ReloadSignal, WaitHealthyStep, PollNotRunning, PollAsk,
           PollAnswered, PollUnanswered, PollJudged, PollNoSocket, StopBegin, StopExited, StopKill,
           StopGiveUp, RestartStart, BootStart, BeginShutdown, ControllerExit, Watch,
           MasterExits, MasterForks, WorkerReady, WorkerFails
  <2> QED
    BY <2>1, <2>2 DEF TypeOK, CallersTyped, ProcessTyped, MasterType
<1> QED
  BY <1>1, <1>2, PTL DEF Spec

(***************************************************************************)
(* NoStrayMaster.  It is not inductive by itself: a master may be started  *)
(* only because the last one was reaped, and main starts the first one     *)
(* without looking only because no request was served before it.           *)
(***************************************************************************)

\* Children are started in order, and all but the last are reaped.
ChildrenInOrder ==
  \A i \in Children :
    /\ i > cmd => child[i] = "none"
    /\ i < cmd => child[i] = "reaped"
    /\ i = cmd => child[i] # "none"

\* While main has not started HAProxy yet, no request has begun.
BootIsFirst == req[Main].pc = "boot" => cmd = 0 /\ \A h \in Handlers : req[h].pc = "idle"

IInv == TypeOK /\ ChildrenInOrder /\ BootIsFirst

\* startLocked, and main at boot, launch when no earlier child is left.
LEMMA LaunchInOrder ==
  ASSUME TypeOK, ChildrenInOrder, ~RunningLocked, Launch
  PROVE  ChildrenInOrder'
<1>1. cmd \in 0..MaxStarts /\ child \in [Children -> ChildStates] /\ MaxStarts \in Nat
  BY BoundsAssumption DEF TypeOK
<1>2. \A i \in Children : i \in Int
  BY <1>1, SMT DEF Children
<1>3. cmd # 0 => child[cmd] = "reaped"
  BY <1>1, SMT DEF ChildrenInOrder, RunningLocked, Children, ChildStates
<1>4. cmd' = cmd + 1 /\ child' = [child EXCEPT ![cmd + 1] = "up"] /\ cmd + 1 \in Children
  BY <1>1, SMT DEF Launch, Children
<1>5. ASSUME NEW i \in Children
      PROVE  /\ i > cmd' => child'[i] = "none"
             /\ i < cmd' => child'[i] = "reaped"
             /\ i = cmd' => child'[i] # "none"
  <2>1. /\ i > cmd => child[i] = "none"
        /\ i < cmd => child[i] = "reaped"
    BY <1>5 DEF ChildrenInOrder
  <2>2. i = cmd => child[i] = "reaped"
    BY <1>1, <1>2, <1>3, SMT DEF Children
  <2>3. child'[i] = IF i = cmd + 1 THEN "up" ELSE child[i]
    BY <1>1, <1>4
  <2> QED
    BY <1>1, <1>2, <1>4, <2>1, <2>2, <2>3, SMT
<1> QED
  BY <1>5, Zenon DEF ChildrenInOrder

\* The step of caller c leaves the other requests alone, and does not lead to "boot".
Moves(c) == req'[c].pc # "boot" /\ \A d \in Callers \ {c} : req'[d] = req[d]

LEMMA ReturnMoves ==
  ASSUME TypeOK, NEW c \in Callers, NEW v, Return(c, v)
  PROVE  Moves(c)
BY DEF TypeOK, Return, Fresh, Moves

LEMMA WaitHealthyMoves ==
  ASSUME TypeOK, NEW c \in Callers, NEW r \in Requests, NEW b, NEW e, WaitHealthy(c, r, b, e)
  PROVE  Moves(c)
<1>1. [r EXCEPT !.pc = "health", !.base = b, !.expectReload = e].pc = "health"
  BY Zenon DEF Requests
<1> QED
  BY <1>1 DEF TypeOK, WaitHealthy, Moves

LEMMA StartLockedMoves ==
  ASSUME TypeOK, NEW c \in Callers, StartLocked(c)
  PROVE  Moves(c)
<1>1. req[c] \in Requests
  BY DEF TypeOK
<1> QED
  BY <1>1, ReturnMoves, WaitHealthyMoves DEF StartLocked

\* A caller that sets its program counter to p, whatever else of its request it sets.
LEMMA SetMoves ==
  ASSUME TypeOK, NEW c \in Callers, NEW r, r.pc # "boot", req' = [req EXCEPT ![c] = r]
  PROVE  Moves(c)
BY DEF TypeOK, Moves

\* A caller at work is past "boot" and "idle", and never goes back to "boot".
LEMMA CallerMoves ==
  ASSUME TypeOK, NEW c \in Callers, CallerStep(c)
  PROVE  req[c].pc \notin {"boot", "idle"} /\ Moves(c)
<1>1. req[c].pc \notin {"boot", "idle"}
  BY DEF CallerStep, At, ReloadLock, ReloadCheck, ReloadBaseline, ReloadSignal, WaitHealthyStep,
         PollNotRunning, PollAsk, PollAnswered, PollUnanswered, PollJudged, PollNoSocket, StopBegin,
         StopExited, StopKill, StopGiveUp, RestartStart
<1>2. req[c] \in Requests /\ req \in [Callers -> Requests]
  BY DEF TypeOK
<1>3. ASSUME ReloadLock(c) PROVE Moves(c)
  <2>1. [req[c] EXCEPT !.pc = "check"].pc = "check"
    BY <1>2, Zenon DEF Requests
  <2> QED
    BY <1>3, <2>1, SetMoves DEF ReloadLock
<1>4. ASSUME ReloadCheck(c) PROVE Moves(c)
  <2>1. [req[c] EXCEPT !.pc = "baseline", !.pid = cmd].pc = "baseline"
    BY <1>2, Zenon DEF Requests
  <2>2. ASSUME RunningLocked
        PROVE  req' = [req EXCEPT ![c] = [req[c] EXCEPT !.pc = "baseline", !.pid = cmd]]
    BY <1>4, <2>2, Zenon DEF ReloadCheck
  <2>3. ASSUME ~RunningLocked PROVE StartLocked(c)
    BY <1>4, <2>3, Zenon DEF ReloadCheck
  <2> QED
    BY <2>1, <2>2, <2>3, SetMoves, StartLockedMoves
<1>5. ASSUME ReloadBaseline(c) PROVE Moves(c)
  <2>1. PICK answered \in BOOLEAN :
          req' = [req EXCEPT ![c].pc = "signal", ![c].clean = answered /\ ReloadsDecided,
                    ![c].base = IF answered
                                THEN [workers |-> master.workers, failed |-> master.failed]
                                ELSE NoProcState]
    BY <1>5 DEF ReloadBaseline
  <2> DEFINE b == IF answered THEN [workers |-> master.workers, failed |-> master.failed]
                  ELSE NoProcState
             k == answered /\ ReloadsDecided
  <2>2. req' = [req EXCEPT ![c] = [req[c] EXCEPT !.pc = "signal", !.clean = k, !.base = b]]
    BY <2>1, Zenon
  <2> HIDE DEF b, k
  <2>3. [req[c] EXCEPT !.pc = "signal", !.clean = k, !.base = b].pc = "signal"
    BY <1>2, Zenon DEF Requests
  <2> QED
    BY <2>2, <2>3, SetMoves
<1>6. ASSUME ReloadSignal(c) PROVE Moves(c)
  <2>1. forks \in 0..(MaxStarts + MaxForks)
    BY BoundsAssumption, SMT DEF TypeOK
  <2>2. [req[c] EXCEPT !.since = forks] \in Requests
    BY <1>2, <2>1, Zenon DEF Requests
  <2> QED
    BY <1>6, <2>2, ReturnMoves, WaitHealthyMoves DEF ReloadSignal
<1>7. ASSUME WaitHealthyStep(c) PROVE Moves(c)
  <2>1. ASSUME NEW f, NEW t, NextTurn(c, f, t) PROVE Moves(c)
    <3> DEFINE n == req[c].polls + 1
               r == [req[c] EXCEPT !.pc = "health", !.polls = n, !.fresh = f, !.settled = t,
                                   !.seen = NoProcState, !.by = 0]
    <3>1. Return(c, "failed") \/ req' = [req EXCEPT ![c] = r]
      BY <2>1, Zenon DEF NextTurn
    <3>2. r.pc = "health"
      BY <1>2, Zenon DEF Requests
    <3> HIDE DEF r
    <3> QED
      BY <3>1, <3>2, SetMoves, ReturnMoves
  <2>2. ASSUME PollAsk(c) PROVE Moves(c)
    <3>1. [req[c] EXCEPT !.pc = "asked"].pc = "asked"
      BY <1>2, Zenon DEF Requests
    <3> QED
      BY <2>2, <3>1, SetMoves DEF PollAsk
  <2>3. ASSUME PollAnswered(c) PROVE Moves(c)
    <3> DEFINE p == [workers |-> master.workers, failed |-> master.failed]
    <3>1. req' = [req EXCEPT ![c] = [req[c] EXCEPT !.pc = "judge", !.by = cmd, !.seen = p]]
      BY <2>3, Zenon DEF PollAnswered
    <3> HIDE DEF p
    <3>2. [req[c] EXCEPT !.pc = "judge", !.by = cmd, !.seen = p].pc = "judge"
      BY <1>2, Zenon DEF Requests
    <3> QED
      BY <3>1, <3>2, SetMoves
  <2>4. ASSUME PollJudged(c) PROVE Moves(c)
    <3>1. PICK f, t : \/ Return(c, "refused") \/ Return(c, "failed") \/ Return(c, "ok")
                      \/ NextTurn(c, f, t)
      BY <2>4, Zenon DEF PollJudged
    <3> QED
      BY <2>1, <3>1, ReturnMoves
  <2>5. ASSUME PollNotRunning(c) \/ PollNoSocket(c) PROVE Moves(c)
    BY <2>5, ReturnMoves DEF PollNotRunning, PollNoSocket
  <2>6. ASSUME PollUnanswered(c) PROVE Moves(c)
    BY <2>1, <2>6 DEF PollUnanswered
  <2> QED
    BY <1>7, <2>2, <2>3, <2>4, <2>5, <2>6 DEF WaitHealthyStep
<1>8. ASSUME StopBegin(c) PROVE Moves(c)
  <2>1. /\ [req[c] EXCEPT !.pc = "grace", !.pid = cmd, !.since = cmd].pc = "grace"
        /\ [req[c] EXCEPT !.pc = "start", !.since = cmd].pc = "start"
    BY <1>2, Zenon DEF Requests
  <2>2. \/ req' = [req EXCEPT ![c] = [req[c] EXCEPT !.pc = "grace", !.pid = cmd, !.since = cmd]]
        \/ req' = [req EXCEPT ![c] = [req[c] EXCEPT !.pc = "start", !.since = cmd]]
        \/ Return(c, "ok")
    BY <1>8, Zenon DEF StopBegin
  <2> QED
    BY <2>1, <2>2, SetMoves, ReturnMoves
<1>9. ASSUME StopExited(c) PROVE Moves(c)
  <2>1. [req[c] EXCEPT !.pc = "start"].pc = "start"
    BY <1>2, Zenon DEF Requests
  <2>2. req' = [req EXCEPT ![c] = [req[c] EXCEPT !.pc = "start"]] \/ Return(c, "ok")
    BY <1>9, Zenon DEF StopExited, Stopped
  <2> QED
    BY <2>1, <2>2, SetMoves, ReturnMoves
<1>10. ASSUME StopKill(c) PROVE Moves(c)
  <2>1. [req[c] EXCEPT !.pc = "kill"].pc = "kill"
    BY <1>2, Zenon DEF Requests
  <2> QED
    BY <1>10, <2>1, SetMoves DEF StopKill
<1>11. ASSUME StopGiveUp(c) \/ RestartStart(c) PROVE Moves(c)
  BY <1>11, ReturnMoves, StartLockedMoves DEF StopGiveUp, RestartStart
<1> QED
  BY <1>1, <1>3, <1>4, <1>5, <1>6, <1>7, <1>8, <1>9, <1>10, <1>11 DEF CallerStep

\* A child that ends, or is reaped, was the last one started.
LEMMA EndingInOrder ==
  ASSUME TypeOK, ChildrenInOrder, NEW i \in Children, child[i] \in {"up", "zombie"},
         NEW v \in {"zombie", "reaped"}, child' = [child EXCEPT ![i] = v], UNCHANGED cmd
  PROVE  ChildrenInOrder'
<1>1. cmd \in Int /\ i \in Int /\ child \in [Children -> ChildStates]
  BY BoundsAssumption, SMT DEF TypeOK, Children
<1>2. i = cmd
  BY <1>1, SMT DEF ChildrenInOrder
<1>3. ASSUME NEW j \in Children
      PROVE  /\ j > cmd' => child'[j] = "none"
             /\ j < cmd' => child'[j] = "reaped"
             /\ j = cmd' => child'[j] # "none"
  <2>1. j \in Int
    BY BoundsAssumption, SMT DEF Children
  <2> QED
    BY <1>1, <1>2, <2>1, SMT DEF ChildrenInOrder
<1> QED
  BY <1>3, Zenon DEF ChildrenInOrder

\* Every step of a caller keeps the children in order: only startLocked starts one,
\* and stop only kills the one it was called for if that is still alive.
LEMMA CallerInOrder ==
  ASSUME TypeOK, ChildrenInOrder, NEW c \in Callers, CallerStep(c)
  PROVE  ChildrenInOrder'
<1>1. ASSUME UNCHANGED <<cmd, child>> PROVE ChildrenInOrder'
  BY <1>1 DEF ChildrenInOrder
<1>2. ASSUME StartLocked(c) PROVE ChildrenInOrder'
  BY <1>1, <1>2, LaunchInOrder DEF StartLocked, NoLaunch
<1>3. CASE StopKill(c)
  <2>1. CASE child[req[c].pid] = "up" /\ req[c].pid \in Children
    BY <1>3, <2>1, EndingInOrder DEF StopKill
  <2>2. CASE req[c].pid \notin Children
    <3>1. child \in [Children -> ChildStates]
      BY DEF TypeOK
    <3>2. child' = child
      BY <1>3, <2>2, <3>1 DEF StopKill
    <3> QED
      BY <1>1, <1>3, <3>2 DEF StopKill
  <2>3. CASE child[req[c].pid] # "up"
    BY <1>1, <1>3, <2>3 DEF StopKill
  <2> QED
    BY <2>1, <2>2, <2>3
<1>4. CASE ReloadCheck(c)
  BY <1>1, <1>2, <1>4 DEF ReloadCheck, NoLaunch
<1>5. CASE RestartStart(c)
  BY <1>2, <1>5 DEF RestartStart
<1>6. CASE \/ ReloadLock(c) \/ ReloadBaseline(c) \/ ReloadSignal(c) \/ WaitHealthyStep(c)
           \/ StopBegin(c) \/ StopExited(c) \/ StopGiveUp(c)
  BY <1>1, <1>6 DEF ReloadLock, ReloadBaseline, ReloadSignal, WaitHealthyStep, PollNotRunning,
                    PollAsk, PollAnswered, PollUnanswered, PollJudged, PollNoSocket, StopBegin,
                    StopExited, StopGiveUp
<1> QED
  BY <1>3, <1>4, <1>5, <1>6 DEF CallerStep

LEMMA NextInOrder ==
  ASSUME IInv, [Next]_vars
  PROVE  ChildrenInOrder'
<1> USE DEF IInv
<1>1. ASSUME UNCHANGED <<cmd, child>> PROVE ChildrenInOrder'
  BY <1>1 DEF ChildrenInOrder
<1>2. ASSUME NEW c \in Callers, CallerStep(c) PROVE ChildrenInOrder'
  BY <1>2, CallerInOrder
<1>3. ASSUME NEW c \in Callers, NEW o \in {"reload", "restart"}, Request(c, o)
      PROVE  ChildrenInOrder'
  BY <1>1, <1>3 DEF Request
<1>4. CASE BootStart
  <2>1. ~RunningLocked
    BY <1>4 DEF BootStart, At, BootIsFirst, RunningLocked
  <2> QED
    BY <1>1, <1>4, <2>1, LaunchInOrder DEF BootStart, NoLaunch
<1>5. ASSUME NEW i \in Children, Watch(i) \/ MasterExits(i) PROVE ChildrenInOrder'
  BY <1>5, EndingInOrder DEF Watch, MasterExits
<1>6. CASE BeginShutdown \/ ControllerExit \/ MasterForks \/ WorkerReady \/ WorkerFails
           \/ UNCHANGED vars
  BY <1>1, <1>6 DEF BeginShutdown, ControllerExit, MasterForks, WorkerReady, WorkerFails,
                    goVars, vars
<1> QED
  BY <1>2, <1>3, <1>4, <1>5, <1>6 DEF Next

\* While main is at "boot" the only steps are its own first one, and those of a
\* HAProxy that is not there.
LEMMA NextBoot ==
  ASSUME IInv, [Next]_vars
  PROVE  BootIsFirst'
<1> SUFFICES ASSUME req'[Main].pc = "boot"
             PROVE  cmd' = 0 /\ \A h \in Handlers : req'[h].pc = "idle"
  BY DEF BootIsFirst
<1>1. /\ TypeOK /\ Main \in Callers /\ Handlers \subseteq Callers
      /\ req \in [Callers -> Requests] /\ req[Main] \in Requests
  BY DEF IInv, TypeOK, Callers
<1>2. ASSUME req'[Main] = req[Main] PROVE cmd = 0 /\ \A h \in Handlers : req[h].pc = "idle"
  BY <1>2 DEF IInv, BootIsFirst
<1>3. ASSUME NEW c \in Callers, CallerStep(c) PROVE FALSE
  <2>1. req[c].pc \notin {"boot", "idle"} /\ Moves(c)
    BY <1>1, <1>3, CallerMoves
  <2>2. c # Main
    BY <2>1 DEF Moves
  <2>3. c \in Handlers /\ req'[Main] = req[Main]
    BY <1>1, <2>1, <2>2 DEF Moves, Callers
  <2> QED
    BY <1>2, <2>1, <2>3
<1>4. ASSUME NEW c \in Callers, NEW o \in {"reload", "restart"}, Request(c, o) PROVE FALSE
  <2>1. c # Main /\ req[Main].pc = "idle"
    BY <1>4, CallersAssumption DEF Request
  <2>2. req'[Main] = req[Main]
    BY <1>1, <1>4, <2>1 DEF Request
  <2> QED
    BY <2>1, <2>2
<1>5. ASSUME BootStart \/ BeginShutdown PROVE FALSE
  <2>1. /\ [req[Main] EXCEPT !.pc = "idle"].pc = "idle"
        /\ [req[Main] EXCEPT !.op = "shutdown", !.pc = "stop"].pc = "stop"
    BY <1>1, Zenon DEF Requests
  <2>2. \/ req' = [req EXCEPT ![Main] = [req[Main] EXCEPT !.pc = "idle"]]
        \/ req' = [req EXCEPT ![Main] = [req[Main] EXCEPT !.op = "shutdown", !.pc = "stop"]]
    BY <1>5, Zenon DEF BootStart, BeginShutdown
  <2> QED
    BY <1>1, <2>1, <2>2, SetMoves DEF Moves
<1>6. CASE \/ MasterForks \/ WorkerReady \/ WorkerFails \/ UNCHANGED vars
           \/ \E i \in Children : Watch(i) \/ MasterExits(i)
  <2>1. UNCHANGED <<req, cmd>>
    BY <1>6 DEF MasterForks, WorkerReady, WorkerFails, Watch, MasterExits, vars, goVars
  <2> QED
    BY <1>2, <2>1
<1>7. CASE ControllerExit
  BY <1>1, <1>7 DEF ControllerExit, Fresh
<1> QED
  BY <1>3, <1>4, <1>5, <1>6, <1>7 DEF Next

\* The inductive invariant holds in every reachable state.
THEOREM InductiveInvariant == Spec => []IInv
<1>1. Init => ChildrenInOrder /\ BootIsFirst
  <2> SUFFICES ASSUME Init PROVE ChildrenInOrder /\ BootIsFirst
    OBVIOUS
  <2>1. ChildrenInOrder
    BY BoundsAssumption, SMT DEF Init, ChildrenInOrder, Children
  <2>2. BootIsFirst
    BY CallersAssumption DEF Init, BootIsFirst, Fresh, Callers
  <2> QED
    BY <2>1, <2>2
<1>2. TypeOK /\ TypeOK' /\ ChildrenInOrder /\ BootIsFirst /\ [Next]_vars
        => (ChildrenInOrder /\ BootIsFirst)'
  BY NextInOrder, NextBoot DEF IInv
<1> QED
  BY <1>1, <1>2, TypeCorrect, PTL DEF Spec, IInv

\* A HAProxy that is alive or not yet reaped is always the one the supervisor
\* points to: reloads, restarts, crashes and watchers never leave a second one
\* behind, for any number of requests.
THEOREM NeverStrays == Spec => []NoStrayMaster
<1>1. IInv => NoStrayMaster
  <2> SUFFICES ASSUME IInv, NEW i \in Children, child[i] \in {"up", "zombie"} PROVE i = cmd
    BY DEF NoStrayMaster
  <2>1. cmd \in Int /\ i \in Int
    BY BoundsAssumption, SMT DEF IInv, TypeOK, Children
  <2> QED
    BY <2>1, SMT DEF IInv, ChildrenInOrder
<1> QED
  BY <1>1, InductiveInvariant, PTL

(***************************************************************************)
(* The verdicts.  SuccessIsServed, RefusalIsReal and RestartReplaces judge *)
(* an answer by what happened since a request took its baseline, or stopped*)
(* the old master.  The invariant says what each request may conclude from *)
(* what it remembers, whatever the world has done meanwhile.               *)
(***************************************************************************)

\* Every worker the master was asked to fork has started or failed.
Decided == master.reloaded => master.starting = {}

\* In the loop of waitHealthy.
HealthPoints == {"health", "asked", "judge"}

\* A restart that is about to start HAProxy has seen the old master reaped, or a
\* later one started; one that waits for health has a later one.
RestartTraced(r) ==
  r.op = "restart" =>
    /\ r.pc \in {"stop", "grace", "kill", "start"} \cup HealthPoints
    /\ r.pc \in {"grace", "kill"} => r.pid = r.since /\ r.since <= cmd
    /\ r.pc = "start" => r.since < cmd \/ (r.since = cmd /\ ~RunningLocked)
    /\ r.pc \in HealthPoints => r.since < cmd

\* Between the baseline and the signal, while the master is the one that was asked.
Quiet(r) ==
  /\ master.workers \subseteq r.base.workers /\ master.failed <= r.base.failed
  /\ ~master.usr2 /\ Decided

\* A worker the baseline does not have was forked since the signal, and is the last.
Known(r, w) ==
  \/ w \in r.base.workers
  \/ w > r.since /\ forks > r.since /\ (master.starting = {} \/ w \in master.starting)

\* After the signal: nobody signals again, and a worker or a failure the baseline
\* does not count came after the signal.
Watching(r) ==
  /\ r.since <= forks
  /\ master.usr2 => forks = r.since
  /\ \A w \in master.workers : Known(r, w)
  /\ \A w \in r.fresh : w > r.since /\ w \notin r.base.workers
  /\ master.failed > r.base.failed => lastFailed > r.since
  /\ forks > r.since \/ Decided

\* A worker of the new configuration is listed and past its start-up.
Serving(r) == \E w \in master.workers : w \notin r.base.workers /\ w \notin master.starting

\* With an answer in hand: what it says happened after the signal, and a worker it
\* makes the caller trust is there as long as the master that answered is.
Heard(r) ==
  /\ r.by \in 1..cmd
  /\ \A w \in r.seen.workers : w \in r.base.workers \/ w > r.since
  /\ r.seen.failed > r.base.failed => lastFailed > r.since
  /\ Settled(r, r.seen.workers) /\ ~Vanished(r) => AnswererGone(r) \/ Serving(r)

ReloadTraced(c, r) ==
  /\ r.pid <= cmd
  /\ r.pc \in {"baseline", "signal", "grace", "kill"} => r.pid # 0
  /\ r.pc \in {"check", "baseline", "signal"} \/ r.expectReload => reloadMu = c
  /\ r.clean => sock
  /\ r.pc \notin HealthPoints => r.fresh = {} /\ ~r.expectReload
  /\ r.pc = "signal" /\ r.clean /\ r.pid = cmd => Quiet(r)
  /\ r.pc \in HealthPoints /\ r.expectReload /\ r.clean => Watching(r)
  /\ r.pc = "judge" /\ r.expectReload /\ r.clean => Heard(r)

Traced(c) == RestartTraced(req[c]) /\ ReloadTraced(c, req[c])

(***************************************************************************)
(* What one step may do to HAProxy, whoever takes it.                      *)
(***************************************************************************)

Drifts ==
  /\ cmd <= cmd' /\ forks <= forks' /\ sock' = sock
  /\ cmd' = cmd /\ ~RunningLocked => ~RunningLocked'
  /\ \A w \in master'.workers :
       \/ w \in master.workers /\ (master.usr2 \/ master'.starting \in {{}, master.starting})
       \/ w > forks /\ forks' > forks /\ w \in master'.starting
  /\ forks' > forks => ~master'.usr2
  /\ master'.failed > master.failed => lastFailed' = forks /\ ~Decided
  /\ lastFailed' = lastFailed \/ (lastFailed' = forks /\ ~Decided)
  /\ Decided /\ forks' = forks => Decided'
  /\ cmd' = cmd /\ ~master.usr2 => master'.workers \subseteq master.workers
  /\ \A i \in 1..cmd : child[i] # "up" => child'[i] # "up"
  /\ \/ master.usr2 \/ master.starting # {}
     \/ master'.workers = master.workers /\ master'.starting = {}
     \/ \A i \in 1..cmd : child'[i] # "up"
  /\ cmd' = cmd /\ ~master.usr2 /\ Decided => Decided' /\ master'.failed <= master.failed

\* The numbers that are compared.
LEMMA Numbers ==
  ASSUME TypeOK
  PROVE  /\ cmd \in Nat /\ forks \in Nat /\ lastFailed \in Nat /\ master.failed \in Nat
         /\ \A w \in master.workers : w \in Nat
         /\ master \in MasterType
<1>1. master \in MasterType
  BY DEF TypeOK, MasterType
<1>2. cmd \in 0..MaxStarts /\ forks \in 0..MaxForks /\ lastFailed \in 0..MaxForks
  BY DEF TypeOK
<1>3. master.failed \in 0..MaxForks /\ master.workers \in SUBSET Workers
  BY <1>1 DEF MasterType
<1>4. MaxStarts \in Nat /\ MaxForks \in Nat
  BY BoundsAssumption
<1> QED
  BY <1>1, <1>2, <1>3, <1>4 DEF Workers

LEMMA RequestNumbers ==
  ASSUME TypeOK, NEW c \in Callers
  PROVE  /\ req[c] \in Requests /\ req[c].pid \in Nat /\ req[c].since \in Nat
         /\ req[c].base.failed \in Nat /\ req[c].seen.failed \in Nat /\ req[c].by \in Nat
         /\ \A w \in req[c].fresh : w \in Nat
         /\ \A w \in req[c].seen.workers : w \in Nat
<1>1. req[c] \in Requests
  BY DEF TypeOK
<1>2. /\ req[c].pid \in 0..MaxStarts /\ req[c].since \in 0..(MaxStarts + MaxForks)
      /\ req[c].base \in ProcState /\ req[c].seen \in ProcState /\ req[c].by \in 0..MaxStarts
      /\ req[c].fresh \in SUBSET Workers
  BY <1>1 DEF Requests
<1>3. /\ req[c].base.failed \in 0..MaxForks /\ req[c].seen.failed \in 0..MaxForks
      /\ req[c].seen.workers \in SUBSET Workers
  BY <1>2 DEF ProcState
<1>4. MaxStarts \in Nat /\ MaxForks \in Nat
  BY BoundsAssumption
<1> QED
  BY <1>1, <1>2, <1>3, <1>4 DEF Workers

LEMMA StillDrifts ==
  ASSUME TypeOK, UNCHANGED <<cmd, child, sock, forks, lastFailed>>,
         master'.workers = master.workers, master'.starting = master.starting,
         master'.failed = master.failed, master'.reloaded = master.reloaded
  PROVE  Drifts
<1>1. ~RunningLocked => ~RunningLocked'
  BY DEF RunningLocked
<1>2. Decided' = Decided
  BY DEF Decided
<1>3. \A i \in 1..cmd : child[i] # "up" => child'[i] # "up"
  OBVIOUS
<1>4. cmd <= cmd' /\ forks <= forks' /\ ~(forks' > forks) /\ ~(master'.failed > master.failed)
      /\ master'.failed <= master.failed
  BY Numbers
<1> QED
  BY <1>1, <1>2, <1>3, <1>4, Zenon DEF Drifts

\* The child the supervisor points to ends, or is reaped; a master that ends lists
\* nothing any more.
LEMMA EndingDrifts ==
  ASSUME IInv, NEW i \in Children, NEW v \in {"zombie", "reaped"},
         v = "reaped" => child[i] = "zombie",
         child[i] \in {"up", "zombie"}, child' = [child EXCEPT ![i] = v],
         UNCHANGED <<cmd, sock, forks, lastFailed>>, master' \in {master, NoMaster}
  PROVE  Drifts
<1>0. TypeOK /\ cmd \in Nat /\ i \in Int /\ child \in [Children -> ChildStates]
      /\ cmd \in 0..MaxStarts
  BY Numbers, BoundsAssumption DEF IInv, TypeOK, Children
<1>1. ~RunningLocked => ~RunningLocked'
  <2> SUFFICES ASSUME ~RunningLocked, RunningLocked' PROVE FALSE
    OBVIOUS
  <2>1. cmd # 0 /\ child[cmd] \notin {"up", "zombie"} /\ child'[cmd] \in {"up", "zombie"}
    BY DEF RunningLocked
  <2>2. cmd # i
    BY <2>1
  <2>3. child'[cmd] = child[cmd]
    BY <1>0, <2>2
  <2> QED
    BY <2>1, <2>3
<1>2. /\ master'.workers \subseteq master.workers /\ master'.failed <= master.failed
      /\ ~(master'.failed > master.failed) /\ (Decided => Decided')
  BY <1>0, Numbers DEF NoMaster, Decided
<1>3. /\ cmd <= cmd' /\ forks <= forks' /\ sock' = sock /\ lastFailed' = lastFailed
      /\ ~(forks' > forks)
      /\ \A w \in master'.workers : w \in master.workers
  BY <1>0, <1>2, Numbers
<1>4. master'.starting \in {{}, master.starting}
  BY DEF NoMaster
<1>5. \A j \in 1..cmd : child'[j] # "up"
  <2> SUFFICES ASSUME NEW j \in 1..cmd PROVE child'[j] # "up"
    OBVIOUS
  <2>1. j \in Children /\ j \in Int
    BY <1>0, BoundsAssumption, SMT DEF Children
  <2>2. i = cmd
    BY <1>0, SMT DEF IInv, ChildrenInOrder
  <2>3. CASE j = cmd
    BY <1>0, <2>2, <2>3
  <2>4. CASE j < cmd
    BY <1>0, <2>1, <2>2, <2>4 DEF IInv, ChildrenInOrder
  <2> QED
    BY <1>0, <2>1, <2>3, <2>4
<1> QED
  BY <1>1, <1>2, <1>3, <1>4, <1>5, Zenon DEF Drifts

LEMMA LaunchDrifts ==
  ASSUME IInv, ~RunningLocked, Launch, UNCHANGED sock
  PROVE  Drifts
<1>0. TypeOK /\ cmd \in 0..MaxStarts /\ child \in [Children -> ChildStates]
  BY DEF IInv, TypeOK
<1>1. cmd' = cmd + 1 /\ forks' = forks + 1 /\ lastFailed' = lastFailed
  BY DEF Launch
<1>2. /\ master'.workers = {forks + 1} /\ master'.failed = 0 /\ ~master'.usr2
      /\ master'.starting = {forks + 1}
  BY DEF Launch, NewMaster
<1>3. /\ cmd <= cmd' /\ cmd' # cmd /\ forks <= forks' /\ forks' > forks /\ forks' # forks
      /\ ~(master'.failed > master.failed) /\ forks + 1 > forks
  BY <1>0, <1>1, <1>2, Numbers
<1>4. ASSUME NEW j \in 1..cmd PROVE child'[j] # "up"
  <2>1. j \in Children /\ j \in Int /\ j # cmd + 1 /\ cmd \in Nat
    BY <1>0, BoundsAssumption, SMT DEF Children
  <2>2. child'[j] = child[j]
    BY <1>0, <2>1 DEF Launch
  <2>3. CASE j = cmd
    BY <2>1, <2>2, <2>3 DEF RunningLocked
  <2>4. CASE j < cmd
    BY <2>1, <2>2, <2>4 DEF IInv, ChildrenInOrder
  <2> QED
    BY <1>0, <2>1, <2>3, <2>4
<1>5. \A w \in master'.workers : w > forks /\ w \in master'.starting
  BY <1>2, <1>3, Zenon
<1> QED
  BY <1>1, <1>2, <1>3, <1>4, <1>5, Zenon DEF Drifts

\* HAProxy handles a signal, and learns how the start of a worker went.
LEMMA MasterDrifts ==
  ASSUME TypeOK, MasterForks \/ WorkerReady \/ WorkerFails
  PROVE  Drifts
<1>1. UNCHANGED <<cmd, child, sock>>
  BY DEF MasterForks, WorkerReady, WorkerFails, goVars
<1>2. /\ ~RunningLocked => ~RunningLocked'
      /\ \A i \in 1..cmd : child[i] # "up" => child'[i] # "up"
  BY <1>1 DEF RunningLocked
<1>3. master \in MasterType
  BY Numbers
<1>4. CASE MasterForks
  <2>1. PICK kept \in {{}, master.workers} :
          master' = [master EXCEPT !.usr2 = FALSE, !.reloaded = TRUE,
                                   !.workers = kept \cup {forks + 1}, !.starting = {forks + 1}]
    BY <1>4 DEF MasterForks
  <2>2. master'.workers = kept \cup {forks + 1} /\ master'.failed = master.failed
        /\ ~master'.usr2 /\ master'.starting = {forks + 1}
    BY <1>3, <2>1 DEF MasterType
  <2>3. master.usr2 /\ forks' = forks + 1 /\ lastFailed' = lastFailed
    BY <1>4 DEF MasterForks
  <2>4. \A w \in master'.workers :
          \/ w \in master.workers
          \/ w > forks /\ forks' > forks /\ w \in master'.starting
    BY <2>2, <2>3, Numbers
  <2>5. cmd <= cmd' /\ forks <= forks' /\ forks' # forks /\ ~(master'.failed > master.failed)
    BY <1>1, <2>2, <2>3, Numbers
  <2> QED
    BY <1>1, <1>2, <2>2, <2>3, <2>4, <2>5, Zenon DEF Drifts
<1>5. CASE WorkerReady \/ WorkerFails
  <2>1. /\ master'.workers \subseteq master.workers /\ master'.starting = {}
        /\ master.starting # {} /\ forks' = forks
    BY <1>3, <1>5 DEF WorkerReady, WorkerFails, MasterType
  <2>2. /\ master'.failed > master.failed => lastFailed' = forks /\ ~Decided
        /\ lastFailed' = lastFailed \/ (lastFailed' = forks /\ ~Decided)
        /\ Decided => master'.failed <= master.failed
    <3>1. CASE WorkerReady
      <4>1. master'.failed = master.failed /\ lastFailed' = lastFailed
        BY <1>3, <3>1 DEF WorkerReady, MasterType
      <4> QED
        BY <4>1, Numbers
    <3>2. CASE WorkerFails
      BY <3>2 DEF WorkerFails, Decided
    <3> QED
      BY <1>5, <3>1, <3>2
  <2>3. Decided'
    BY <2>1 DEF Decided
  <2>4. cmd <= cmd' /\ forks <= forks' /\ ~(forks' > forks)
    BY <1>1, <2>1, Numbers
  <2> QED
    BY <1>1, <1>2, <2>1, <2>2, <2>3, <2>4, Zenon DEF Drifts
<1> QED
  BY <1>4, <1>5

\* A request that does not move keeps its trace while HAProxy drifts, if nobody
\* signals the master while it holds the reload mutex.
LEMMA DriftKeepsTrace ==
  ASSUME TypeOK, TypeOK', NEW c \in Callers, Traced(c), Drifts, req'[c] = req[c],
         reloadMu = c => reloadMu' = c /\ (master'.usr2 => master.usr2)
  PROVE  Traced(c)'
<1> DEFINE r == req[c]
<1>1. /\ r.pid \in Nat /\ r.since \in Nat /\ r.base.failed \in Nat
      /\ cmd \in Nat /\ cmd' \in Nat /\ forks \in Nat /\ forks' \in Nat /\ lastFailed \in Nat
      /\ lastFailed' \in Nat /\ master.failed \in Nat /\ master'.failed \in Nat
  <2>1. cmd' \in Nat /\ forks' \in Nat /\ lastFailed' \in Nat /\ master'.failed \in Nat
    <3>1. cmd' \in 0..MaxStarts /\ forks' \in 0..MaxForks /\ lastFailed' \in 0..MaxForks
          /\ master' \in MasterType
      BY DEF TypeOK, MasterType
    <3>2. master'.failed \in 0..MaxForks
      BY <3>1 DEF MasterType
    <3> QED
      BY <3>1, <3>2, BoundsAssumption
  <2> QED
    BY <2>1, Numbers, RequestNumbers
<1>2. req'[c] = r /\ RestartTraced(r) /\ ReloadTraced(c, r)
  BY DEF Traced
<1>3. \A w \in master'.workers : w \in Nat
  <2>1. master' \in MasterType
    BY DEF TypeOK, MasterType
  <2> QED
    BY <2>1, BoundsAssumption DEF MasterType, Workers
<1>4. RestartTraced(req[c])'
  <2>1. /\ r.since <= cmd => r.since <= cmd'
        /\ r.since < cmd => r.since < cmd'
        /\ r.since = cmd /\ ~RunningLocked => r.since < cmd' \/ (r.since = cmd' /\ ~RunningLocked')
    BY <1>1 DEF Drifts
  <2> QED
    BY <1>2, <2>1 DEF RestartTraced
<1>5. ASSUME r.pc = "signal", r.clean, r.pid = cmd' PROVE Quiet(req[c])'
  <2>1. r.pid = cmd /\ cmd' = cmd
    BY <1>1, <1>2, <1>5 DEF ReloadTraced, Drifts
  <2>2. Quiet(r) /\ ~master'.usr2
    BY <1>2, <1>5, <2>1 DEF ReloadTraced, Quiet
  <2>3. master'.workers \subseteq master.workers /\ Decided' /\ master'.failed <= master.failed
    BY <2>1, <2>2 DEF Quiet, Drifts
  <2> QED
    BY <1>1, <1>2, <2>2, <2>3 DEF Quiet
<1>6. ASSUME r.pc \in HealthPoints, r.expectReload, r.clean PROVE Watching(req[c])'
  <2>1. Watching(r) /\ (master'.usr2 => master.usr2)
    BY <1>2, <1>6 DEF ReloadTraced
  <2>2. r.since <= forks' /\ \A w \in r.fresh : w > r.since /\ w \notin r.base.workers
    BY <1>1, <2>1 DEF Watching, Drifts
  <2>3. ASSUME NEW w \in master'.workers
        PROVE  \/ w \in r.base.workers
               \/ /\ w > r.since /\ forks' > r.since
                  /\ master'.starting = {} \/ w \in master'.starting
    <3>1. w \in Nat
      BY <1>3
    <3>2. CASE w > forks /\ forks' > forks /\ w \in master'.starting
      <4>1. r.since <= forks
        BY <2>1 DEF Watching
      <4>2. w > r.since /\ forks' > r.since
        BY <1>1, <3>1, <3>2, <4>1
      <4> QED
        BY <3>2, <4>2
    <3>3. CASE /\ w \in master.workers
               /\ master.usr2 \/ master'.starting \in {{}, master.starting}
      <4>1. Known(r, w) /\ (master.usr2 => forks = r.since)
        BY <2>1, <3>3 DEF Watching
      <4>2. CASE w \notin r.base.workers
        <5>1. w > r.since /\ forks > r.since /\ (master.starting = {} \/ w \in master.starting)
          BY <4>1, <4>2 DEF Known
        <5>2. ~master.usr2 /\ forks' > r.since
          BY <1>1, <4>1, <5>1 DEF Drifts
        <5> QED
          BY <3>3, <5>1, <5>2
      <4> QED
        BY <4>2
    <3> QED
      BY <3>2, <3>3 DEF Drifts
  <2>4. master'.failed > r.base.failed => lastFailed' > r.since
    BY <1>1, <2>1 DEF Watching, Drifts
  <2>5. forks' > r.since \/ Decided'
    BY <1>1, <2>1 DEF Watching, Drifts
  <2>6. master'.usr2 => forks' = r.since
    BY <1>1, <2>1 DEF Watching, Drifts
  <2> QED
    BY <1>2, <2>2, <2>3, <2>4, <2>5, <2>6, Zenon DEF Watching, Known
<1>7. ASSUME r.pc = "judge", r.expectReload, r.clean PROVE Heard(req[c])'
  <2>1. Watching(r) /\ Heard(r)
    BY <1>2, <1>7 DEF ReloadTraced, HealthPoints
  <2>2. r.by \in 1..cmd'
    BY <1>1, <2>1 DEF Heard, Drifts
  <2>3. r.seen.failed > r.base.failed => lastFailed' > r.since
    BY <1>1, <2>1 DEF Heard, Watching, Drifts
  <2>4. ASSUME AnswererGone(r) PROVE AnswererGone(req[c])'
    BY <1>2, <2>1, <2>4 DEF AnswererGone, Heard, Drifts
  <2>5. ASSUME Serving(r) PROVE (AnswererGone(req[c]) \/ Serving(req[c]))'
    <3>1. PICK w \in master.workers : w \notin r.base.workers /\ w \notin master.starting
      BY <2>5 DEF Serving
    <3>2. master.starting = {} /\ forks > r.since /\ ~master.usr2
      BY <1>1, <2>1, <3>1 DEF Watching, Known
    <3>3. CASE master'.workers = master.workers /\ master'.starting = {}
      BY <1>2, <3>1, <3>3 DEF Serving
    <3>4. CASE \A i \in 1..cmd : child'[i] # "up"
      <4>1. r.by \in 1..cmd /\ r.by # 0
        BY <1>1, <2>1 DEF Heard
      <4> QED
        BY <1>2, <3>4, <4>1 DEF AnswererGone
    <3> QED
      BY <3>2, <3>3, <3>4 DEF Drifts
  <2>6. Settled(r, r.seen.workers) /\ ~Vanished(r) => (AnswererGone(req[c]) \/ Serving(req[c]))'
    BY <2>1, <2>4, <2>5 DEF Heard
  <2> QED
    BY <1>2, <2>1, <2>2, <2>3, <2>6, Zenon DEF Heard, Settled, Vanished, FreshNow, SettledAt
<1>8. r.pid <= cmd' /\ sock' = sock
  BY <1>1, <1>2 DEF ReloadTraced, Drifts
<1>9. ReloadTraced(c, req[c])'
  BY <1>2, <1>5, <1>6, <1>7, <1>8 DEF ReloadTraced
<1> QED
  BY <1>4, <1>9 DEF Traced

(***************************************************************************)
(* What a caller's own step makes of its trace, and what it may answer.    *)
(***************************************************************************)

\* What must be so for c to answer v.
Justified(c, v) ==
  /\ v = "ok" /\ req[c].expectReload /\ req[c].clean
       => \/ \E w \in master.workers : w > req[c].since /\ w \notin master.starting
          \/ AnswererGone(req[c])
  /\ v = "refused" /\ req[c].expectReload /\ req[c].clean => lastFailed > req[c].since
  /\ v = "ok" /\ req[c].op = "restart" => cmd > req[c].since

Told(c) == \A v \in {"ok", "refused"} : Verdict(c, v) => Justified(c, v)

LEMMA ReturnTold ==
  ASSUME TypeOK, TypeOK', NEW c \in Callers, NEW v, Return(c, v), Justified(c, v)
  PROVE  Traced(c)' /\ Told(c)
<1> DEFINE r == Fresh("done", v)
<1>1. req'[c] = r
  BY DEF TypeOK, Return
<1>2. /\ r.op = "none" /\ r.pc = "done" /\ r.pid = 0 /\ r.fresh = {} /\ ~r.clean
      /\ r.verdict = v /\ ~r.expectReload
  BY DEF Fresh
<1> HIDE DEF r
<1>3. 0 <= cmd'
  <2>1. cmd' \in 0..MaxStarts
    BY DEF TypeOK
  <2> QED
    BY <2>1, BoundsAssumption
<1>4. Traced(c)'
  BY <1>1, <1>2, <1>3 DEF Traced, RestartTraced, ReloadTraced, HealthPoints
<1>5. Told(c)
  BY <1>1, <1>2 DEF Told, Verdict
<1> QED
  BY <1>4, <1>5

\* A caller that does not answer.
LEMMA SilentTold ==
  ASSUME NEW c \in Callers, req'[c].verdict = req[c].verdict
  PROVE  Told(c)
BY DEF Told, Verdict

LEMMA BeginTraced ==
  ASSUME TypeOK, NEW c \in Callers, NEW o \in {"reload", "restart"}, Traced(c), Request(c, o)
  PROVE  Traced(c)' /\ Told(c)
<1> DEFINE p == IF o = "reload" THEN "lock" ELSE "stop"
           r == [req[c] EXCEPT !.op = o, !.pc = p]
<1>1. req[c] \in Requests /\ req[c].pc = "idle"
  BY RequestNumbers DEF Request, At
<1>2. p \in {"lock", "stop"} /\ (o = "restart" => p = "stop")
  OBVIOUS
<1>3. req' = [req EXCEPT ![c] = r] /\ UNCHANGED <<cmd, child, reloadMu, sock, haproxyVars>>
  BY Zenon DEF Request
<1>4. req'[c] = r
  BY <1>3 DEF TypeOK
<1> HIDE DEF p
<1>5. /\ r.op = o /\ r.pc = p /\ r.pid = req[c].pid /\ r.since = req[c].since
      /\ r.base = req[c].base /\ r.fresh = req[c].fresh /\ r.clean = req[c].clean
      /\ r.expectReload = req[c].expectReload /\ r.verdict = req[c].verdict
  BY <1>1, Zenon DEF Requests
<1> HIDE DEF r
<1>6. Traced(c)'
  BY <1>1, <1>2, <1>3, <1>4, <1>5 DEF Traced, RestartTraced, ReloadTraced, HealthPoints
<1> QED
  BY <1>4, <1>5, <1>6, SilentTold

\* Main keeps no notes: it starts HAProxy, and later shuts it down.
LEMMA MainTraced ==
  ASSUME TypeOK, TypeOK', Traced(Main), Drifts, BootStart \/ BeginShutdown
  PROVE  Traced(Main)' /\ Told(Main)
<1>1. Main \in Callers
  BY DEF Callers
<1>2. req[Main] \in Requests /\ req[Main].pc \in {"boot", "idle"}
  BY <1>1, RequestNumbers DEF BootStart, BeginShutdown, At
<1>3. req[Main].pid <= cmd' /\ sock' = sock
  <2>1. cmd' \in 0..MaxStarts
    BY DEF TypeOK
  <2>2. cmd' \in Nat
    BY <2>1, BoundsAssumption
  <2> QED
    BY <1>1, <2>2, RequestNumbers, Numbers DEF Traced, ReloadTraced, Drifts
<1>4. ASSUME NEW r, req' = [req EXCEPT ![Main] = r], r.op # "restart", r.pc \in {"idle", "stop"},
             r.pid = req[Main].pid, r.fresh = req[Main].fresh, r.clean = req[Main].clean,
             r.verdict = req[Main].verdict, r.expectReload = req[Main].expectReload
      PROVE  Traced(Main)' /\ Told(Main)
  <2>1. req'[Main] = r
    BY <1>1, <1>4 DEF TypeOK
  <2>2. Traced(Main)'
    BY <1>2, <1>3, <1>4, <2>1 DEF Traced, RestartTraced, ReloadTraced, HealthPoints
  <2> QED
    BY <1>1, <1>4, <2>1, <2>2, SilentTold
<1>5. CASE BootStart
  <2> DEFINE r == [req[Main] EXCEPT !.pc = "idle"]
  <2>1. req' = [req EXCEPT ![Main] = r]
    BY <1>5, Zenon DEF BootStart
  <2>2. /\ r.pc = "idle" /\ r.op = req[Main].op /\ r.pid = req[Main].pid
        /\ r.fresh = req[Main].fresh /\ r.clean = req[Main].clean
        /\ r.verdict = req[Main].verdict /\ r.expectReload = req[Main].expectReload
    BY <1>2, Zenon DEF Requests
  <2>3. req[Main].op # "restart"
    BY <1>2 DEF Traced, RestartTraced, HealthPoints
  <2> HIDE DEF r
  <2> QED
    BY <1>4, <2>1, <2>2, <2>3
<1>6. CASE BeginShutdown
  <2> DEFINE r == [req[Main] EXCEPT !.op = "shutdown", !.pc = "stop"]
  <2>1. req' = [req EXCEPT ![Main] = r]
    BY <1>6, Zenon DEF BeginShutdown
  <2>2. /\ r.pc = "stop" /\ r.op = "shutdown" /\ r.pid = req[Main].pid
        /\ r.fresh = req[Main].fresh /\ r.clean = req[Main].clean
        /\ r.verdict = req[Main].verdict /\ r.expectReload = req[Main].expectReload
    BY <1>2, Zenon DEF Requests
  <2> HIDE DEF r
  <2> QED
    BY <1>4, <2>1, <2>2
<1> QED
  BY <1>5, <1>6

\* Entering waitHealthy.
LEMMA HealthFields ==
  ASSUME TypeOK, NEW c \in Callers, NEW r \in Requests, NEW b, NEW e \in BOOLEAN, WaitHealthy(c, r, b, e)
  PROVE  /\ req'[c].pc = "health" /\ req'[c].base = b /\ req'[c].expectReload = e
         /\ req'[c].op = r.op /\ req'[c].pid = r.pid /\ req'[c].since = r.since
         /\ req'[c].fresh = r.fresh /\ req'[c].clean = r.clean /\ req'[c].verdict = r.verdict
<1>1. req'[c] = [r EXCEPT !.pc = "health", !.base = b, !.expectReload = e]
  BY DEF TypeOK, WaitHealthy
<1> QED
  BY <1>1, Zenon DEF Requests

\* A start expects no reload: whoever waits then waits for a master that is there, and
\* a restart for one later than the one it stopped.
LEMMA StartTraced ==
  ASSUME TypeOK, TypeOK', NEW c \in Callers, Traced(c), Drifts, StartLocked(c),
         req[c].op = "restart" => req[c].pc = "start"
  PROVE  Traced(c)' /\ Told(c)
<1>1. /\ req[c] \in Requests /\ req[c].since \in Nat /\ req[c].pid \in Nat /\ cmd \in Nat
      /\ RestartTraced(req[c]) /\ ReloadTraced(c, req[c])
  BY RequestNumbers, Numbers DEF Traced
<1>2. cmd' \in Nat /\ cmd <= cmd' /\ sock' = sock
  <2>1. cmd' \in 0..MaxStarts
    BY DEF TypeOK
  <2> QED
    BY <2>1, BoundsAssumption DEF Drifts
<1>3. CASE Return(c, "failed")
  BY <1>3, ReturnTold DEF Justified
<1>4. ASSUME WaitHealthy(c, req[c], NoProcState, FALSE),
             (RunningLocked /\ cmd' = cmd) \/ cmd' = cmd + 1
      PROVE  Traced(c)' /\ Told(c)
  <2>1. /\ req'[c].pc = "health" /\ req'[c].expectReload = FALSE
        /\ req'[c].op = req[c].op /\ req'[c].pid = req[c].pid /\ req'[c].since = req[c].since
        /\ req'[c].clean = req[c].clean /\ req'[c].verdict = req[c].verdict
    <3>1. FALSE \in BOOLEAN
      OBVIOUS
    <3>2. WaitHealthy(c, req[c], NoProcState, FALSE)
      BY <1>4
    <3> QED
      BY <1>1, <3>1, <3>2, HealthFields
  <2>2. req[c].op = "restart" => req[c].since < cmd'
    BY <1>1, <1>2, <1>4 DEF RestartTraced
  <2>3. Traced(c)'
    BY <1>1, <1>2, <2>1, <2>2 DEF Traced, RestartTraced, ReloadTraced, HealthPoints
  <2> QED
    BY <2>1, <2>3, SilentTold
<1> QED
  BY <1>3, <1>4 DEF StartLocked, NoLaunch, Launch

\* The mutex is taken, HAProxy found running or started, the baseline noted.
LEMMA PrepareTraced ==
  ASSUME TypeOK, TypeOK', NEW c \in Callers, Traced(c), Drifts,
         ReloadLock(c) \/ ReloadCheck(c) \/ ReloadBaseline(c)
  PROVE  Traced(c)' /\ Told(c)
<1>1. /\ req[c] \in Requests /\ RestartTraced(req[c]) /\ ReloadTraced(c, req[c])
      /\ req[c].pc \in {"lock", "check", "baseline"} /\ cmd \in Nat
  BY RequestNumbers, Numbers DEF Traced, ReloadLock, ReloadCheck, ReloadBaseline, At
<1>2. req[c].op # "restart" /\ req[c].fresh = {} /\ ~req[c].expectReload
  BY <1>1 DEF RestartTraced, ReloadTraced, HealthPoints
<1>3. CASE ReloadLock(c)
  <2> DEFINE r == [req[c] EXCEPT !.pc = "check"]
  <2>1. req'[c] = r /\ reloadMu' = c /\ UNCHANGED <<cmd, sock>>
    BY <1>3 DEF TypeOK, ReloadLock
  <2>2. /\ r.pc = "check" /\ r.op = req[c].op /\ r.pid = req[c].pid /\ r.fresh = req[c].fresh
        /\ r.clean = req[c].clean /\ r.expectReload = req[c].expectReload
        /\ r.verdict = req[c].verdict
    BY <1>1, Zenon DEF Requests
  <2> HIDE DEF r
  <2>3. Traced(c)'
    BY <1>1, <1>2, <2>1, <2>2 DEF Traced, RestartTraced, ReloadTraced, HealthPoints
  <2> QED
    BY <2>1, <2>2, <2>3, SilentTold
<1>4. CASE ReloadCheck(c)
  <2>1. CASE ~RunningLocked
    BY <1>2, <1>4, <2>1, StartTraced DEF ReloadCheck
  <2>2. CASE RunningLocked
    <3> DEFINE r == [req[c] EXCEPT !.pc = "baseline", !.pid = cmd]
    <3>1. req' = [req EXCEPT ![c] = r] /\ UNCHANGED <<reloadMu, cmd, sock>> /\ req[c].pc = "check"
      BY <1>4, <2>2, Zenon DEF ReloadCheck, NoLaunch, At
    <3>2. req'[c] = r
      BY <3>1 DEF TypeOK
    <3>3. /\ r.pc = "baseline" /\ r.op = req[c].op /\ r.pid = cmd /\ r.fresh = req[c].fresh
          /\ r.clean = req[c].clean /\ r.expectReload = req[c].expectReload
          /\ r.verdict = req[c].verdict
      BY <1>1, Zenon DEF Requests
    <3>4. cmd # 0
      BY <2>2 DEF RunningLocked
    <3> HIDE DEF r
    <3>5. Traced(c)'
      BY <1>1, <1>2, <3>1, <3>2, <3>3, <3>4 DEF Traced, RestartTraced, ReloadTraced, HealthPoints
    <3> QED
      BY <3>2, <3>3, <3>5, SilentTold
  <2> QED
    BY <2>1, <2>2
<1>5. CASE ReloadBaseline(c)
  <2>1. PICK answered \in BOOLEAN :
          /\ answered => sock /\ MasterUp
          /\ req' = [req EXCEPT ![c].pc = "signal", ![c].clean = answered /\ ReloadsDecided,
                       ![c].base = IF answered
                                   THEN [workers |-> master.workers, failed |-> master.failed]
                                   ELSE NoProcState]
    BY <1>5 DEF ReloadBaseline
  <2>2. UNCHANGED <<reloadMu, cmd, sock, master>> /\ req[c].pc = "baseline"
    BY <1>5 DEF ReloadBaseline, At, haproxyVars
  <2> DEFINE b == IF answered THEN [workers |-> master.workers, failed |-> master.failed]
                  ELSE NoProcState
             k == answered /\ ReloadsDecided
             r == [req[c] EXCEPT !.pc = "signal", !.clean = k, !.base = b]
  <2>3. req' = [req EXCEPT ![c] = r]
    BY <2>1, Zenon
  <2>4. req'[c] = r
    BY <2>3 DEF TypeOK
  <2>5. k => sock /\ Quiet([req[c] EXCEPT !.base = b])
    <3>1. [req[c] EXCEPT !.base = b].base = b
      BY <1>1, Zenon DEF Requests
    <3>2. ASSUME k
          PROVE  sock /\ b.workers = master.workers /\ b.failed = master.failed /\ ReloadsDecided
      BY <2>1, <3>2
    <3> HIDE DEF b, k
    <3> QED
      BY <3>1, <3>2, Numbers DEF Quiet, ReloadsDecided, Decided
  <2>6. [req[c] EXCEPT !.base = b].base = b
    BY <1>1, Zenon DEF Requests
  <2> HIDE DEF b, k
  <2>7. /\ r.pc = "signal" /\ r.op = req[c].op /\ r.pid = req[c].pid /\ r.fresh = req[c].fresh
        /\ r.clean = k /\ r.expectReload = req[c].expectReload /\ r.base = b
        /\ r.verdict = req[c].verdict
    BY <1>1, Zenon DEF Requests
  <2> HIDE DEF r
  <2>8. r.clean => Quiet(req[c])'
    BY <2>2, <2>4, <2>5, <2>6, <2>7 DEF Quiet, Decided
  <2>9. Traced(c)'
    BY <1>1, <1>2, <2>2, <2>4, <2>5, <2>7, <2>8 DEF Traced, RestartTraced, ReloadTraced, HealthPoints
  <2> QED
    BY <2>4, <2>7, <2>9, SilentTold
<1> QED
  BY <1>3, <1>4, <1>5

\* The signal goes to the master whose baseline was taken, or to nobody: what that
\* master lists beyond the baseline from now on was forked after the signal.
LEMMA SignalTraced ==
  ASSUME IInv, TypeOK', NEW c \in Callers, Traced(c), ReloadSignal(c)
  PROVE  Traced(c)' /\ Told(c)
<1>1. /\ TypeOK /\ req[c] \in Requests /\ RestartTraced(req[c]) /\ ReloadTraced(c, req[c])
      /\ req[c].pc = "signal" /\ cmd \in Nat /\ forks \in Nat /\ UNCHANGED <<cmd, sock, forks>>
  BY RequestNumbers, Numbers DEF IInv, Traced, ReloadSignal, At
<1>2. CASE Return(c, "failed")
  BY <1>1, <1>2, ReturnTold DEF Justified
<1>3. CASE /\ child[req[c].pid] \in {"up", "zombie"}
           /\ WaitHealthy(c, [req[c] EXCEPT !.since = forks], req[c].base, TRUE)
           /\ master' = [master EXCEPT !.usr2 = @ \/ child[req[c].pid] = "up"]
  <2>1. req[c].pid = cmd
    <3>1. req[c].pid \in Children /\ cmd \in Int
      <4>1. req[c].pid \in 0..MaxStarts /\ req[c].pid # 0
        BY <1>1 DEF Requests, ReloadTraced
      <4> QED
        BY <1>1, <4>1, BoundsAssumption DEF Children
    <3>2. ~(req[c].pid > cmd) /\ ~(req[c].pid < cmd)
      BY <1>3, <3>1 DEF IInv, ChildrenInOrder
    <3>3. req[c].pid \in Int
      BY <3>1, BoundsAssumption DEF Children
    <3> QED
      BY <3>1, <3>2, <3>3
  <2> DEFINE r == [req[c] EXCEPT !.since = forks]
  <2>2. /\ r.op = req[c].op /\ r.pid = req[c].pid /\ r.since = forks
        /\ r.fresh = req[c].fresh /\ r.clean = req[c].clean /\ r.verdict = req[c].verdict
        /\ r.base = req[c].base
    BY <1>1, Zenon DEF Requests
  <2>3. r \in Requests
    <3>1. forks \in 0..(MaxStarts + MaxForks)
      BY <1>1, BoundsAssumption DEF TypeOK
    <3> QED
      BY <1>1, <3>1, Zenon DEF Requests
  <2> HIDE DEF r
  <2>4. /\ req'[c].pc = "health" /\ req'[c].base = req[c].base /\ req'[c].op = req[c].op
        /\ req'[c].pid = req[c].pid /\ req'[c].since = forks /\ req'[c].fresh = req[c].fresh
        /\ req'[c].clean = req[c].clean /\ req'[c].verdict = req[c].verdict
    <3> DEFINE b == req[c].base
               e == TRUE
    <3>1. WaitHealthy(c, r, b, e)
      BY <1>3 DEF r
    <3>2. e \in BOOLEAN
      OBVIOUS
    <3> HIDE DEF b, e
    <3>3. /\ req'[c].pc = "health" /\ req'[c].base = b /\ req'[c].op = r.op
          /\ req'[c].pid = r.pid /\ req'[c].since = r.since /\ req'[c].fresh = r.fresh
          /\ req'[c].clean = r.clean /\ req'[c].verdict = r.verdict
      <4>1. TypeOK
        BY <1>1
      <4> QED
        BY <2>3, <3>1, <3>2, <4>1, HealthFields, Zenon
    <3> QED
      BY <2>2, <3>3 DEF b
  <2>5. /\ master'.workers = master.workers /\ master'.starting = master.starting
        /\ master'.failed = master.failed /\ master'.reloaded = master.reloaded
    <3> DEFINE u == master.usr2 \/ child[req[c].pid] = "up"
    <3>1. master' = [master EXCEPT !.usr2 = u]
      BY <1>3
    <3> HIDE DEF u
    <3> QED
      BY <1>1, <3>1, Numbers, Zenon DEF MasterType
  <2>6. req[c].clean => Quiet(req[c])
    BY <1>1, <2>1 DEF ReloadTraced
  <2>7. /\ req[c].fresh = {} /\ req[c].op # "restart" /\ req[c].pid <= cmd
        /\ (req[c].clean => sock)
    BY <1>1 DEF ReloadTraced, RestartTraced, HealthPoints
  <2>8. req[c].clean => Watching(req[c])'
    <3> SUFFICES ASSUME req[c].clean PROVE Watching(req[c])'
      OBVIOUS
    <3>1. /\ master'.workers \subseteq req'[c].base.workers /\ req'[c].since <= forks'
          /\ ~(master'.failed > req'[c].base.failed) /\ Decided' /\ req'[c].fresh = {}
          /\ forks' = req'[c].since
      BY <1>1, <2>4, <2>5, <2>6, <2>7, Numbers, RequestNumbers DEF Quiet, Decided
    <3> QED
      BY <3>1, Zenon DEF Watching, Known
  <2>9. reloadMu' = c
    BY <1>1, <1>3 DEF ReloadTraced, WaitHealthy
  <2>10. Traced(c)'
    BY <1>1, <2>4, <2>7, <2>8, <2>9 DEF Traced, RestartTraced, ReloadTraced, HealthPoints
  <2> QED
    BY <2>4, <2>10, SilentTold
<1> QED
  BY <1>2, <1>3 DEF ReloadSignal

\* A step of the polling loop that returns nothing and leaves the notes alone, but for
\* the answer it takes, the workers it takes for new and the turns it counts.
LEMMA StillPolling ==
  ASSUME TypeOK, NEW c \in Callers, Traced(c), req[c].pc \in HealthPoints,
         NEW r, req' = [req EXCEPT ![c] = r], UNCHANGED reloadMu,
         UNCHANGED <<cmd, child, sock, exited, haproxyVars>>,
         r.pc \in HealthPoints, r.op = req[c].op, r.pid = req[c].pid, r.since = req[c].since,
         r.base = req[c].base, r.clean = req[c].clean, r.expectReload = req[c].expectReload,
         r.verdict = req[c].verdict,
         req[c].expectReload /\ req[c].clean
           => /\ \A w \in r.fresh : w > req[c].since /\ w \notin req[c].base.workers
              /\ r.pc = "judge" => Heard(r)
  PROVE  Traced(c)' /\ Told(c)
<1>1. /\ RestartTraced(req[c]) /\ ReloadTraced(c, req[c])
      /\ UNCHANGED <<cmd, child, sock, master, forks, lastFailed>>
  BY DEF Traced, haproxyVars
<1>2. req'[c] = r
  BY DEF TypeOK
<1>3. r.op = "restart" => r.since < cmd
  BY <1>1 DEF RestartTraced
<1>4. RestartTraced(req[c])'
  BY <1>1, <1>2, <1>3 DEF RestartTraced, HealthPoints
<1>5. ASSUME r.expectReload, r.clean PROVE Watching(req[c])'
  <2>1. Watching(req[c])
    BY <1>1, <1>5 DEF ReloadTraced
  <2>2. Decided' = Decided /\ \A w : Known(req[c], w)' = Known(req[c], w)
    BY <1>1, <1>2 DEF Decided, Known
  <2> QED
    BY <1>1, <1>2, <1>5, <2>1, <2>2 DEF Watching
<1>6. ASSUME r.expectReload, r.clean, r.pc = "judge" PROVE Heard(req[c])'
  <2>1. Heard(r)
    BY <1>6
  <2> QED
    BY <1>1, <1>2, <2>1, Zenon DEF Heard, Settled, Vanished, FreshNow, SettledAt, Serving,
                                  AnswererGone
<1>7. ReloadTraced(c, req[c])'
  BY <1>1, <1>2, <1>5, <1>6 DEF ReloadTraced, HealthPoints
<1> QED
  BY <1>2, <1>4, <1>7, SilentTold DEF Traced

\* Another turn of the polling loop.
LEMMA NextTurnTraced ==
  ASSUME TypeOK, TypeOK', NEW c \in Callers, Traced(c), req[c].pc \in HealthPoints,
         NEW fresh, NEW settled,
         UNCHANGED <<cmd, child, sock, exited, haproxyVars>>, NextTurn(c, fresh, settled),
         req[c].expectReload /\ req[c].clean
           => \A w \in fresh : w > req[c].since /\ w \notin req[c].base.workers
  PROVE  Traced(c)' /\ Told(c)
<1>1. CASE Return(c, "failed")
  BY <1>1, ReturnTold DEF Justified
<1>2. CASE /\ req' = [req EXCEPT ![c].pc = "health", ![c].polls = @ + 1, ![c].fresh = fresh,
                        ![c].settled = settled, ![c].seen = NoProcState, ![c].by = 0]
           /\ UNCHANGED reloadMu
  <2> DEFINE n == req[c].polls + 1
             r == [req[c] EXCEPT !.pc = "health", !.polls = n, !.fresh = fresh,
                                 !.settled = settled, !.seen = NoProcState, !.by = 0]
  <2>1. req' = [req EXCEPT ![c] = r]
    BY <1>2, Zenon
  <2>2. req[c] \in Requests
    BY RequestNumbers
  <2> HIDE DEF n
  <2>3. /\ r.op = req[c].op /\ r.pc = "health" /\ r.pid = req[c].pid /\ r.since = req[c].since
        /\ r.base = req[c].base /\ r.fresh = fresh /\ r.clean = req[c].clean
        /\ r.expectReload = req[c].expectReload /\ r.verdict = req[c].verdict
    BY <2>2, Zenon DEF Requests
  <2> HIDE DEF r
  <2>4. r.pc \in HealthPoints /\ r.pc # "judge"
    BY <2>3 DEF HealthPoints
  <2> QED
    BY <1>2, <2>1, <2>3, <2>4, StillPolling
<1> QED
  BY <1>1, <1>2 DEF NextTurn

\* The answer: what it lists beyond the baseline was forked after the signal, and a
\* worker settled by it is past its start-up.
LEMMA AnswerTraced ==
  ASSUME IInv, TypeOK', NEW c \in Callers, Traced(c), PollAnswered(c)
  PROVE  Traced(c)' /\ Told(c)
<1>1. /\ TypeOK /\ req[c] \in Requests /\ ReloadTraced(c, req[c]) /\ req[c].pc = "asked"
      /\ MasterUp /\ SettleCoversStart(req[c])
      /\ UNCHANGED <<cmd, child, reloadMu, sock, exited, haproxyVars>>
  BY RequestNumbers DEF IInv, Traced, PollAnswered, At
<1> DEFINE p == [workers |-> master.workers, failed |-> master.failed]
           r == [req[c] EXCEPT !.pc = "judge", !.by = cmd, !.seen = p]
<1>2. req' = [req EXCEPT ![c] = r]
  BY Zenon DEF PollAnswered
<1>3. p.workers = master.workers /\ p.failed = master.failed
  OBVIOUS
<1> HIDE DEF p
<1>4. /\ r.op = req[c].op /\ r.pc = "judge" /\ r.pid = req[c].pid /\ r.since = req[c].since
      /\ r.base = req[c].base /\ r.fresh = req[c].fresh /\ r.clean = req[c].clean
      /\ r.expectReload = req[c].expectReload /\ r.verdict = req[c].verdict
      /\ r.polls = req[c].polls /\ r.settled = req[c].settled
      /\ r.by = cmd /\ r.seen = p
  BY <1>1, Zenon DEF Requests
<1> HIDE DEF r
<1>5. cmd \in 1..cmd
  <2>1. PICK i \in Children : child[i] = "up"
    BY <1>1 DEF MasterUp
  <2>2. cmd \in Nat /\ i \in Int /\ i >= 1
    BY <1>1, Numbers, BoundsAssumption DEF Children
  <2>3. ~(i > cmd)
    BY <2>1 DEF IInv, ChildrenInOrder
  <2> QED
    BY <2>2, <2>3
<1>6. ASSUME req[c].expectReload, req[c].clean
      PROVE  /\ \A w \in r.fresh : w > req[c].since /\ w \notin req[c].base.workers
             /\ Heard(r)
  <2>1. Watching(req[c])
    BY <1>1, <1>6 DEF ReloadTraced, HealthPoints
  <2>2. \A w \in r.fresh : w > req[c].since /\ w \notin req[c].base.workers
    BY <1>4, <2>1 DEF Watching
  <2>3. \A w \in r.seen.workers : w \in r.base.workers \/ w > r.since
    BY <1>3, <1>4, <2>1 DEF Watching, Known
  <2>4. r.seen.failed > r.base.failed => lastFailed > r.since
    BY <1>3, <1>4, <2>1 DEF Watching
  <2>5. ASSUME Settled(r, r.seen.workers), ~Vanished(r) PROVE Serving(r)
    <3>1. FreshNow(r, r.seen.workers) = FreshNow(req[c], master.workers)
      BY <1>3, <1>4, Zenon DEF FreshNow
    <3>2. Settled(req[c], master.workers)
      <4>1. SettledAt(r) = SettledAt(req[c])
        BY <1>4, Zenon DEF SettledAt
      <4> QED
        BY <1>4, <2>5, <3>1, <4>1 DEF Settled
    <3>3. /\ FreshNow(req[c], master.workers) # {}
          /\ FreshNow(req[c], master.workers) \cap master.starting = {}
      BY <1>1, <3>2 DEF SettleCoversStart, Settled
    <3>4. CASE req[c].fresh # {}
      <4>1. PICK w \in master.workers : w \in req[c].fresh
        BY <1>3, <1>4, <2>5, <3>4 DEF Vanished
      <4> QED
        BY <1>4, <2>1, <3>3, <3>4, <4>1 DEF FreshNow, Watching, Serving
    <3>5. CASE req[c].fresh = {}
      <4>1. PICK w : w \in FreshNow(req[c], master.workers)
        BY <3>3
      <4>2. w \in master.workers /\ w \notin req[c].base.workers /\ w \notin master.starting
        BY <1>6, <3>3, <3>5, <4>1 DEF FreshNow
      <4> QED
        BY <1>4, <4>2 DEF Serving
    <3> QED
      BY <3>4, <3>5
  <2>6. Heard(r)
    BY <1>4, <1>5, <2>3, <2>4, <2>5 DEF Heard
  <2> QED
    BY <2>2, <2>6
<1>7. req[c].pc \in HealthPoints /\ r.pc \in HealthPoints
  BY <1>1, <1>4 DEF HealthPoints
<1> QED
  BY <1>1, <1>2, <1>4, <1>6, <1>7, StillPolling

\* A refusal counts a failure the baseline does not, which came after the signal; a
\* success has seen a worker that is new since the signal and past its start-up, and
\* that only the end of its master can have taken away.
LEMMA JudgeTraced ==
  ASSUME TypeOK, TypeOK', NEW c \in Callers, Traced(c), PollJudged(c)
  PROVE  Traced(c)' /\ Told(c)
<1>1. /\ RestartTraced(req[c]) /\ ReloadTraced(c, req[c]) /\ req[c].pc = "judge"
      /\ UNCHANGED <<cmd, child, sock, exited, haproxyVars>>
  BY DEF Traced, PollJudged, At
<1>2. req[c].op = "restart" => cmd > req[c].since
  <2>1. req[c].op = "restart" => req[c].since < cmd
    BY <1>1 DEF RestartTraced, HealthPoints
  <2> QED
    BY <2>1, Numbers, RequestNumbers
<1>3. ASSUME req[c].expectReload, req[c].clean PROVE Watching(req[c]) /\ Heard(req[c])
  BY <1>1, <1>3 DEF ReloadTraced, HealthPoints
<1> DEFINE f == FreshNow(req[c], req[c].seen.workers)
           t == IF f = {} THEN 0 ELSE SettledAt(req[c])
<1>4. CASE Refused(req[c]) /\ Return(c, "refused")
  <2>1. Justified(c, "refused")
    BY <1>3, <1>4 DEF Justified, Refused, Heard
  <2> QED
    BY <1>4, <2>1, ReturnTold
<1>5. CASE Return(c, "failed")
  BY <1>5, ReturnTold DEF Justified
<1>6. CASE /\ ~Vanished(req[c]) /\ Settled(req[c], req[c].seen.workers) /\ Return(c, "ok")
  <2>1. ASSUME req[c].expectReload, req[c].clean
        PROVE  \/ \E w \in master.workers : w > req[c].since /\ w \notin master.starting
               \/ AnswererGone(req[c])
    BY <1>3, <1>6, <2>1 DEF Heard, Serving, Watching, Known
  <2>2. Justified(c, "ok")
    BY <1>2, <2>1 DEF Justified
  <2> QED
    BY <1>6, <2>2, ReturnTold
<1>7. CASE NextTurn(c, f, t)
  <2>1. req[c].expectReload /\ req[c].clean
          => \A w \in f : w > req[c].since /\ w \notin req[c].base.workers
    BY <1>3 DEF FreshNow, Watching, Heard
  <2>2. req[c].pc \in HealthPoints
    BY <1>1 DEF HealthPoints
  <2> HIDE DEF f, t
  <2> QED
    BY <1>1, <1>7, <2>1, <2>2, NextTurnTraced
<1> QED
  BY <1>4, <1>5, <1>6, <1>7, Zenon DEF PollJudged

LEMMA PollTraced ==
  ASSUME IInv, TypeOK', NEW c \in Callers, Traced(c), WaitHealthyStep(c)
  PROVE  Traced(c)' /\ Told(c)
<1>1. /\ TypeOK /\ req[c] \in Requests /\ RestartTraced(req[c]) /\ ReloadTraced(c, req[c])
      /\ req[c].pc \in HealthPoints
      /\ UNCHANGED <<cmd, child, sock, exited, haproxyVars>>
  BY RequestNumbers DEF IInv, Traced, WaitHealthyStep, PollNotRunning, PollAsk, PollAnswered,
                        PollUnanswered, PollJudged, PollNoSocket, At, HealthPoints
<1>2. ASSUME req[c].expectReload, req[c].clean PROVE sock /\ Watching(req[c])
  BY <1>1, <1>2 DEF ReloadTraced
<1>3. CASE PollNotRunning(c)
  BY <1>1, <1>3, ReturnTold DEF Justified, PollNotRunning
<1>4. CASE PollAsk(c)
  <2> DEFINE r == [req[c] EXCEPT !.pc = "asked"]
  <2>1. req' = [req EXCEPT ![c] = r] /\ UNCHANGED reloadMu
    BY <1>4, Zenon DEF PollAsk
  <2>2. /\ r.op = req[c].op /\ r.pc = "asked" /\ r.pid = req[c].pid /\ r.since = req[c].since
        /\ r.base = req[c].base /\ r.fresh = req[c].fresh /\ r.clean = req[c].clean
        /\ r.expectReload = req[c].expectReload /\ r.verdict = req[c].verdict
    BY <1>1, Zenon DEF Requests
  <2> HIDE DEF r
  <2>3. r.pc \in HealthPoints /\ r.pc # "judge"
    BY <2>2 DEF HealthPoints
  <2>4. req[c].expectReload /\ req[c].clean
          => \A w \in r.fresh : w > req[c].since /\ w \notin req[c].base.workers
    BY <1>2, <2>2 DEF Watching
  <2> QED
    BY <1>1, <2>1, <2>2, <2>3, <2>4, StillPolling
<1>5. CASE PollAnswered(c)
  BY <1>5, AnswerTraced
<1>6. CASE PollUnanswered(c)
  <2>1. req[c].expectReload /\ req[c].clean
          => \A w \in req[c].fresh : w > req[c].since /\ w \notin req[c].base.workers
    BY <1>2 DEF Watching
  <2> QED
    BY <1>1, <1>6, <2>1, NextTurnTraced DEF PollUnanswered
<1>7. CASE PollJudged(c)
  BY <1>1, <1>7, JudgeTraced
<1>8. CASE PollNoSocket(c)
  <2>1. req[c].op = "restart" => cmd > req[c].since
    <3>1. req[c].op = "restart" => req[c].since < cmd
      BY <1>1 DEF RestartTraced
    <3> QED
      BY <1>1, <3>1, Numbers, RequestNumbers
  <2>2. Justified(c, "ok")
    BY <1>2, <1>8, <2>1 DEF Justified, PollNoSocket
  <2> QED
    BY <1>1, <1>8, <2>2, ReturnTold DEF PollNoSocket
<1> QED
  BY <1>3, <1>4, <1>5, <1>6, <1>7, <1>8 DEF WaitHealthyStep

\* A restart goes on only when the master it stopped is reaped: by then it runs no
\* more, or another one was started.
LEMMA StoppedTraced ==
  ASSUME TypeOK, TypeOK', NEW c \in Callers, Traced(c),
         UNCHANGED <<cmd, child, sock, exited, haproxyVars>>, Stopped(c), ~req[c].expectReload,
         req[c].op = "restart" => req[c].since < cmd \/ (req[c].since = cmd /\ ~RunningLocked),
         req[c].pc \in {"grace", "kill"}
  PROVE  Traced(c)' /\ Told(c)
<1>1. CASE Return(c, "ok") /\ req[c].op # "restart"
  BY <1>1, ReturnTold DEF Justified
<1>2. CASE req[c].op = "restart" /\ req' = [req EXCEPT ![c].pc = "start"] /\ UNCHANGED reloadMu
  <2> DEFINE r == [req[c] EXCEPT !.pc = "start"]
  <2>1. /\ req[c] \in Requests /\ RestartTraced(req[c]) /\ ReloadTraced(c, req[c])
        /\ UNCHANGED <<cmd, child, sock>>
    BY RequestNumbers DEF Traced
  <2>2. req'[c] = r
    BY <1>2 DEF TypeOK
  <2>3. /\ r.op = req[c].op /\ r.pc = "start" /\ r.pid = req[c].pid /\ r.since = req[c].since
        /\ r.fresh = req[c].fresh /\ r.clean = req[c].clean
        /\ r.expectReload = req[c].expectReload /\ r.verdict = req[c].verdict
    BY <2>1, Zenon DEF Requests
  <2> HIDE DEF r
  <2>4. RunningLocked' = RunningLocked
    BY <2>1 DEF RunningLocked
  <2>5. Traced(c)'
    BY <2>1, <2>2, <2>3, <2>4, <1>2 DEF Traced, RestartTraced, ReloadTraced, HealthPoints
  <2> QED
    BY <2>2, <2>3, <2>5, SilentTold
<1> QED
  BY <1>1, <1>2 DEF Stopped

LEMMA StopTraced ==
  ASSUME IInv, TypeOK', NEW c \in Callers, Traced(c), Drifts,
         StopBegin(c) \/ StopExited(c) \/ StopKill(c) \/ StopGiveUp(c) \/ RestartStart(c)
  PROVE  Traced(c)' /\ Told(c)
<1>1. /\ TypeOK /\ req[c] \in Requests /\ RestartTraced(req[c]) /\ ReloadTraced(c, req[c])
      /\ req[c].pc \in {"stop", "grace", "kill", "start"} /\ cmd \in Nat /\ req[c].since \in Nat
  BY RequestNumbers, Numbers DEF IInv, Traced, StopBegin, StopExited, StopKill, StopGiveUp,
                                 RestartStart, At
<1>2. req[c].fresh = {} /\ ~req[c].expectReload
  BY <1>1 DEF ReloadTraced, HealthPoints
<1>3. CASE StopBegin(c)
  <2>1. UNCHANGED <<cmd, child, sock>>
    BY <1>3 DEF StopBegin
  <2>2. CASE RunningLocked
    <3> DEFINE r == [req[c] EXCEPT !.pc = "grace", !.pid = cmd, !.since = cmd]
    <3>1. req' = [req EXCEPT ![c] = r]
      BY <1>3, <2>2, Zenon DEF StopBegin
    <3>2. req'[c] = r
      BY <1>1, <3>1 DEF TypeOK
    <3>3. /\ r.op = req[c].op /\ r.pc = "grace" /\ r.pid = cmd /\ r.since = cmd
          /\ r.fresh = req[c].fresh /\ r.clean = req[c].clean
          /\ r.expectReload = req[c].expectReload /\ r.verdict = req[c].verdict
      BY <1>1, Zenon DEF Requests
    <3>4. cmd # 0
      BY <2>2 DEF RunningLocked
    <3> HIDE DEF r
    <3>5. Traced(c)'
      BY <1>1, <1>2, <2>1, <3>2, <3>3, <3>4 DEF Traced, RestartTraced, ReloadTraced, HealthPoints
    <3> QED
      BY <3>2, <3>3, <3>5, SilentTold
  <2>3. CASE ~RunningLocked /\ req[c].op = "restart"
    <3> DEFINE r == [req[c] EXCEPT !.pc = "start", !.since = cmd]
    <3>1. req' = [req EXCEPT ![c] = r]
      BY <1>3, <2>3, Zenon DEF StopBegin
    <3>2. req'[c] = r
      BY <1>1, <3>1 DEF TypeOK
    <3>3. /\ r.op = req[c].op /\ r.pc = "start" /\ r.pid = req[c].pid /\ r.since = cmd
          /\ r.fresh = req[c].fresh /\ r.clean = req[c].clean
          /\ r.expectReload = req[c].expectReload /\ r.verdict = req[c].verdict
      BY <1>1, Zenon DEF Requests
    <3>4. ~RunningLocked'
      BY <2>1, <2>3 DEF RunningLocked
    <3> HIDE DEF r
    <3>5. Traced(c)'
      BY <1>1, <1>2, <2>1, <3>2, <3>3, <3>4 DEF Traced, RestartTraced, ReloadTraced, HealthPoints
    <3> QED
      BY <3>2, <3>3, <3>5, SilentTold
  <2>4. CASE ~RunningLocked /\ req[c].op # "restart"
    <3>1. Return(c, "ok")
      BY <1>3, <2>4 DEF StopBegin
    <3> QED
      BY <1>1, <1>2, <2>4, <3>1, ReturnTold DEF Justified
  <2> QED
    BY <2>2, <2>3, <2>4
<1>4. CASE StopExited(c)
  <2>1. /\ req[c].pc \in {"grace", "kill"} /\ child[req[c].pid] = "reaped" /\ Stopped(c)
        /\ UNCHANGED <<cmd, child, sock, exited, haproxyVars>>
    BY <1>4 DEF StopExited, At
  <2>2. req[c].op = "restart" => req[c].since < cmd \/ (req[c].since = cmd /\ ~RunningLocked)
    <3> SUFFICES ASSUME req[c].op = "restart", ~(req[c].since < cmd)
                 PROVE  req[c].since = cmd /\ ~RunningLocked
      OBVIOUS
    <3>1. req[c].pid = req[c].since /\ req[c].since <= cmd
      BY <1>1, <2>1 DEF RestartTraced
    <3>2. req[c].since = cmd
      BY <1>1, <3>1
    <3> QED
      BY <2>1, <3>1, <3>2 DEF RunningLocked
  <2> QED
    BY <1>1, <1>2, <2>1, <2>2, StoppedTraced
<1>5. CASE StopKill(c)
  <2> DEFINE r == [req[c] EXCEPT !.pc = "kill"]
  <2>1. req'[c] = r /\ UNCHANGED <<cmd, sock>> /\ req[c].pc = "grace"
    BY <1>1, <1>5 DEF TypeOK, StopKill, At
  <2>2. /\ r.op = req[c].op /\ r.pc = "kill" /\ r.pid = req[c].pid /\ r.since = req[c].since
        /\ r.fresh = req[c].fresh /\ r.clean = req[c].clean
        /\ r.expectReload = req[c].expectReload /\ r.verdict = req[c].verdict
    BY <1>1, Zenon DEF Requests
  <2> HIDE DEF r
  <2>3. Traced(c)'
    BY <1>1, <1>2, <2>1, <2>2 DEF Traced, RestartTraced, ReloadTraced, HealthPoints
  <2> QED
    BY <2>1, <2>2, <2>3, SilentTold
<1>6. CASE StopGiveUp(c)
  BY <1>1, <1>6, ReturnTold DEF Justified, StopGiveUp
<1>7. CASE RestartStart(c)
  BY <1>1, <1>7, StartTraced DEF RestartStart, At
<1> QED
  BY <1>3, <1>4, <1>5, <1>6, <1>7

\* Only the request itself lets its mutex go.
LEMMA MutexKept ==
  ASSUME NEW c \in Callers, NEW d \in Callers, d # c, CallerStep(c), reloadMu = d
  PROVE  reloadMu' = d
<1>1. NoOne # d
  BY CallersAssumption
<1>2. ASSUME NEW v, Return(c, v) PROVE reloadMu' = d
  BY <1>2 DEF Return
<1>3. ASSUME UNCHANGED reloadMu PROVE reloadMu' = d
  BY <1>3
<1>4. ASSUME StartLocked(c) PROVE reloadMu' = d
  BY <1>2, <1>4 DEF StartLocked, WaitHealthy
<1>5. CASE ReloadLock(c) \/ ReloadCheck(c) \/ ReloadBaseline(c) \/ ReloadSignal(c)
  BY <1>1, <1>2, <1>4, <1>5 DEF ReloadLock, ReloadCheck, ReloadBaseline, ReloadSignal, WaitHealthy
<1>6. CASE WaitHealthyStep(c)
  BY <1>2, <1>6 DEF WaitHealthyStep, PollNotRunning, PollAsk, PollAnswered,
                    PollUnanswered, PollJudged, PollNoSocket, NextTurn
<1>7. CASE StopBegin(c) \/ StopExited(c) \/ StopKill(c) \/ StopGiveUp(c) \/ RestartStart(c)
  BY <1>2, <1>4, <1>7 DEF StopBegin, StopExited, Stopped, StopKill, StopGiveUp, RestartStart
<1> QED
  BY <1>5, <1>6, <1>7 DEF CallerStep

\* HAProxy drifts in every step of a caller, and is signalled only by the reload that
\* has taken its baseline.
LEMMA CallerDrifts ==
  ASSUME IInv, NEW c \in Callers, Traced(c), CallerStep(c)
  PROVE  Drifts /\ (master'.usr2 => master.usr2 \/ req[c].pc = "signal")
<1>1. TypeOK
  BY DEF IInv
<1>2. ASSUME UNCHANGED <<cmd, child, sock, haproxyVars>>
      PROVE  Drifts /\ (master'.usr2 => master.usr2)
  BY <1>1, <1>2, StillDrifts DEF haproxyVars
<1>3. ASSUME StartLocked(c), UNCHANGED sock PROVE Drifts /\ (master'.usr2 => master.usr2)
  <2>1. CASE NoLaunch
    BY <1>2, <1>3, <2>1 DEF NoLaunch
  <2>2. CASE ~RunningLocked /\ Launch
    <3>1. ~master'.usr2
      BY <2>2 DEF Launch, NewMaster
    <3> QED
      BY <1>1, <1>3, <2>2, <3>1, LaunchDrifts
  <2> QED
    BY <1>3, <2>1, <2>2 DEF StartLocked
<1>4. CASE ReloadCheck(c)
  <2>1. CASE RunningLocked
    BY <1>2, <1>4, <2>1 DEF ReloadCheck, NoLaunch
  <2>2. CASE ~RunningLocked
    BY <1>3, <1>4, <2>2 DEF ReloadCheck
  <2> QED
    BY <2>1, <2>2
<1>5. CASE ReloadSignal(c)
  <2>1. UNCHANGED <<cmd, child, sock, forks, lastFailed>> /\ req[c].pc = "signal"
    BY <1>5 DEF ReloadSignal, At
  <2>2. /\ master'.workers = master.workers /\ master'.starting = master.starting
        /\ master'.failed = master.failed /\ master'.reloaded = master.reloaded
    <3>1. CASE UNCHANGED master
      BY <3>1
    <3>2. CASE master' = [master EXCEPT !.usr2 = @ \/ child[req[c].pid] = "up"]
      <4> DEFINE u == master.usr2 \/ child[req[c].pid] = "up"
      <4>1. master' = [master EXCEPT !.usr2 = u]
        BY <3>2
      <4> HIDE DEF u
      <4> QED
        BY <1>1, <4>1, Numbers, Zenon DEF MasterType
    <3> QED
      BY <1>5, <3>1, <3>2 DEF ReloadSignal
  <2> QED
    BY <1>1, <2>1, <2>2, StillDrifts
<1>6. CASE StopKill(c)
  <2>1. CASE child[req[c].pid] = "up"
    <3> DEFINE i == req[c].pid
               v == "zombie"
    <3>1. /\ child[i] \in {"up", "zombie"} /\ v \in {"zombie", "reaped"} /\ v # "reaped"
          /\ child' = [child EXCEPT ![i] = v] /\ UNCHANGED <<cmd, sock, forks, lastFailed>>
          /\ master' \in {master, NoMaster}
      BY <1>6, <2>1 DEF StopKill
    <3>2. ~master'.usr2
      BY <1>6, <2>1 DEF StopKill, NoMaster
    <3>3. i \in Children
      <4>1. i <= cmd /\ i # 0
        BY <1>6 DEF Traced, ReloadTraced, StopKill, At
      <4>2. i \in Nat /\ cmd \in 0..MaxStarts
        BY <1>1, RequestNumbers DEF TypeOK
      <4> HIDE DEF i
      <4> QED
        BY <4>1, <4>2, BoundsAssumption DEF Children
    <3> HIDE DEF i, v
    <3> QED
      BY <3>1, <3>2, <3>3, EndingDrifts
  <2>2. CASE child[req[c].pid] # "up"
    BY <1>2, <1>6, <2>2 DEF StopKill, haproxyVars
  <2> QED
    BY <2>1, <2>2
<1>7. CASE RestartStart(c)
  BY <1>3, <1>7 DEF RestartStart
<1>8. CASE \/ ReloadLock(c) \/ ReloadBaseline(c) \/ WaitHealthyStep(c)
           \/ StopBegin(c) \/ StopExited(c) \/ StopGiveUp(c)
  BY <1>2, <1>8 DEF ReloadLock, ReloadBaseline, WaitHealthyStep, PollNotRunning,
                    PollAsk, PollAnswered, PollUnanswered, PollJudged, PollNoSocket, StopBegin,
                    StopExited, StopGiveUp
<1> QED
  BY <1>4, <1>5, <1>6, <1>7, <1>8 DEF CallerStep

\* So it does in the steps that are nobody's request, none of which signals it.
LEMMA WorldDrifts ==
  ASSUME IInv,
         \/ BootStart \/ BeginShutdown
         \/ \E c \in Callers, o \in {"reload", "restart"} : Request(c, o)
         \/ \E i \in Children : Watch(i) \/ MasterExits(i)
         \/ MasterForks \/ WorkerReady \/ WorkerFails \/ UNCHANGED vars
  PROVE  Drifts /\ UNCHANGED reloadMu /\ (master'.usr2 => master.usr2)
<1>0. TypeOK
  BY DEF IInv
<1>1. ASSUME UNCHANGED <<cmd, child, sock, haproxyVars>>
      PROVE  Drifts /\ (master'.usr2 => master.usr2)
  BY <1>0, <1>1, StillDrifts DEF haproxyVars
<1>2. CASE BootStart
  <2>1. CASE NoLaunch
    BY <1>1, <1>2, <2>1 DEF NoLaunch, BootStart
  <2>2. CASE Launch
    <3>1. ~master'.usr2
      BY <2>2 DEF Launch, NewMaster
    <3>2. ~RunningLocked
      BY <1>2 DEF IInv, BootIsFirst, BootStart, At, RunningLocked
    <3> QED
      BY <1>2, <2>2, <3>1, <3>2, LaunchDrifts DEF BootStart
  <2> QED
    BY <1>2, <2>1, <2>2 DEF BootStart
<1>3. CASE \/ BeginShutdown \/ UNCHANGED vars
           \/ \E c \in Callers, o \in {"reload", "restart"} : Request(c, o)
  BY <1>1, <1>3 DEF BeginShutdown, vars, goVars, Request
<1>4. ASSUME NEW i \in Children, Watch(i) \/ MasterExits(i)
      PROVE  Drifts /\ UNCHANGED reloadMu /\ (master'.usr2 => master.usr2)
  <2>1. PICK v \in {"zombie", "reaped"} :
          /\ v = "reaped" => child[i] = "zombie"
          /\ child' = [child EXCEPT ![i] = v]
    BY <1>4 DEF Watch, MasterExits
  <2>2. /\ child[i] \in {"up", "zombie"} /\ UNCHANGED <<cmd, sock, forks, lastFailed, reloadMu>>
        /\ master' \in {master, NoMaster}
    BY <1>4 DEF Watch, MasterExits, haproxyVars
  <2>3. master'.usr2 => master.usr2
    BY <2>2 DEF NoMaster
  <2> QED
    BY <2>1, <2>2, <2>3, EndingDrifts
<1>5. CASE MasterForks \/ WorkerReady \/ WorkerFails
  <2>1. UNCHANGED reloadMu
    BY <1>5 DEF MasterForks, WorkerReady, WorkerFails, goVars
  <2>2. master \in MasterType
    BY <1>0, Numbers
  <2>3. master'.usr2 => master.usr2
    BY <1>5, <2>2 DEF MasterForks, WorkerReady, WorkerFails, MasterType
  <2> QED
    BY <1>0, <1>5, <2>1, <2>3, MasterDrifts
<1> QED
  BY <1>2, <1>3, <1>4, <1>5

(***************************************************************************)
(* Every step keeps every trace, and every answer is justified.            *)
(***************************************************************************)

LEMMA CallerTraced ==
  ASSUME IInv, TypeOK', NEW c \in Callers, Traced(c), CallerStep(c)
  PROVE  Traced(c)' /\ Told(c)
<1>1. TypeOK /\ Drifts
  BY CallerDrifts DEF IInv
<1>2. CASE ReloadLock(c) \/ ReloadCheck(c) \/ ReloadBaseline(c)
  BY <1>1, <1>2, PrepareTraced
<1>3. CASE ReloadSignal(c)
  BY <1>3, SignalTraced
<1>4. CASE WaitHealthyStep(c)
  BY <1>4, PollTraced
<1>5. CASE StopBegin(c) \/ StopExited(c) \/ StopKill(c) \/ StopGiveUp(c) \/ RestartStart(c)
  BY <1>1, <1>5, StopTraced
<1> QED
  BY <1>2, <1>3, <1>4, <1>5 DEF CallerStep

LEMMA NextTraced ==
  ASSUME IInv, TypeOK', \A c \in Callers : Traced(c), [Next]_vars, NEW d \in Callers
  PROVE  Traced(d)' /\ Told(d)
<1>1. TypeOK /\ Traced(d) /\ Main \in Callers
  BY DEF IInv, Callers
<1>2. ASSUME Drifts, req'[d] = req[d],
             reloadMu = d => reloadMu' = d /\ (master'.usr2 => master.usr2)
      PROVE  Traced(d)' /\ Told(d)
  BY <1>1, <1>2, DriftKeepsTrace, SilentTold
<1>3. ASSUME NEW c \in Callers, CallerStep(c) PROVE Traced(d)' /\ Told(d)
  <2>1. CASE c = d
    BY <1>1, <1>3, <2>1, CallerTraced
  <2>2. CASE c # d
    <3>1. Drifts /\ (master'.usr2 => master.usr2 \/ req[c].pc = "signal")
      BY <1>3, CallerDrifts
    <3>2. req'[d] = req[d]
      BY <1>1, <1>3, <2>2, CallerMoves DEF Moves
    <3>3. ASSUME reloadMu = d PROVE reloadMu' = d /\ req[c].pc # "signal"
      <4>1. reloadMu' = d
        BY <1>3, <2>2, <3>3, MutexKept
      <4>2. req[c].pc = "signal" => reloadMu = c
        BY DEF Traced, ReloadTraced
      <4> QED
        BY <2>2, <3>3, <4>1, <4>2
    <3> QED
      BY <1>2, <3>1, <3>2, <3>3
  <2> QED
    BY <2>1, <2>2
<1>4. ASSUME NEW c \in Callers, NEW o \in {"reload", "restart"}, Request(c, o)
      PROVE  Traced(d)' /\ Told(d)
  <2>1. CASE c = d
    BY <1>1, <1>4, <2>1, BeginTraced
  <2>2. CASE c # d
    <3>1. req'[d] = req[d]
      BY <1>1, <1>4, <2>2 DEF Request, TypeOK
    <3>2. Drifts /\ UNCHANGED reloadMu /\ (master'.usr2 => master.usr2)
      BY <1>1, <1>4, WorldDrifts
    <3> QED
      BY <1>2, <3>1, <3>2
  <2> QED
    BY <2>1, <2>2
<1>5. CASE BootStart \/ BeginShutdown
  <2>1. Drifts /\ UNCHANGED reloadMu /\ (master'.usr2 => master.usr2)
    BY <1>1, <1>5, WorldDrifts
  <2>2. CASE d = Main
    BY <1>1, <1>5, <2>1, <2>2, MainTraced
  <2>3. CASE d # Main
    <3>1. req'[d] = req[d]
      BY <1>1, <1>5, <2>3 DEF BootStart, BeginShutdown, TypeOK
    <3> QED
      BY <1>2, <2>1, <3>1
  <2> QED
    BY <2>2, <2>3
<1>6. CASE \/ MasterForks \/ WorkerReady \/ WorkerFails \/ UNCHANGED vars
           \/ \E i \in Children : Watch(i) \/ MasterExits(i)
  <2>1. UNCHANGED req
    BY <1>6 DEF MasterForks, WorkerReady, WorkerFails, Watch, MasterExits, vars, goVars
  <2>2. Drifts /\ UNCHANGED reloadMu /\ (master'.usr2 => master.usr2)
    BY <1>1, <1>6, WorldDrifts
  <2> QED
    BY <1>2, <2>1, <2>2
<1>7. CASE ControllerExit
  <2> DEFINE r == Fresh("done", "none")
  <2>1. req'[d] = r
    BY <1>7 DEF ControllerExit
  <2>2. /\ r.op = "none" /\ r.pc = "done" /\ r.pid = 0 /\ r.fresh = {} /\ ~r.clean
        /\ r.verdict = "none" /\ ~r.expectReload
    BY DEF Fresh
  <2> HIDE DEF r
  <2>3. 0 <= cmd'
    <3>1. cmd' \in 0..MaxStarts
      BY DEF TypeOK
    <3> QED
      BY <3>1, BoundsAssumption
  <2>4. Traced(d)'
    BY <2>1, <2>2, <2>3 DEF Traced, RestartTraced, ReloadTraced, HealthPoints
  <2> QED
    BY <2>1, <2>2, <2>4 DEF Told, Verdict
<1> QED
  BY <1>3, <1>4, <1>5, <1>6, <1>7 DEF Next

LEMMA InitTraced ==
  ASSUME Init, NEW c \in Callers
  PROVE  Traced(c)
<1> DEFINE p == IF c = Main THEN "boot" ELSE "idle"
<1>1. req[c] = Fresh(p, "none") /\ p \in {"boot", "idle"} /\ cmd = 0
  BY DEF Init
<1> HIDE DEF p
<1>2. /\ req[c].op = "none" /\ req[c].pc = p /\ req[c].pid = 0 /\ req[c].fresh = {}
      /\ ~req[c].clean /\ ~req[c].expectReload
  BY <1>1 DEF Fresh
<1> QED
  BY <1>1, <1>2 DEF Traced, RestartTraced, ReloadTraced, HealthPoints

\* What every request remembers stays true of HAProxy, whatever the other requests,
\* the watchers and HAProxy itself do between its steps.
THEOREM TracesHold == Spec => [](\A c \in Callers : Traced(c))
<1> DEFINE TInv == \A c \in Callers : Traced(c)
<1>1. Init => TInv
  BY InitTraced
<1>2. IInv /\ TypeOK' /\ TInv /\ [Next]_vars => TInv'
  BY NextTraced
<1> QED
  BY <1>1, <1>2, InductiveInvariant, TypeCorrect, PTL DEF Spec

\* Every answer a handler is given is justified by what HAProxy did meanwhile.
LEMMA AnswersJustified == Spec => [][\A c \in Handlers : Told(c)]_vars
<1> DEFINE TInv == \A c \in Callers : Traced(c)
<1>1. IInv /\ TypeOK' /\ TInv /\ [Next]_vars => \A c \in Handlers : Told(c)
  BY NextTraced DEF Callers
<1>2. Spec => []TInv
  BY TracesHold
<1> HIDE DEF TInv
<1> QED
  BY <1>1, <1>2, InductiveInvariant, TypeCorrect, PTL DEF Spec

\* A reload reported as a success is served by a worker forked after its signal and
\* past its start-up (waitHealthy), or its master has ended since it gave its last
\* answer, however the three steps of a poll interleave with signals, forks, failures,
\* restarts and crashes, for any number of requests.
THEOREM SuccessServed == Spec => SuccessIsServed
<1>1. (\A c \in Handlers : Told(c)) =>
        \A c \in Handlers :
          Verdict(c, "ok") /\ req[c].expectReload /\ req[c].clean
            => \/ \E w \in master.workers : w > req[c].since /\ w \notin master.starting
               \/ AnswererGone(req[c])
  BY DEF Told, Justified
<1> QED
  BY <1>1, AnswersJustified, PTL DEF SuccessIsServed

\* A reload refused because a worker could not start saw one fail after its own
\* signal: the failures counted in the baseline are never held against it.
THEOREM RefusalReal == Spec => RefusalIsReal
<1>1. (\A c \in Handlers : Told(c)) =>
        \A c \in Handlers :
          Verdict(c, "refused") /\ req[c].expectReload /\ req[c].clean
            => lastFailed > req[c].since
  BY DEF Told, Justified
<1> QED
  BY <1>1, AnswersJustified, PTL DEF RefusalIsReal

\* A restart reported as a success has replaced the master it found, even when a
\* reload or a crash and another start came in between.
THEOREM RestartHasReplaced == Spec => RestartReplaces
<1>1. (\A c \in Handlers : Told(c)) =>
        \A c \in Handlers :
          Verdict(c, "ok") /\ req[c].op = "restart" => cmd > req[c].since
  BY DEF Told, Justified
<1> QED
  BY <1>1, AnswersJustified, PTL DEF RestartReplaces
=============================================================================
