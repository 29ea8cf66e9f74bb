----------------------------- MODULE Supervisor -----------------------------
(***************************************************************************)
(* The process supervisor of internal/hap/supervisor.go: HAProxy run as a  *)
(* child in master-worker mode, reloaded with SIGUSR2, stopped with        *)
(* SIGUSR1, watched by one goroutine per child.  The HTTP handlers that    *)
(* reload and restart it and the main goroutine that shuts it down are     *)
(* processes that interleave; each action is one critical section of the   *)
(* mutex mu, or one system call made outside it.                           *)
(*                                                                         *)
(* HAProxy itself (its master, its workers and what `show proc` lists) is  *)
(* external: it is modelled from how waitHealthy and its tests describe it.*)
(***************************************************************************)
EXTENDS Integers, FiniteSets

CONSTANTS
  Handlers,        \* HTTP requests: each reloads or restarts HAProxy once
  Offered,         \* [Handlers -> SUBSET {"reload", "restart"}]: what each may ask for
  Main,            \* the main goroutine: starts HAProxy, later shuts it down
  NoOne,           \* reloadMu is free
  MaxStarts,       \* bound: HAProxy masters started in one behaviour
  MaxForks,        \* bound: workers forked in one behaviour
  SettlePolls,     \* polls in the settle window of waitHealthy
  DeadlinePolls    \* polls until the deadline of waitHealthy

Callers == Handlers \cup {Main}

ASSUME CallersAssumption == Main \notin Handlers /\ NoOne \notin Callers
ASSUME OfferedAssumption == Offered \in [Handlers -> SUBSET {"reload", "restart"}]
ASSUME BoundsAssumption ==
  /\ MaxStarts \in Nat \ {0} /\ MaxForks \in Nat \ {0}
  /\ SettlePolls \in Nat \ {0} /\ DeadlinePolls \in Nat \ {0}

VARIABLES
  cmd,       \* the child last started, numbered from 1; 0 is the nil pointer
  child,     \* child[i]: "none", "up", "zombie" (ended, not waited for) or
             \* "reaped" (its watcher has closed its exited channel)
  reloadMu,  \* the caller that holds the reload mutex, or NoOne
  req,       \* req[c]: the local state of caller c
  sock,      \* a master CLI socket is configured
  exited,    \* the controller process is gone
  master,    \* what the live master lists, and the signals it has not handled
  forks,     \* workers forked so far: worker ids are numbered from 1
  lastFailed \* history: the last worker that could not start

goVars == <<cmd, child, reloadMu, req, sock, exited>>
haproxyVars == <<master, forks, lastFailed>>
vars == <<goVars, haproxyVars>>

Children == 1..MaxStarts
Workers == 1..MaxForks
ChildStates == {"none", "up", "zombie", "reaped"}
\* "refused": HAProxy "could not start a worker on the new configuration"; the
\* other errors of the code are not told apart.
Verdicts == {"none", "ok", "refused", "failed"}
Points == {"boot", "idle", "lock", "check", "baseline", "signal", "health", "asked",
           "judge", "stop", "grace", "kill", "start", "done"}

\* procState: what `show proc` tells the caller.
ProcState == [workers : SUBSET Workers, failed : 0..MaxForks]
NoProcState == [workers |-> {}, failed |-> 0]

Requests == [op : {"none", "reload", "restart", "shutdown"}, pc : Points,
             pid : 0..MaxStarts, base : ProcState, seen : ProcState, fresh : SUBSET Workers,
             polls : 0..DeadlinePolls, settled : 0..(DeadlinePolls + SettlePolls),
             expectReload : BOOLEAN, verdict : Verdicts,
             since : 0..(MaxStarts + MaxForks), clean : BOOLEAN, by : 0..MaxStarts]

Fresh(p, v) == [op |-> "none", pc |-> p, pid |-> 0, base |-> NoProcState,
                seen |-> NoProcState, fresh |-> {}, polls |-> 0, settled |-> 0,
                expectReload |-> FALSE, verdict |-> v, since |-> 0, clean |-> FALSE,
                by |-> 0]

\* What a new master lists, and what is left when the master ends.
NewMaster(w) == [workers |-> {w}, starting |-> {w}, failed |-> 0,
                 usr2 |-> FALSE, reloaded |-> FALSE]
NoMaster == [workers |-> {}, starting |-> {}, failed |-> 0,
             usr2 |-> FALSE, reloaded |-> FALSE]

TypeOK ==
  /\ cmd \in 0..MaxStarts
  /\ child \in [Children -> ChildStates]
  /\ reloadMu \in Callers \cup {NoOne}
  /\ req \in [Callers -> Requests]
  /\ sock \in BOOLEAN
  /\ exited \in BOOLEAN
  /\ master \in [workers : SUBSET Workers, starting : SUBSET Workers,
                 failed : 0..MaxForks, usr2 : BOOLEAN, reloaded : BOOLEAN]
  /\ forks \in 0..MaxForks
  /\ lastFailed \in 0..MaxForks

Init ==
  /\ cmd = 0
  /\ child = [i \in Children |-> "none"]
  /\ reloadMu = NoOne
  /\ req = [c \in Callers |-> Fresh(IF c = Main THEN "boot" ELSE "idle", "none")]
  /\ sock \in BOOLEAN
  /\ exited = FALSE
  /\ master = NoMaster
  /\ forks = 0
  /\ lastFailed = 0

(***************************************************************************)
(* The parts of the handlers.                                              *)
(***************************************************************************)

At(c, p) == ~exited /\ req[c].pc = p

RunningLocked == cmd # 0 /\ child[cmd] \in {"up", "zombie"}

\* fork+exec of the master, which forks its first worker.
Launch ==
  /\ cmd < MaxStarts /\ forks < MaxForks
  /\ cmd' = cmd + 1
  /\ child' = [child EXCEPT ![cmd + 1] = "up"]
  /\ master' = NewMaster(forks + 1)
  /\ forks' = forks + 1
  /\ UNCHANGED lastFailed

NoLaunch == UNCHANGED <<cmd, child, haproxyVars>>

\* Mutant of Return: the deferred unlock of reloadMu is forgotten.
ReturnLocked(c, v) ==
  req' = [req EXCEPT ![c] = Fresh("done", v)] /\ UNCHANGED reloadMu

\* The caller returns; Reload releases its mutex on every path.
Return(c, v) ==
  /\ req' = [req EXCEPT ![c] = Fresh("done", v)]
  /\ reloadMu' = IF reloadMu = c THEN NoOne ELSE reloadMu

WaitHealthy(c, r, base, expect) ==
  /\ req' = [req EXCEPT ![c] = [r EXCEPT !.pc = "health", !.base = base,
                                         !.expectReload = expect]]
  /\ UNCHANGED reloadMu

\* Mutant of StartLocked: it does not look whether a child is running.
StartUnchecked(c) ==
  \/ NoLaunch /\ Return(c, "failed")
  \/ Launch /\ WaitHealthy(c, req[c], NoProcState, FALSE)

\* startLocked: nothing to do when a child is running; fails when the binary or
\* the configuration file is missing.
StartLocked(c) ==
  \/ RunningLocked /\ NoLaunch /\ WaitHealthy(c, req[c], NoProcState, FALSE)
  \/ ~RunningLocked /\ NoLaunch /\ Return(c, "failed")
  \/ ~RunningLocked /\ Launch /\ WaitHealthy(c, req[c], NoProcState, FALSE)

(***************************************************************************)
(* Reload.                                                                 *)
(***************************************************************************)

Request(c, o) ==
  /\ c \in Handlers /\ At(c, "idle")
  /\ req[Main].pc = "idle"
  /\ o \in Offered[c]
  /\ req' = [req EXCEPT ![c].op = o, ![c].pc = IF o = "reload" THEN "lock" ELSE "stop"]
  /\ UNCHANGED <<cmd, child, reloadMu, sock, exited, haproxyVars>>

ReloadLock(c) ==
  /\ At(c, "lock")
  /\ reloadMu = NoOne
  /\ reloadMu' = c
  /\ req' = [req EXCEPT ![c].pc = "check"]
  /\ UNCHANGED <<cmd, child, sock, exited, haproxyVars>>

\* The critical section of mu: start HAProxy when it is not running, else take its pid.
ReloadCheck(c) ==
  /\ At(c, "check")
  /\ IF RunningLocked
     THEN /\ req' = [req EXCEPT ![c].pc = "baseline", ![c].pid = cmd]
          /\ UNCHANGED reloadMu
          /\ NoLaunch
     ELSE StartLocked(c)
  /\ UNCHANGED <<sock, exited>>

MasterUp == \E i \in Children : child[i] = "up"

\* No reload the master was asked for is still undecided.
ReloadsDecided == ~master.usr2 /\ (master.reloaded => master.starting = {})

\* The error of showProc is dropped: an unanswered query (the CLI is busy or
\* closed, the client is gone) leaves the zero procState.
ReloadBaseline(c) ==
  /\ At(c, "baseline")
  /\ \E answered \in BOOLEAN :
       /\ answered => sock /\ MasterUp
       /\ req' = [req EXCEPT ![c].pc = "signal", ![c].clean = answered /\ ReloadsDecided,
                    ![c].base = IF answered
                                THEN [workers |-> master.workers, failed |-> master.failed]
                                ELSE NoProcState]
  /\ UNCHANGED <<cmd, child, reloadMu, sock, exited, haproxyVars>>

\* kill(pid, SIGUSR2): fails once the child is reaped, is lost on a zombie.
ReloadSignal(c) ==
  /\ At(c, "signal")
  /\ \/ /\ child[req[c].pid] = "reaped"
        /\ Return(c, "failed")
        /\ UNCHANGED master
     \/ /\ child[req[c].pid] \in {"up", "zombie"}
        /\ WaitHealthy(c, [req[c] EXCEPT !.since = forks], req[c].base, TRUE)
        /\ master' = [master EXCEPT !.usr2 = @ \/ child[req[c].pid] = "up"]
  /\ UNCHANGED <<cmd, child, sock, exited,
                 forks, lastFailed>>

(***************************************************************************)
(* waitHealthy.  A turn of its polling loop looks at whether HAProxy is    *)
(* running, asks `show proc`, and judges the answer once the CLI has been  *)
(* quiet for a while: three steps, between which HAProxy can end, be       *)
(* stopped and be started again.                                           *)
(***************************************************************************)

\* Mutant of FreshNow: the workers listed before the signal count as new.
FreshAnyWorker(r, listed) == IF r.fresh # {} THEN r.fresh ELSE listed

\* What a caller takes as the workers of the new configuration.
FreshNow(r, listed) ==
  IF r.fresh # {} THEN r.fresh
  ELSE IF r.expectReload THEN listed \ r.base.workers
  ELSE listed

SettledAt(r) == IF r.fresh # {} THEN r.settled ELSE r.polls + SettlePolls

\* Mutant of Refused: the failed reloads counted before the signal count too.
RefusedEver(r) == r.seen.failed > 0

Refused(r) == r.seen.failed > r.base.failed
Vanished(r) == r.fresh # {} /\ r.seen.workers \cap r.fresh = {}
Settled(r, listed) == FreshNow(r, listed) # {} /\ r.polls >= SettledAt(r)

\* The timing waitHealthy relies on: HAProxy reports a worker that cannot start
\* before the settle window of that worker is over.
SettleCoversStart(r) ==
  Settled(r, master.workers) => FreshNow(r, master.workers) \cap master.starting = {}

PollNotRunning(c) ==
  /\ At(c, "health") /\ ~RunningLocked
  /\ Return(c, "failed")
  /\ UNCHANGED <<cmd, child, sock, exited, haproxyVars>>

PollAsk(c) ==
  /\ At(c, "health") /\ sock /\ RunningLocked
  /\ req' = [req EXCEPT ![c].pc = "asked"]
  /\ UNCHANGED <<cmd, child, reloadMu, sock, exited, haproxyVars>>

\* The master answers.  by, a history, is the master that did.
PollAnswered(c) ==
  /\ At(c, "asked") /\ MasterUp
  /\ SettleCoversStart(req[c])
  /\ req' = [req EXCEPT ![c].pc = "judge", ![c].by = cmd,
               ![c].seen = [workers |-> master.workers, failed |-> master.failed]]
  /\ UNCHANGED <<cmd, child, reloadMu, sock, exited, haproxyVars>>

\* The end of a turn without a verdict: past the deadline the caller gives up; so
\* it does when its client has left, which is noticed nowhere else; or it sleeps.
NextTurn(c, fresh, settled) ==
  \/ Return(c, "failed")
  \/ /\ req[c].polls < DeadlinePolls
     /\ req' = [req EXCEPT ![c].pc = "health", ![c].polls = @ + 1, ![c].fresh = fresh,
                           ![c].settled = settled, ![c].seen = NoProcState, ![c].by = 0]
     /\ UNCHANGED reloadMu

\* Mutant of PollUnanswered: the deadline is looked at only when the CLI answers.
PollForever(c) ==
  /\ At(c, "asked")
  /\ req' = [req EXCEPT ![c].pc = "health", ![c].polls = @ + 1]
  /\ UNCHANGED <<cmd, child, reloadMu, sock, exited, haproxyVars>>

\* An error of showProc: no master, no reply in three seconds, or no client.  A
\* connection closed without a reply is no error but lists nothing: the turn ends
\* like one without an answer, or fails when the new worker had been seen.
PollUnanswered(c) ==
  /\ At(c, "asked")
  /\ NextTurn(c, req[c].fresh, req[c].settled)
  /\ UNCHANGED <<cmd, child, sock, exited, haproxyVars>>

PollJudged(c) ==
  /\ At(c, "judge")
  /\ LET r == req[c]
         fresh == FreshNow(r, r.seen.workers)
     IN IF Refused(r) THEN Return(c, "refused")
        ELSE IF Vanished(r) THEN Return(c, "failed")
        ELSE IF Settled(r, r.seen.workers) THEN Return(c, "ok")
        ELSE NextTurn(c, fresh, IF fresh = {} THEN 0 ELSE SettledAt(r))
  /\ UNCHANGED <<cmd, child, sock, exited, haproxyVars>>

\* Without a master socket: sleep, then look at the process once more.
PollNoSocket(c) ==
  /\ At(c, "health") /\ ~sock /\ RunningLocked
  /\ Return(c, "ok")
  /\ UNCHANGED <<cmd, child, sock, exited, haproxyVars>>

WaitHealthyStep(c) ==
  \/ PollNotRunning(c) \/ PollNoSocket(c) \/ PollAsk(c)
  \/ PollAnswered(c) \/ PollUnanswered(c) \/ PollJudged(c)

(***************************************************************************)
(* stop, and the Restart and Shutdown built on it.                         *)
(***************************************************************************)

\* Main stops HAProxy when the panel has been told to end; requests still in
\* flight after the 15 seconds of http.Server.Shutdown go on running.
BeginShutdown ==
  /\ At(Main, "idle")
  /\ req' = [req EXCEPT ![Main].op = "shutdown", ![Main].pc = "stop"]
  /\ UNCHANGED <<cmd, child, reloadMu, sock, exited, haproxyVars>>

\* stop has returned without an error: Restart goes on to start HAProxy again.
Stopped(c) ==
  IF req[c].op = "restart"
  THEN req' = [req EXCEPT ![c].pc = "start"] /\ UNCHANGED reloadMu
  ELSE Return(c, "ok")

\* The SIGUSR1 sent here only asks: the master may end at any later moment.
StopBegin(c) ==
  /\ At(c, "stop")
  /\ IF RunningLocked
     THEN /\ req' = [req EXCEPT ![c].pc = "grace", ![c].pid = cmd, ![c].since = cmd]
          /\ UNCHANGED reloadMu
     ELSE IF req[c].op = "restart"
     THEN /\ req' = [req EXCEPT ![c].pc = "start", ![c].since = cmd]
          /\ UNCHANGED reloadMu
     ELSE Return(c, "ok")
  /\ UNCHANGED <<cmd, child, sock, exited, haproxyVars>>

\* Mutant of StopExited: stop returns once the signal is sent.
StopNoWait(c) ==
  /\ At(c, "grace") \/ At(c, "kill")
  /\ Stopped(c)
  /\ UNCHANGED <<cmd, child, sock, exited, haproxyVars>>

StopExited(c) ==
  /\ At(c, "grace") \/ At(c, "kill")
  /\ child[req[c].pid] = "reaped"
  /\ Stopped(c)
  /\ UNCHANGED <<cmd, child, sock, exited, haproxyVars>>

\* The grace period is over: SIGKILL to the process group.
StopKill(c) ==
  /\ At(c, "grace")
  /\ req' = [req EXCEPT ![c].pc = "kill"]
  /\ IF child[req[c].pid] = "up"
     THEN /\ child' = [child EXCEPT ![req[c].pid] = "zombie"]
          /\ master' = NoMaster
     ELSE UNCHANGED <<child, master>>
  /\ UNCHANGED <<cmd, reloadMu, sock, exited, forks, lastFailed>>

StopGiveUp(c) ==
  /\ At(c, "kill")
  /\ Return(c, "failed")
  /\ UNCHANGED <<cmd, child, sock, exited, haproxyVars>>

RestartStart(c) ==
  /\ At(c, "start")
  /\ StartLocked(c)
  /\ UNCHANGED <<sock, exited>>

\* main starts HAProxy before it serves the panel; a failure is only logged.
BootStart ==
  /\ At(Main, "boot")
  /\ req' = [req EXCEPT ![Main].pc = "idle"]
  /\ Launch \/ NoLaunch
  /\ UNCHANGED <<reloadMu, sock, exited>>

\* main returns after Shutdown: every goroutine is gone; the child, in a
\* process group of its own, is not signalled.
ControllerExit ==
  /\ At(Main, "done")
  /\ exited' = TRUE
  /\ req' = [c \in Callers |-> Fresh("done", "none")]
  /\ reloadMu' = NoOne
  /\ UNCHANGED <<cmd, child, sock, haproxyVars>>

\* watch, the goroutine of child i: Wait returns and the exited channel is closed.
Watch(i) ==
  /\ ~exited /\ child[i] = "zombie"
  /\ child' = [child EXCEPT ![i] = "reaped"]
  /\ UNCHANGED <<cmd, reloadMu, req, sock, exited, haproxyVars>>

(***************************************************************************)
(* HAProxy.                                                                *)
(***************************************************************************)

\* The master ends: asked to, or not.
MasterExits(i) ==
  /\ child[i] = "up"
  /\ child' = [child EXCEPT ![i] = "zombie"]
  /\ master' = NoMaster
  /\ UNCHANGED <<cmd, reloadMu, req, sock, exited, forks, lastFailed>>

\* The master handles SIGUSR2: it lists the worker it forks at once, and may or
\* may not still list the previous one.
MasterForks ==
  /\ MasterUp /\ master.usr2 /\ forks < MaxForks
  /\ forks' = forks + 1
  /\ \E kept \in {{}, master.workers} :
       master' = [master EXCEPT !.usr2 = FALSE, !.reloaded = TRUE,
                                !.workers = kept \cup {forks + 1},
                                !.starting = {forks + 1}]
  /\ UNCHANGED <<goVars, lastFailed>>

WorkerReady ==
  /\ MasterUp /\ master.starting # {}
  /\ master' = [master EXCEPT !.workers = @ \cap master.starting, !.starting = {}]
  /\ UNCHANGED <<goVars, forks, lastFailed>>

\* The worker of a reload cannot start: the master counts a failed reload.  (When
\* its very first worker fails the master ends: MasterExits.)
WorkerFails ==
  /\ MasterUp /\ master.reloaded /\ master.starting # {} /\ master.failed < MaxForks
  /\ master' = [master EXCEPT !.workers = @ \ master.starting, !.starting = {},
                              !.failed = @ + 1]
  /\ lastFailed' = forks
  /\ UNCHANGED <<goVars, forks>>

CallerStep(c) ==
  \/ ReloadLock(c) \/ ReloadCheck(c) \/ ReloadBaseline(c) \/ ReloadSignal(c)
  \/ WaitHealthyStep(c)
  \/ StopBegin(c) \/ StopExited(c) \/ StopKill(c) \/ StopGiveUp(c)
  \/ RestartStart(c)

Next ==
  \/ \E c \in Callers : CallerStep(c) \/ \E o \in {"reload", "restart"} : Request(c, o)
  \/ BootStart \/ BeginShutdown \/ ControllerExit
  \/ \E i \in Children : Watch(i) \/ MasterExits(i)
  \/ MasterForks \/ WorkerReady \/ WorkerFails

\* The Go scheduler runs every runnable goroutine; HAProxy handles its signals
\* and learns whether a worker started.  Nothing makes requests arrive, clients
\* leave, HAProxy crash or the controller end.
Fairness ==
  /\ \A c \in Callers : WF_vars(CallerStep(c))
  /\ WF_vars(\E i \in Children : Watch(i))
  /\ WF_vars(MasterForks) /\ WF_vars(WorkerReady \/ WorkerFails)

Spec == Init /\ [][Next]_vars
FairSpec == Spec /\ Fairness

(***************************************************************************)
(* Properties.                                                             *)
(***************************************************************************)

\* The supervisor never loses track of a HAProxy it started: a child that is
\* alive or not yet reaped is the one s.cmd points to, so there is at most one,
\* whatever reloads, restarts, crashes and watchers interleave (startLocked,
\* runningLocked, watch).
NoStrayMaster == \A i \in Children : child[i] \in {"up", "zombie"} => i = cmd

Verdict(c, v) == req[c].verdict = "none" /\ req'[c].verdict = v

\* The master that gave the answer being judged has ended since.
AnswererGone(r) == r.by # 0 /\ child[r.by] # "up"

\* A reload that is reported to have succeeded is served: with a master socket and a
\* baseline that was answered, when Reload returns a worker forked after its signal
\* is listed and past its start-up, whatever was forked, failed, stopped or started
\* while it polled (waitHealthy: the old worker still listed proves nothing).  Only
\* the end of the master between its last answer and the verdict goes unnoticed.
SuccessIsServed ==
  [][\A c \in Handlers :
       Verdict(c, "ok") /\ req[c].expectReload /\ req[c].clean
         => \/ \E w \in master.workers : w > req[c].since /\ w \notin master.starting
            \/ AnswererGone(req[c])]_vars

\* "Could not start a worker on the new configuration" is only ever said of a
\* reload during which a worker did fail to start, never of an earlier failure
\* the master still counts (the baseline taken before the signal).
RefusalIsReal ==
  [][\A c \in Handlers :
       Verdict(c, "refused") /\ req[c].expectReload /\ req[c].clean
         => lastFailed > req[c].since]_vars

\* A restart that is reported to have succeeded replaced the master that was
\* there when it began, even when a reload or a crash came in between.
RestartReplaces ==
  [][\A c \in Handlers :
       Verdict(c, "ok") /\ req[c].op = "restart" => cmd > req[c].since]_vars

InFlight(c) == req[c].pc \notin {"boot", "idle", "done"}

\* Every reload, restart and shutdown returns, however HAProxy and the master CLI
\* behave (the reload mutex, the deadline of waitHealthy, the two timers of stop).
RequestsEnd == \A c \in Callers : InFlight(c) ~> (~InFlight(c) \/ exited)

\* "One reload at a time: overlapping SIGUSR2 signals make the master's state, and
\* any judgement about it, unreliable": whoever takes a baseline of a live master
\* finds every earlier reload decided.
OneReloadAtATime ==
  [][\A c \in Handlers :
       sock /\ req[c].pc = "baseline" /\ req'[c].pc = "signal" => ReloadsDecided]_vars
=============================================================================
