# A verification model of haproxy-controller

haproxy-controller is a control panel for HAProxy: a Go program that keeps the
desired proxy configuration in SQLite, renders it to `haproxy.cfg`, checks it,
puts it live, and runs HAProxy as its child (or drives it through commands of
the host). These modules model the parts of it where steps interleave, fail or
race, check them with TLC on small instances, and prove their safety properties
with TLAPS for every instance.

## Inventory

| component | code | state it keeps | operations |
|---|---|---|---|
| process supervisor | `internal/hap/supervisor.go` | the child (`cmd`, `exited`), the mutexes `mu` and `reloadMu`, the output ring | Start, Reload, Restart, Shutdown, Status, `watch` |
| deployer | `internal/hap/deploy.go`, `validate.go`, `process.go` | `haproxy.cfg`, error pages, certificates, backups; no lock | Apply, Rollback, Reload, Restart, Preview |
| version log | `internal/store/versions.go` | table `config_versions` | AddVersion, MarkVersion, TrimVersions, GetVersion |
| renderer | `internal/hap/render*.go`, `previewer.go` | none | Render (database to text) |
| runtime client | `internal/hap/runtime.go` | none (HAProxy's stats socket) | statistics, SetServerState |
| configuration store | `internal/store/{frontends,backends,routing,errorpages,certs,snippets,settings}.go`, `internal/db` | frontends, binds, backends, servers, domains, ACLs, rules, pages, certificates, settings | Save/Delete of each, MoveRule, reference checks, migrations |
| accounts and sessions | `internal/store/{users,sessions,bootstrap}.go`, `internal/web/{handlers_auth,handlers_admin,middleware}.go` | users with failure counter and lock, sessions | login, logout, password change, user administration, purge |
| audit log | `internal/store/audit.go` | table `audit_log` | Audit, ListAudit, TrimAudit |
| panel listener | `internal/web/server.go`, `internal/config/config.go` | listener, rebind signal, configuration file | Run, Rebind, settings |
| assistant | `internal/ai/*`, `internal/store/chat.go`, `internal/web/handlers_assistant.go` | chat history, state of one run | agent loop, tools on the store, transcript |
| handlers and pages | `internal/web/handlers_*.go`, templates | none | forms to store calls |
| main | `cmd/haproxy-controller/main.go` | none | boot, housekeeping, shutdown |
| packaging, vendored HAProxy | `scripts/`, `docker/`, `systemd/`, `third_party/` | - | - |

How they interact. A browser request runs in a goroutine of its own. Handlers
call the store (one SQL statement or transaction per call, so a handler that
reads and then writes can be interleaved), the deployer and the runtime client.
The deployer reads the store, writes files and calls a process manager; in a
container that is the supervisor, which signals HAProxy and polls its master
CLI. One goroutine per child waits for it. `main` boots HAProxy, serves the
panel and shuts HAProxy down when the panel has stopped.

What is hard, and what makes each component correct:

- *Supervisor.* HAProxy can die, refuse a configuration or fall silent between
  any two steps; reloads, restarts, a shutdown and the watchers interleave. It
  is correct if it never loses a HAProxy it started, if what it says about a
  reload or restart is true, and if every request ends.
- *Deployer.* A deployment writes to a database, three directories and a
  process, without a lock or a transaction. It is correct if nothing unchecked
  goes live, success means loaded, a failure is undone, the version log matches
  the file, and the overwritten file can be found in the backups.
- *Accounts.* Concurrent requests check and then act. It is correct if an
  administrator always remains, no failure that was recorded escapes the lock-out,
  and a password change ends the other sessions.
- *Configuration store.* References between rows and the order of rules must
  survive concurrent edits; nothing a frontend uses may be deleted under it.
- *Listener.* The panel must stay reachable over a rebind, and no bind of
  HAProxy may take its port.
- *Assistant.* What it reports as validated must be what it last changed.
- *Renderer.* A file of lines that are tried in order must send each request where
  the rows, with their own order, say.

`PROJECT.json` lists each hazard at its line with the property that covers it.

## Plan

Done, in this order:

1. `Supervisor` with `MCSupervisor` and `SupervisorProofs`.
2. `Deployer` with `AtomicDeploy` (what a deployment promises an operator who
   works alone), `DeployerAtomic` (the refinement), `MCDeployer`,
   `MCDeployerSolo`, `DeployerProofs` and `DeployerAtomicProofs`.
3. `Accounts`, `Topology`, `Listener`, `Assistant`, each with its MC module and
   its proofs: the parts of the panel that check and then act on a database, or
   a file, that others change.
4. `Routing` with `MCRouting` and `RoutingProofs`: the renderer as a function of
   the rows, read back as HAProxy reads the file.

Left:

- Pure algorithms that only choose words or numbers on a page: the output ring
  buffer's `Since`, `parseShowProc`, the statistics of the runtime client.

The modules meet where the components do. `Topology` has the renderer's reads
and `Routing` what it writes; `Deployer` publishes what was rendered;
`Supervisor` (or commands) is the `ProcessReload` of `Deployer`; the tools of
`Assistant` are actions of `Topology`; `Listener` has the bind lines that
`Topology` only counts.

## The supervisor: `Supervisor.tla`

A behaviour has any number of requests (`Handlers`), each of which reloads or
restarts HAProxy once (`Offered` says which of them it may ask for), the goroutine
`Main`, one watcher for each child, and HAProxy itself. An action is one critical
section of `mu` or one system call made outside it; a turn of the polling loop of
`waitHealthy` is three: the look at the process (`PollAsk`), the answer to
`show proc` (`PollAnswered`), which is read to its end, and the verdict
(`PollJudged`). HAProxy may die, or be stopped by another request, between them.

| variable | code |
|---|---|
| `cmd`, `child` | `s.cmd` with its `exited` channel; every child ever started has a number. "zombie" has ended and is not waited for yet, "reaped" has its channel closed |
| `reloadMu` | `s.reloadMu`; `mu` is never held across an action |
| `req` | the local variables of each caller: `pid`, `baseline`, `fresh`, `settled`, the polls left until the deadline, the last answer (`seen`); `by` (which master gave it), `since` and `clean` are history |
| `sock` | whether a master socket is configured |
| `master`, `forks`, `lastFailed` | external: what `show proc` would list, which workers are still starting, the failed-reload counter, and a SIGUSR2 not handled yet |

Reload is `ReloadLock`, `ReloadCheck`, `ReloadBaseline`, `ReloadSignal` and then
`WaitHealthyStep`; Restart is `StopBegin`, `StopExited` or `StopKill` and
`StopGiveUp`, `RestartStart` and then `WaitHealthyStep`; `BootStart`,
`BeginShutdown` and `ControllerExit` are `main`. A query of the master CLI is
answered with the present state or not at all (an error, a timeout); a client
may leave in any poll.

HAProxy is modelled from what `waitHealthy`'s comments and tests say of it: the
master forks at once and lists the new worker, learns a little later whether it
started, and may or may not list the old one meanwhile. One timing assumption is
made, `SettleCoversStart`: the settle window of 2.5 s is longer than the second
or so a worker needs to fail. The code relies on exactly that.

Not modelled: the log, `lastErr` and `stopped` (they choose words only), the
output buffer, the reuse of process ids by the system.

Properties:

- `NoStrayMaster`: a child alive or not reaped is the one `s.cmd` points to.
- `SuccessIsServed`, `RefusalIsReal`: a reload reported good is served by a
  worker forked after its signal, and "could not start a worker" is said only
  when one failed. Both are about reloads whose baseline was answered with no
  earlier reload pending; the code drops the error of the baseline query
  (`supervisor.go:183`), and without that condition both are false. A success may
  still be told of a master that ended between its last answer and the verdict
  (`AnswererGone`), and of no other.
- `RestartReplaces`: a restart reported good ended with another master than it
  began with.
- `RequestsEnd` (liveness): every reload, restart and shutdown returns.
- `OneReloadAtATime`: the comment at `supervisor.go:161`. Violated.

Fairness, for `RequestsEnd` only: each caller's next step (the Go scheduler
runs runnable goroutines, and timers expire), the watchers as a group, HAProxy
handling SIGUSR2, and HAProxy learning whether a worker starts. Nothing makes
requests arrive, clients leave, HAProxy crash or answer, or the controller end.

## The deployer: `Deployer.tla`

A configuration is a value of `Contents`: the state of the database and the text
rendered from it. `FilesOf` gives the error pages and certificates it names, and
`Valid` is what `haproxy -c` accepts when those files exist. Every request is a
process; an action is one store call, one file operation or one call of the
process manager, in the order of the code.

| variable | code |
|---|---|
| `db` | the configuration tables |
| `cfg`, `files`, `backups` | `haproxy.cfg`, the error page and certificate directories, the backup directory (oldest first) |
| `versions` | `config_versions` by id; a trimmed row has status "deleted" |
| `running` | external: the configuration HAProxy serves |
| `req` | the local variables of Apply and Rollback: content, staged files, `previous`, the version id |
| `checked`, `loaded`, `answer` | history: what the check accepted; whether HAProxy loaded after this request's write; what the good answer to its reload was worth |

With `Faults`, every call on the file system or database may fail (a read, a write,
a removal), also half-way through a directory, and the controller may be killed between any two
steps. With or without it, the process manager may answer a reload wrongly:
as failed although HAProxy loaded the file, as good although HAProxy is dead, or
as good although HAProxy is alive on its old configuration. That last answer is
one a reload command gives that exits 0 (`process.go:50`), and the supervisor
without a master socket or after a baseline that was not answered. `README.md:280-285`
says that the controller watches the master until a new worker has taken over "and
treats anything else as a failed apply"; that holds of the supervised manager with
an answered baseline, and only there. A reload can always be refused, since the check cannot see the host's
addresses and ports. With `EditsInFlight` the database changes during a
deployment, so what was rendered, staged and published may differ.

Properties:

- `OnlyCheckedIsLive`: "a bad config never reaches the live directories",
  including by Rollback, by the undo, and across crashes.
- `SuccessWasLoaded`: Apply says success only if HAProxy loaded the file after
  this request had written its content, or was found alive after a good answer
  nothing had confirmed (`answer` is "unconfirmed").
- `SuccessIsConsistent`: for one operator at a time, after a success the newest
  applied version is the file; after a true answer, HAProxy serves it or is down,
  and it would load.
- `OverwrittenIsBackedUp`: the file just overwritten is the newest backup.
- `DeploysAtomically`: `Deployer` with one request at a time implements
  `AtomicDeploy`, in which file and log change in one step for each request.
  Until a request returns, the abstract file is the one it found.
- `RestoredConfigLoads`: what the panel and the README say of the undo. Violated.

`DeployerAtomic` assumes what "works alone" means (`SoloAssumption`): one handler,
no failing call of the file system or database, no edit during a deployment. The
process manager is not assumed to tell the truth.

Concurrent deployments keep `OnlyCheckedIsLive` and `SuccessWasLoaded` only.
The log and the file may then disagree, since a failing Apply puts back the file
it read over the success of another; nothing in the code serialises them.

## Accounts and sessions: `Accounts.tla`

Every request is a process, every call of the store an action. A login is
`BeginLogin`, then `CountRead` and `CountWrite` (the two statements of
`RegisterFailedLogin`) or `IssueSession` and `RegisterSuccessfulLogin`. Any other
request is `LookupSession`, `LoadUser`, `TouchSession`, and then the statements
of its handler in order.

| variable | code |
|---|---|
| `users`, `created` | table `users` and its id counter; a password stands for its hash; `lock` is "expired" when `locked_until` has passed |
| `sessions`, `issued` | table `sessions`; `knows` and `excused` are history |
| `req` | where a request is, and what it has read: the row, the form, the counter |
| `counted`, `raced` | history: failures committed since the counter was last cleared; an account changed between the check and the write of another request |

SQLite aborts a transaction whose snapshot is stale when it first writes, so
`CountWrite` commits only if nobody has written since `CountRead`; the handler
drops the error, and that failure goes uncounted. Time is a flag: `LockEnds`,
`SessionEnds`. The calls whose failure ends the request are taken to fail or not
(`CallFails`). So are the deletions of sessions after a password change, a reset or
a change of role, whose error the handlers drop (`handlers_auth.go:206`,
`handlers_admin.go:120`, `126`): the sessions stay, and the request goes on.

- `AdminRemains`: an active administrator is left, unless requests about
  accounts overlapped (the code counts and then writes).
- `FailuresLock`: the committed failures since the last clearing never reach the
  limit without a lock; no interleaving loses one.
- `SessionsKnowPassword`: a session made with another password than the present
  one was being issued during the change, is about to be ended, or was left by a
  deletion that failed or that the end of the program has cut. "Changing a password
  or a role invalidates that user's other sessions" (`README.md:446`) is not true of
  that last way.
- `EndedForGood`: no session returns, in particular not by `TouchSession`.

## The proxy configuration: `Topology.tla`

`db` holds seven tables by id, `last` the AUTOINCREMENT counters. `Cascades` and
`SetsNull` are the schema's ON DELETE clauses, and `Save` refuses what its
constraints refuse. A form is one action (`Edit`); who reads first is a worker:
the delete of a backend (`AskFrontends`, `AskDomains`, `BackendDelete`), a move of
a rule (`BeginMove`, `MoveRule`), a tool of the assistant (`ResolveNames`,
`ToolSaves`), the renderer (`ListFrontends`, `ListBackends`, `RenderFrontend` for
each frontend, `RenderBackends`).

- `EveryRouteLeads`: only a reference made between check and delete, or a check
  that failed, can leave a route without backend and redirect (`raced`).
- `RenderedReferencesResolve`: with any edit between the queries, each backend
  the text names has its section. It holds because the names are taken from the
  one list of backends the sections are made from.
- `NewOwnersStartEmpty`: ACLs and rules left behind by a deleted owner (or saved
  for it later) never join a new one. It holds because ids are not reused.
- `MoveSwaps`: a move exchanges two neighbours and keeps the rest of the order.
- `ToolKeepsFrontend`: `set_default_backend` changes nothing else of the row.

The rows at the start are any that satisfy the schema, have owners that were
given an id, and routes that lead somewhere (`StartAssumption`): a database that
was only ever filled by this program.

The last two are about workers whose rows nobody changed since they read them;
otherwise the code overwrites the newer rows, and promises nothing.

## The panel's listener: `Listener.tla`

| variable | code |
|---|---|
| `cfg` | the `Config` in memory: listener and secret |
| `disk`, `cells` | `controller.json` and `.tmp` as names of files, and the files; a writer keeps its file when the name is renamed away |
| `panel`, `token` | where `Run` is and what it listens on; the channel `rebind` |
| `bind` | one bind line of HAProxy, and whether its frontend is enabled |
| `req` | the requests, and `Main` while it boots |
| `unannounced`, `overlapped`, `around`, `sealed` | history: a change without a rebind; two saves at once; a collision by a way without a check; the secret last served with |

`Save` is `Marshal`, `OpenTmp`, `WriteTmp`, `Rename`; each file operation may fail, and the
program may be killed between any two. `Run` is `RunListen`, `RunTLS`,
`TakeRebind`, `Closed`, or `ServeEnds`.

- `RebindNotLost`, `PanelMoves` (liveness): while the panel serves another
  listener than the configured one, a rebind is pending or coming; and the panel
  does move, or its program ends because the new one does not work. Not after a
  form whose save failed: the change stays in memory and nobody asks for a rebind.
- `PanelKeepsPort`: the port of the settings goes to HAProxy only by a way without
  a check (enabling a frontend, a bind line of the assistant, `HC_LISTEN_PORT`) or
  when both changed at the same time. The port the panel serves goes to it in one
  more case (`Announced`): while the panel serves another listener than the settings
  name, before its rebind, or for good after a save that failed (`UpdateListener`
  keeps the change in memory, `config.go:328-335`). The checks look at the settings
  alone, and "the panel refuses to hand HAProxy a port the panel itself is listening
  on" (`README.md:451`) says more than they do.
- `FileIsWhole`: what a start of the program finds is a whole configuration,
  unless two saves overlapped: both write the same `.tmp`.
- `SecretStable`: two starts never serve with two secrets.

Fairness, for `PanelMoves` only: the loop of `Run`, a save of `main`, and each
request that has begun (the Go scheduler runs what can run, and `Shutdown` gives
up after ten seconds). No fairness is assumed for forms, starts or kills.

## The assistant: `Assistant.tla`

A turn is one message and its answer: `GetConversation`, `LoadAIConfig`,
`BuildTranscript`, then `ModelAnswers` with its tool calls (`ToolWorks`,
`ToolFails`) up to `MaxSteps` times, `SafetyNet`, and the three writes
`StoreUser`, `StoreReply`, `SetConversationTitle`. The model is external: it
asks for any tools in any order, wrongly or not at all. Of the configuration only
whether it passes the check is kept (`sound`); tools and operators change it at will.

A check is not one moment. `BeginPreview` starts to read the tables, `Render` makes
the file, and `haproxy -c` runs on it in the step that takes the verdict (`Checked`,
in a `validate_config` call or in `SafetyNet`). Edits of others while the tables are
read give a file that may pass or not, whatever the configuration; edits later are not
in it. Either way the answer's `disturbed` is set, and cleared by the next check.

- `ChangesAreTold`: a turn that changed something says so.
- `ReadyWasChecked`: an answer that says changed and valid, with nobody else editing
  since its last check began, goes with a configuration that passes, unless its model
  called `validate_config` itself and changed something with no check after it.
- `NeverToldBroken`: the same without the exception, as `agent.go:139` and
  `README.md:145-147` have it. Violated.
- `TurnsStayTogether`: a chat is question and answer in turn, named after its
  first question, unless turns overlapped in it or a message or its title could
  not be stored.

A message stands for the title made of it, and the table of messages is kept as
one log for each conversation; a message that reads "New conversation" is left
out (`TitlesAssumption`), since after it the code names the chat a second time.

## Rendering and routing: `Routing.tla`

`Render` is a function of the rows (`config`) to a sequence of sections (`file`)
and warnings; the only choice is the order of rows that sort alike. `Answer` is
HAProxy on the file: the first `http-request` that acts, then the first
`use_backend`, then the default. `Intended` says the same of the rows, in terms
of hostnames, paths and their order, and knows nothing of ACLs; that redirects go
before backends it takes from the code ("redirects, which must precede routing
decisions", `render_proxy.go:146`). `FirstDecides` reads the order of the routes as
the form of a route explains it, one list for redirects and backends.

Each loop of the renderer over rows that passes over the disabled ones is a
`Written`; `RenderFrontend` joins those of a frontend in the order of the code,
and `Content` joins the sections. `WellFormed` is the schema: the columns' types,
unique ids, and unique names of backends, so that they come in one order; routes
have no such key, and rows equal in order and hostname come in any order
(`ListDomainsByFrontend`).

- `RoutedAsStored`: for every request, HAProxy does what the rows say; and where only
  the routes have a say, the first in order decides unless a redirect of a later one
  overtakes it (`Overtaken`).
- `LowerIsMatchedFirst`: "Lower values are matched first" (`domain_edit.html:69`),
  without that exception. Violated.
- `SnippetsInPlace`: each enabled snippet of every kind is written once, in its
  section, before the proxies where it must be.
- `QuietMeansServed`: a file accepted and rendered without a warning serves each
  request that a route with a destination covers.

Only frontends in HTTP mode are judged. Operator ACLs, conditions other than
"over TLS or not", and the free text of frontends are left out.

## Runs

| run | checks | bounds |
|---|---|---|
| `supervisor` | type, `NoStrayMaster`, `SuccessIsServed`, `RefusalIsReal`, `RestartReplaces`, `RequestsEnd` | `Main` and 2 requests, one that reloads and one that reloads or restarts; 3 masters, 3 workers; settle 1 poll, deadline 1 |
| `overlapping_reloads` | `OneReloadAtATime`, violated | the same with 2 masters |
| `deploy_concurrent` | type, `OnlyCheckedIsLive`, `SuccessWasLoaded` | 2 requests at a time, 3 begun or crashes in all; 2 configurations, one with a certificate and one with an error page; the check refuses either when its files have changed since it was rendered, or cannot be run |
| `deploy_solo` | `SuccessIsConsistent`, `OverwrittenIsBackedUp`, `DeploysAtomically` | 1 request at a time, 5 in all; 3 configurations, one the check refuses; no failing calls, any answers; 2 versions and 2 backups kept |
| `accounts` | type, `AdminRemains`, `FailuresLock`, `SessionsKnowPassword`, `EndedForGood` | 2 requests at a time, 3 begun in all; 2 administrators at first and 3 accounts, 3 sessions; 2 failures lock |
| `topology` | type, `EveryRouteLeads`, `RenderedReferencesResolve`, `NewOwnersStartEmpty`, `MoveSwaps`, `ToolKeepsFrontend` | 2 edits, 2 workers; 1 frontend, 2 backends, 1 route and 2 rules at first |
| `listener` | type, `RebindNotLost`, `PanelMoves`, `PanelKeepsPort`, `FileIsWhole`, `SecretStable` | 2 requests, 2 starts; the bind line's frontend enabled or not at first; 4 listeners to ask for, one with a bad key pair, one with no valid port |
| `assistant` | type, `ChangesAreTold`, `ReadyWasChecked`, `TurnsStayTogether` | 2 turns, 2 chats; 2 answers of the model in a turn, 1 tool call in an answer |
| `routing` | type, `RoutedAsStored`, `SnippetsInPlace`, `QuietMeansServed` | 2 routes of every kind and order over 3 hostnames, asked by 4 hosts; 1 route with every state of binds, rules, backends, servers; 2 snippets of every pair of kinds |
| `undo_restores` | `RestoredConfigLoads`, violated | 1 request at a time, 4 in all |
| `assistant_ready` | `NeverToldBroken`, violated | those of `assistant` |
| `routing_order` | `LowerIsMatchedFirst`, violated | those of `routing` |

Why the bounds are enough: two requests and the shutdown meet every pair of them but
two restarts at once, whose critical sections are those of a restart and the
shutdown; three masters let a crash or restart happen inside another request; three
workers give a first one and a new one for each of two reloads. A deadline of one
poll lets a request look twice: see nothing or a new worker, then that worker
settled. Five deployments trim both versions and backups and roll
back to a trimmed, a failed and a rolled-back version. The limits of the code
(20 backups, at least 5 versions) are constants here so that they are reached.

Two requests are enough for the races of the panel, which are all of the form
"one reads, another writes, the first writes"; three in `accounts` allow two
failures and a success, or a demotion after another. Two edits delete a row and
make another in its place. Two starts with a crash between them are what
`FileIsWhole` and `SecretStable` are about. Two model answers allow a change
after a validation and before one, and each check is read while the other turn or an
operator edits. Whether a route takes a request from another
is a matter of two routes; the hostnames include a suffix that is not at a dot.

Deadlock is not checked: every run ends where its requests are used up.
`deploy_concurrent`, `accounts`, `topology` and `assistant` treat their requests as
interchangeable, and `accounts` its passwords (no property names one, and none
of these runs is about liveness).

## Proofs

The theorems hold for any number of requests and every value of the constants
that satisfies the named assumptions of the component's module
(`CallersAssumption`, `ContentsAssumption`, `BoundsAssumption`, ...). None of the
properties is inductive: each says what a request concludes, and the invariants
add what the request knows at each of its points. Each module lays its proof out
in the same way: the invariant in named parts, what a step may do to others
(`Moves`, `Carried`, `Drifts`, ...), a lemma for each step or phase, and the
theorems last. The invariants were run through TLC before they were proved.

`SupervisorProofs`. `NeverStrays` is `Spec => []NoStrayMaster`: a new master is
only started because the last is reaped, so `IInv` adds `ChildrenInOrder` (all
but the last are reaped, none after the last exists) and `BootIsFirst` (main
starts the first one without looking, because no request has begun). For the
answers (`SuccessServed`, `RefusalReal`, `RestartHasReplaced`) `Traced` says what
a request's notes mean. Between its baseline and its signal (`Quiet`) the master
lists no worker and counts no failure that the baseline lacks, as long as it is
the one to be signalled; `reloadMu` keeps others from signalling it. After the
signal (`Watching`), at the three points of a poll (`HealthPoints`), whatever the
baseline lacks came later. With an answer in hand (`Heard`) a worker that makes the
request conclude success is still there and past its start-up (`Serving`), or the
master that gave the answer has ended. A restart knows that
the master it stopped runs no more, or that a later one was started. `Drifts` is
what any step does to HAProxy; the notes survive it (`DriftKeepsTrace`).

`DeployerProofs`. `NothingUncheckedGoesLive`: the file is written with what a
request carries, so `Sound` says of each request that past its check it carries
a checked configuration, and that what it would put back is checked. `checked`
only grows, so a request stays sound while others move. `SuccessFollowsLoad`
needs `LoadsKnown`: a request that still finds HAProxy up after a good answer to
its reload has seen the load, or had an answer nothing confirmed; one whose HAProxy
was dead at the answer finds it up only through a load by somebody else.

`DeployerAtomicProofs`, for an operator who works alone. `Alone` follows the one
request through its points: what it is to write and where it came from
(`OnItsWay`), that the file to go back to is the newest backup (`BackedUp`), and
what the file, the newest log entry and, after a true answer, HAProxy are
(`Written`, `Logged`, `Serving`). From it `SuccessLeavesConsistent`, `BackupBeforeOverwrite`, and
`AtomicRefinement`: the initial states correspond, and every step is a step of
`AtomicDeploy` or leaves the abstract file and log alone. The abstract log lacks
the entry of a request in flight, so the marks made on that entry are not seen.

`AccountsProofs`. `Sound` says of a request that the counter it has read is
current unless its transaction is stale, the password it checked is current
unless a change has excused it, and the row and the count it decides by are
current unless another request has changed an account. `CountersSound` ties the
counter of a row to the failures committed. From these: `LastAdminRemains`,
`FailuresLockAccounts`, `SessionsKnow`, `SessionsStayEnded`.

`ListenerProofs`. `SaveIsAtomic` needs that a saver that is alone has the
temporary file to itself from the truncation on (`WritersAlone`, `NamesApart`);
`SecretIsStable` that a generated secret is renamed into place before it is
served with, and is from then on in memory, in every save and in every whole
file (`SecretKept`, `MainBoots`); `PortIsKept` that what a check found still
holds for a request nobody disturbed (`PortsJudged`), which gives the port of the
settings (`PortOfSettings`), and that a panel that serves another port is announced; `RebindsAreNotLost` that a
listener between `listen` and the choice of TLS is announced like one that is
served (`RebindsAnnounced`).

`AssistantProofs`. `TurnsAreHonest` says what a turn may claim at each point: a
change is told; a file read by nobody's edits disturbed passes only if the
configuration did; and "changed and valid" goes with a sound configuration, with
others' edits since the last check, or with a change after it. What the turn has
still to do settles the last case: the safety net checks it unless the model called
`validate_config`. `AnswersTellChanges` and `ReadyAnswersWereChecked` follow when
the answer is stored. `LogsStayTogether` needs that at most one turn is at work in a
conversation that is not mixed (`AloneInChat`), that its log alternates and its
last question has no answer only while that turn stores it (`LogsAlternate`), and
what the title is meanwhile (`TitlesFollow`).

`TopologyProofs`. `TypeCorrect` is the schema: every statement keeps the shape of
the rows, their references and their keys. `RoutesAlwaysLead`,
`RenderedResolves` and `ToolsKeepFrontends` need that what a worker has read
still holds of the tables unless it was disturbed (`WorkersFine`);
`NewOwnersEmpty` that owners named by ACLs and rules were given their ids before
(`OwnersGiven`). `MovesSwap` counts: an owner's rules are numbered without gaps,
and exchanging two numbers leaves such a numbering, which its order determines;
the counts are taken with bijections, and need no induction.

`RoutingProofs`. The invariant is small: the rows keep their shape, and a file
that is there is what `Content` makes of them with one of the orders the database
may return (`Rendered`). The work is in what `Content` makes. The library's
induction theorems take a predicate, so the proofs start from sets: numbers have
least elements (`Least`, from the library's theorem that the strict subset order
is well-founded on finite sets), so a set of numbers with 0 and every successor
is all of them (`Induction`), so the recursive function behind `FlattenSeq` exists
and has a place for every element of every part (`Flattened`, `Places`). From
this follow the laws the rest is built on: what a loop over rows writes
(`WrittenFacts`), which element of a joined or flattened sequence is the first of
a set (`JoinedFirst`, `FlatFirst`), and what occurs exactly once (`FlatOnce`).

- `Routed` is `Spec => []RoutedAsStored`. `NamesApart`: ACL names of two routes, or
  of host and path, never coincide, because they carry the id. Hence a route's
  ACLs hold for a request if and only if the route covers it (`CondHolds`), and
  the first line that acts is found part by part: the rate limit, the frontend's
  redirect, the first redirecting route (`RedirectsFirst`), the first rule
  (`RulesFirst`), the first serving route (`UsesFirst`), the default. The reading by
  the order of the routes alone follows from it (`IntendedIsFirst`). That an
  `http-request` of a part cannot hide one of another kind is `KindLacks`.
- `SnippetsPlaced`. A snippet's line can only be in the section of its kind
  (`WhereLines`); that section is in the file once (`SectionsOnce`), before the
  proxies (`HeadFirst`), with the line in it once (`SnippetOnce`). For
  defaults-extra the occurrences are in bijection with the enabled rows of
  defaults (`DefaultsPlaces`), which gives their number.
- `QuietServes` takes `Routed`'s answer, and what it means that there was no
  warning (`NoWarning`): no enabled route was skipped, and every backend written
  has a server.

Only model-checked:

- `RequestsEnd` and `PanelMoves`: liveness under fairness is outside what the
  prover handles.
- The four properties that are violated.

## What the runs found

1. The reload mutex does not give "one reload at a time": it is released when
   the client leaves or the deadline passes, with the reload undecided, and the
   next reload takes its baseline in between.
2. "The previous configuration was restored" is not the whole truth: the undo
   restores `haproxy.cfg` but not the error pages and certificates publication
   has pruned, and the restored file then no longer loads.
3. "The operator is never told a broken config is ready" does not hold: a
   `validate_config` call that came before the last change, or that failed
   (`agent.go:104`, `178`), keeps the safety net from checking the result.
4. "Lower values are matched first" (`domain_edit.html:69`) holds among redirects
   and among backends, not between them: the redirects of all routes come before
   every backend (`render_proxy.go:150`).

Noticed while modelling, without a run of its own:

- Not every attempt is recorded, though `README.md:287` says so: a Rollback that the
  check or HAProxy refuses leaves no version (`deploy.go:366`, `380`).
- A request that outlives the 15 seconds of `srv.Shutdown` may start HAProxy after
  it was stopped, and `main` returns with HAProxy alive, although "a container stop
  never orphans a worker" (`main.go:168-169`): `ControllerExit` is taken with a child
  up. `NoStrayMaster` says that this HAProxy is the one the supervisor knows.
- A password change or reset whose deletion of sessions fails tells nobody.
- A bind is accepted on the port the panel serves while its settings name another.
- A route of match type "exact" whose hostname starts with `*.` matches nothing.
- The hostname of a regular expression is lower-cased (`routing.go:126`), which
  changes `\S` or `\D` into their opposite.
- Two overlapping saves of the settings write one `.tmp`, and may leave a file
  the program refuses at its next start ("atomically", `config.go:338`).
- A turn that ends with an error leaves its changes staged and its chat without a
  trace of them.
- A reference check that fails lets a backend be deleted (`handlers_proxy.go:403`,
  `tools.go:619`), and it does not look at `use_backend` rules of operators.
- When rendering or staging fails, `handleApply` reads a nil result
  (`handlers_config.go:212`): the request ends in a recovered panic.

## Not modelled

- Runtime client: commands to HAProxy's socket and parsing of the answers; no
  state of the controller depends on them.
- Content handlers, and the tables of error pages, certificates, snippets, global
  and defaults: one row at a time, with nothing that refers to them by id. What
  publishing them can break is in `Deployer`, where they land in `Routing`.
- Of the renderer, the directives that tune and do not route, certificates on
  bind lines and the groups of error pages.
- The override of the secret by `HC_SESSION_SECRET`, which is the operator's to keep
  stable.
- Audit log, ring buffer, chat settings besides "configured", encryption of the
  key, CSRF and cookies: nothing else decides by them.
- HTML, templates, styles and logging; packaging scripts; the vendored HAProxy,
  which is an external process here, as are SQLite and the language model.
