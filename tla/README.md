# Agent Work OS: a TLA+ verification of its coordination core

Agent Work OS is a control plane (an API in `services/control-api`, PostgreSQL
behind it) that hands work to daemons (`runtime/daemon`) on users' machines.
A daemon runs coding agents, shipping runs and capability verifications and
reports back over a WebSocket.  The hard part is coordination: several API
processes share the database, daemons reconnect to whichever process they
reach, processes crash, every command is delivered at least once, and every
frame is handled by an async function of its own.

This directory holds the models of that core, the TLC configurations that check
them, and TLAPS proofs of what matters most.  Run inside this directory:

    tlc -workers 2 -config MCRouter.cfg MCDaemonCommandRouter.tla
    tlapm DaemonCommandRouterProofs.tla

`PROJECT.json` lists components, runs, the source lines each definition
translates, hazards, findings, theorems and, for each property, a mutated
definition that breaks it.

## 1. Inventory

| component | state | operations | what is hard | what must hold | module |
|---|---|---|---|---|---|
| durable command queue (`daemon-command-router.js`, `008_daemon_commands.sql`) | a row per command: status, owner, lease, reconciliation; per process the poll under way | enqueue, poll, acknowledge, close | every statement interleaves with other processes; leases lapse under slow ones; lost frames; crashes; rolling upgrade | a verdict is final; every command is closed; a failure is recorded before it counts as reconciled; first deliveries are in order | `DaemonCommandRouter` |
| daemon command handling (`daemon/src/index.js`, `command-receipts.js`) | latest socket, chain per connection, receipt cache, in-flight set, active runs | handle, answer duplicate, start, fetch, interrupt, reconnect, shut down | redelivery on another connection while a handler waits; a bounded cache; `send` throws while CONNECTING | work begins once while its receipt is kept; positive answers are true; one supervisor per run | `DaemonCommandHandler` |
| realtime fan-out (`realtime-events.js`, clients in `index.js`) | event table, publish queue, drain position, clients' resync state | publish, flush, retry, prune, drain, snapshot, replay, close | ids commit out of order; overflow; snapshot against live events | no client misses an event without a resync | `RealtimeFanout` |
| work items (`work-item-store.js`, `domain`) | item with version, event log | create, transition | one command twice, two writers, lost races | one effect per command id; versions and events agree | `WorkItems` |
| shipping supervisor (`shipping-*.js`) | run file, worktree, receipt | run, two repair loops, gates, receipt, reconcile | a throw or crash between external effect and record; repairs that fail | SHIPPED only for the tested tree after every gate | `ShippingSupervisor` |
| shipping run records (`store.js`, `index.js`, daemon's `runShipping`) | row per run, reports in flight | queue, report, merge, fail on refusal | several writers; reports out of order; a throw reported beside the file | SHIPPED is shown only of what shipped; the end is shown | `ShippingRuns` |
| machine credentials and presence (`identity-store.js`, `index.js`, `store.js`) | credential, machine row, socket map per process | create, rotate, revoke, hello, heartbeat, close, sweep | a close or a revocation while a hello is verified; two processes write one row | one routed connection; status follows connections | `MachineGateway` |
| sessions, verifications, agent adapters | session and verification rows, frames, child process | create, message, interrupt, event, reconcile | frames handled concurrently; refusal of a second turn; interrupt before exit | no event lost or doubled; sessions and verifications end | `AgentSessions` |
| identity (`identity-store.js`, `index.js`) | accounts, memberships, invitations, sessions, attempts, client sockets | register, login, invite, accept, upgrade, resync, logout | concurrent acceptances; two counters per login; three writers of a socket's organizations; sockets registered late | roles are granted; no password beyond the limits; logout cuts sockets; sockets follow memberships | `Organizations` |
| capability fabric (`packages/capability-fabric`, verifiers) | files of a workspace, backups, receipt | compile, assess drift, install, verify, roll back | failure half-way; edits meanwhile; two verifications at once | user content survives; a receipt means restored | `CapabilityFabric`, `CapabilityInstall` |
| capability registry (`capability-registry-store.js`) | entries in a table or a file | add, resolve, list | read, check and write of a whole file | versions unique; the newest is found | `CapabilityRegistry` |
| JSON store, HTTP parsing, framing, web app, workbench, scripts | - | - | - | - | not modelled (section 8) |

How they interact: a request handler commits a resource and its command in one
transaction; the poll of the process that holds the machine's socket leases the
row and writes a frame; the daemon answers on its current connection, wherever
that leads; a negative answer opens a reconciliation job that any process may
take, whose callback writes the failure to the session, the verification or the
shipping run; while it works the daemon sends events and reports, which the API
merges into rows; every change is published through the fan-out to web clients.

The hazards that tests hardly reach are listed in `PROJECT.json` ("hazards"),
each at its line, with the properties that cover it.

## 2. Modules

| module | models |
|---|---|
| `CommandQueue` | abstract: what the control plane promises about a command |
| `DaemonCommandRouter` | the command table and the processes that poll it |
| `DaemonCommandHandler` | one life of the daemon |
| `WorkItemJournal` | abstract: what a work item's history promises |
| `WorkItems` | rows, events and requests of the PostgreSQL repository |
| `RealtimeFanout` | how events reach the browsers of several processes |
| `ReleaseRun` | abstract: what one may rely on of a release run |
| `ShippingSupervisor` | the steps of a release run; implements `ReleaseRun` |
| `ShippingRuns` | control plane, daemon and wire around a `ReleaseRun` |
| `MachineGateway` | credentials, daemon connections, machine rows |
| `AgentSessions` | one session or verification, from request to last event |
| `Organizations` | accounts, memberships, invitations, browser sessions and sockets |
| `CapabilityFabric` | the pure algorithms of the fabric |
| `CapabilityInstall` | verifications in one workspace, file access by file access |
| `CapabilityRegistry` | additions to the registry, and resolution |
| `MC*` | small instances for TLC, some with several scenarios; `MCIdentity` holds those of `Organizations` and `MachineGateway` |
| `*Proofs` | theorems about the router, the handler, the work items, the fan-out, the supervisor, the runs, the gateway and the organizations (`IdentityProofs`), and the sessions, the registry and the installations (`VerificationProofs`) |

### 2.1 DaemonCommandRouter

Each SQL statement (or transaction) of the router is one action, as is the
callback `onAcknowledged` and each `peer.send`.  `poll[i]` holds what is on
process i's stack between two awaits: its phase, the machine ids it read when
the poll began (`roster`) and the claimed rows it has not handled (`batch`).

| code | actions |
|---|---|
| `insertDaemonCommand` in the resource's transaction | `Enqueue` |
| `#poll`: start | `PollBegins` |
| `#reconcileAcknowledgements` | `FreeLapsedJobs`, `ClaimJobs`, `NoteFailure` or `NoteFailureFails`, `CloseJob`, `JobsDone` |
| `#poll`: dispatch | `ExpireLeases`, `Claim`, `SendNext`, `NoPeerForNext`, `GiveBack`, `PollEnds` |
| a rejected statement | `PollFails` and the second disjuncts of `Claim` and `CloseJob` |
| `acknowledge` | `Acknowledge`; the trigger of migration 008 is `Trigger` |
| `close` | `CloseBegins`, `ReleaseRows`, `ReleaseJobs` |
| daemon sockets | `Connect`, `ConnectionBreaks`, `CloseNoticed` |
| process of the previous version | `OldProcessSends`, `OldProcessFails` |
| time, death | `LeaseLapses`, `JobLeaseLapses`, `Crash` |

Abstractions.  Payload and error text are dropped.  A lease is `live` until it
lapses, at any moment: processes may be slower than any lease.  `delivered`
never shrinks, so a daemon's answer may arrive at any later time, any number of
times, at any process.  `created_at` is modelled as the order of commits; two
transactions that insert concurrently may in reality commit in the other order,
but a caller that waits for its session.start before it sends a message does
not.  Which jobs `ORDER BY updated_at` claims first when there are more than a
batch is left open, and so is the order within the batch (the model takes
created_at order).  An `Enqueue` that conflicts on its command id does nothing
and is a stutter.

Fairness (`Fairness`).  Polls: the interval timer fires for ever and the
database answers.  `ReleaseRows`, `ReleaseJobs`: `close()` is one async
function.  `CloseNoticed`: TCP reports a dead peer in the end.  `Connect`: the
daemon's reconnect timer.  Lapses: time passes.  `Acknowledge` is strongly fair:
a daemon that is offered a command under lease after lease answers one in time.
No fairness is assumed of faults, shutdowns or enqueues.

### 2.2 DaemonCommandHandler

JavaScript runs a task to completion, so a handler is observable only where it
awaits something outside the process: in `fetchSession`.  External events
therefore wait for `Quiet`, the state in which every chain is empty or waiting.
`ws` is the latest connection, which all handlers share, whichever connection
their frame came from.  The control plane is any environment that delivers any
command, any number of times, in any order (`Receive`).

| code | actions |
|---|---|
| message handler, by the verdict of `begin()` | `IgnoreInFlight`, `AnswerDuplicate`, or one of the next |
| `shipping.start` | `StartShipping`, `RefuseShipping` |
| `session.start` | `StartSession` |
| `session.message`, `session.interrupt` | `FetchSession`, then `Message`, `Interrupt`, `InterruptUnavailable` or `FetchFails` |
| catch block | `Refused` |
| `connect`, open, close | `Connect`, `Opened`, `Closed` |
| end of a turn or run; `emit` that throws | `WorkEnds`, `EmitWhileConnecting` |
| `shutdown` | `Shutdown`, `Exit` |

One life only: the receipt cache is in memory, so nothing relates two lives.
`begun`, `again`, `evicted` and `acks` are history variables; no guard reads
them.  `Unusable` stands for commands whose agent or payload is missing.

Fairness: the event loop runs a chain that can move (weak), and a fetch settles
(strong, because its continuation competes with frames that keep arriving).

### 2.3 WorkItems

A slot is a request handler.  It runs one READ COMMITTED transaction, of which
each statement that may wait for another transaction, or see its commit, is an
action; `stage` says which one comes next.

| code | actions |
|---|---|
| `POST /api/work-items`, `.../transitions` | `Submit` |
| `findReplay` | `Find` |
| `create`: INSERT of the row | `InsertItem` |
| `transition`: SELECT FOR UPDATE, `transitionWorkItem`, UPDATE | `LockItem` |
| `insertEvent` | `InsertEvent` |
| COMMIT | `Commit` |
| `#replayAfterRace` | `Recheck` |
| rejected statement, broken connection, lost answer of COMMIT | `StatementFails`, `CommitUnanswered`, `RecheckFails` |
| the process dies | `Dies` |

Slots are reused for ever and keep no memory of earlier requests, so a client
may repeat a command at any time, or give its id another meaning.  Whatever the
request digest covers is one value, `ask`; organisation, actor and reason are
part of it and not spelt out.  The UPDATE after the lock touches a row that
nobody else can, and is part of `LockItem`; the COMMIT of a transaction that
only read (a replay, a missing item) is part of the read.  `Busy` is PostgreSQL's:
an INSERT waits for an uncommitted row with the same key, SELECT FOR UPDATE for
another holder of the row, and the INSERT of an event for an uncommitted event
that clashes with it.  A transaction that died has rolled back at once.
Listing and reading change nothing and are left out.

Fairness: `Step(s)` is strongly fair, because a lock is free only now and then
but PostgreSQL serves those who wait for it in turn.  Nothing is assumed of
requests or faults.

### 2.4 RealtimeFanout

The publisher and the listener of `realtime-events.js` and the client entries of
`index.js`, of any number of processes.  `log` is every event ever committed,
`Rows` the ones retention has left; a browser's `knows` is the changes its view
shows and `seen` the event id of its cursor.

| code | actions |
|---|---|
| `publish` after a state change | `Change` |
| `#flushPublishQueue`, `#persist`, `#scheduleFlush` | `Retry`, `Draw` (lock and INSERT), `Commit`; `PersistFails`, `CommitUnanswered` |
| notification, `#connectListener`, its error | `Notice`, `Listen`, `ListenerFails` |
| `#drain` | `DrainBounds`, `DrainWater`, `DrainRows`, `DrainFails` |
| `broadcastLocal`, `resyncClients` | `Sent`, `Gap` within `DrainRows` |
| WebSocket upgrade of a client | `Connect` |
| `snapshotForClient`, `finishClientResync` | `ReadCursor`, `ReadLists`, `SendSnapshot` |
| `replayAfter`, `replayClient` | `Replay`, `SendReplayed` |
| the socket ends, for any reason; the page is loaded again | `Disconnect`, `Reload` |
| `close`, `start`, death | `CloseBegins`, `CloseEnds`, `Restart`, `Dies` |
| `#pruneExpired` | `Prune` |

Abstractions.  Every change is to a resource of its own and its event carries
that resource, so a view is a set of changes.  Browsers may see every event:
tenant filters decide who is sent an event and not when.  The rows of a drain
are handled in the step that reads them, the broadcast being synchronous; its
LIMIT of 500 only cuts one step in two.  The byte cap of the publish queue acts
as the event cap does.  `event_key` is what makes `Draw` find the row it wrote
before (`written`).  Replay bounds and rows share one snapshot, hence one action.
A snapshot that fails closes the socket and is a `Disconnect`.  A process dies
with its open transaction rolled back; that the COMMIT got through is
`CommitUnanswered` followed by `Dies`.  The health flag and the encryption of
cursors are left out.

Two history variables are read by no guard: `skipped`, the ids that some process
has passed without delivering them (a retention gap, or one of the
high-water races of sections 4 and 5), and a browser's `owed`, the changes made before a refresh that passed
it over because its snapshot was under way.  `CursorsAreTrue` makes an exception
for `skipped` ids, `ChangesAreSeen` for those and for `owed` changes, and for
nothing else.

Fairness: `Publishing` is strongly fair, because the advisory lock is free only
now and then and PostgreSQL serves its waiters in turn; notifications, drains,
listener reconnects and snapshots are weakly fair, being timers or statements
that are answered.  Nothing is assumed of browsers, changes or faults.

### 2.5 ReleaseRun and ShippingSupervisor

Every shell command is one action with a boolean outcome; between any two, a
write may throw (`Throws`) or the daemon may die (`Dies`).  A tree is a number
that grows whenever the builder or a repair may have changed the worktree; a sha
is the number of the tree it was taken from.  The file of a run is the state its
last event sets, both shas, and whether the receipt is there.

| code | actions |
|---|---|
| `run` up to the builder | `Begin`, `CreateWorktree`, `Build` |
| `verifyWithRepair` | `Verify`, `Repair`, `RepairBudgetExhausted` |
| the release loop | `ResolveTested`, `PreviewDeploy`, `PreviewUat`, `ProductionDeploy`, `ProductionUat`, `ResolveDeployed`, `NoProbe` |
| release repair | `ReleaseRepair`, `ReleaseBudgetExhausted` |
| `sha.verified`, `release.shipped`, receipt, cleanup | `Certify`, `Ship`, `WriteReceipt`, `Cleanup` |
| the daemon's `finally`; `ShippingStore.reconcile` | `Settles`, `Ends`; `Reconcile` |

Validation is modelled by which parts of a contract are there (`Required`): what
the validator must guarantee is that `run()` never reaches for a missing one.
`ReleaseRun` hides the steps: it works, gives one verdict, returns or throws.
`ShippingSupervisor` implements it (`Seen`, `Release`); `ShippingRuns` uses it.
`run` is started again under its runId only after the execution before it ended.
`Reconcile` is what the store offers a starting daemon; the daemon does not call it,
so what happens to a verdict after a crash rests on the order of the writes alone.

### 2.6 ShippingRuns

| code | actions |
|---|---|
| `POST /api/shipping/runs` | `PostChecks`, `PostQueues`, `PostConflicts` |
| `shipping.start` in the daemon | `Handle`, then the steps of `ReleaseRun` (`Supervises`) |
| the 500 ms timer: load, then send | `Load`, `Publish` |
| the outcome of `run()`, and the last publish in `finally` | `ReportOutcome`, `LastPublish` |
| `updateShippingRunFromMachine` | `Apply` |
| `onAcknowledged` for `shipping.start` | `Acknowledge`, `ReconcileReads`, `ReconcileWrites` |
| the connection, the daemon | `Break`, `Connect`, `DaemonDies` |

Delivery of the command is `DaemonCommandRouter`'s business: a pending command
is handed over while there is a connection.  Reports are handled `Window` at a
time, because the API starts a task per frame.  `mishaps` (a history variable,
read by no guard) records what went wrong: a throw, a lost or reordered report,
a daemon's death, a run queued twice.  The properties except exactly those.  A
timer's load is bounded to times when the wire is empty.  No action calls
`ReleaseRun`'s `Reconcile`, because nothing in the code calls
`ShippingStore.reconcile`.

Fairness: the supervisor's commands end (each is signalled after a timeout), timers fire, the
oldest report is taken in (`Apply(1)`), the daemon reconnects, commands and
answers are delivered, and the database answers.

### 2.7 MachineGateway

| code | actions |
|---|---|
| credential routes | `CreateCredential`, `RotateCredential`, `RevokeCredential`, then `CloseRevoked` on the process that served the request |
| upgrade, `daemon.hello` | `Connect`, `Authenticate`, `Refuse`, `RegisterDaemon`, `WriteOnline` |
| a frame before the hello is through; the 5 s timer | `EarlyFrame`, `AuthTimeout` |
| heartbeat | `Heartbeat`, `WriteTouch` |
| close event | `CloseEvent`, `WriteOffline` |
| `markStaleMachines` on a timer | `Age`, `Sweep` |
| faults | `StatementFails`, `OfflineFails`, `Crash` |

A connection is `open`, `closing` (its `closed` flag is set, frames are ignored)
or `gone` (its close event ran).  A row is `fresh` until it has aged.  Two
marks on a connection are history: `late` (its close event overtook its hello)
and `missed` (its credential changed where it could not be seen).

Fairness: verification and statements are answered, timers fire, daemons send
heartbeats and time passes.  Nothing is assumed of administrators, connections
or faults.

### 2.8 AgentSessions

| code | actions |
|---|---|
| `POST /api/sessions`, `POST /api/capability-verifications` | `CreateSession`, `CreateVerification` |
| messages and interrupts | `Request` |
| the daemon's handler and the adapter's `run` | `Start`, `Refuse`, `Message`, `Interrupt` |
| the CLI's output and exit, per adapter | `Line`, `Exit` |
| the verification adapter | `VerifyCase`, `EndVerification`, `VerificationThrows` |
| `daemon.session.event` in the API, two transactions | `Receive`, `ReadSession`, `WriteSession`, `UpdateVerification`, `HandlerFails` |
| `onAcknowledged` | `ReconcileSession`, `ReconcileVerification`, `ReconcileAgain` |
| faults | `LoseFrame`, `Crash` |

Frames are kept as what their event says (`kind`); of the lines a CLI prints,
those that become a status or an error.  A CLI is taken to run one turn and to
print nothing that matters after its final line, which is what `exec` and `-p`
modes do.  `run()` may throw before it emits anything (`Throws`): a busy session, a
missing CLI, arguments or a payload that do not parse.  An interrupt signals the
child and changes nothing else here: what the child prints and how it exits stays
open, and a case that was killed after its final line still counts as it ended.
claude-code translates lines as codex does; opencode's lines and
exits are among cursor's; so the run takes codex and cursor.

Fairness: weak, of the daemon's and the API's steps taken together.

### 2.9 Organizations

A handler is a request with a program counter.

| code | actions |
|---|---|
| register, login | `StartSignIn`, `CountIp`, `CountEmail`, `Register`, `Login` |
| `createInvitation` | `StartInvite`, `CheckInvitee`, `InsertInvitation` |
| `acceptInvitation` and what its route does next | `StartAccept`, `LockInvitation`, `CommitAcceptance`, `RollBack`, `ListAfterAcceptance`, `AssignOrgs`, `ListFails` |
| upgrade of a browser | `StartUpgrade`, `ListForSocket`, `OpenSocket` |
| `resyncClients`, `snapshotForClient`, `replayClient`, `finishClientResync` | `ResyncClients`, `ListForResync`, `AssignResync`, `FinishResync` |
| logout | `StartLogout`, `RevokeSession`, `CloseSockets` |
| timers, time | `SessionTimer`, `Expire`, `ExpireInvitation`, `WindowPasses`, `Disconnect` |

Counters are kept per key: an e-mail address, and a client address under the
prefixes `register:` and `login-ip:`, each with its own limit.  The organizations a
socket carries have three writers, which list and later assign: the upgrade, the
acceptance of an invitation (for every socket of the user on its process) and the
snapshot or replay of a resync.  A resync that a process closes because a query
failed is a `Disconnect`.

`counted` and `hashed` (handlers under way that a window has counted, and the
passwords they went on to hash), `uses` of an invitation, `missed` and `behind` of a
socket are history.  `behind` holds the organizations a socket will not be told of:
those accepted on another process, those whose listing failed, and those that an older
list overwrote.  An organization is named by the user who founded it.

### 2.10 CapabilityFabric, CapabilityInstall, CapabilityRegistry

`CapabilityFabric` has no state: capabilities per harness, compiled files,
drift decision and plan, the order of versions.  A version is its core, the
precedence of its prerelease, and the place of what `split("-", 2)` leaves of the
prerelease in `localeCompare`'s order; `Compare` uses the last, as `compareSemver`
does, so `rc.2` is above `rc.10`, and what follows a second dash is cut off.

`CapabilityInstall`: a verification is a plan (harness, mode, version, size,
retain) and a program counter over its files.

| code | actions |
|---|---|
| `assertClean...` of the native verifiers | `Begin`, `Check` |
| `applyInstallPlan` | `Copy` (backup), `Digest`, `Write`, `Record`, `WriteReceipt` |
| `readInstalledArtifacts`, the test cases, the verdict | `ReadArtifact`, `RunCase`, `Judge` |
| `rollbackInstall`, started over once in the catch | `CompareFile`, `Restore`, `RollbackStops`, `Finish` |
| the user's editor; a failing access; the daemon's death | `Edit`, `Break`, `Die` |

The plans (`PlanSets`), the `Versions` and what the files hold (`Texts`) are
constants.  `mine` is what the user last wrote into a file, `clashes` the files edited
between the digest and the write of a replacement, where the code has no lock;
both are history.

`CapabilityRegistry`: one INSERT under two unique keys, or a read of the JSON
file, a check, and a snapshot put on a chain of writes.  `overlapped` is history.

## 3. Runs

| cfg | instance | what it shows |
|---|---|---|
| `MCRouter` | 2 processes and one of: 1 command and a process of the previous version; 1 command and a fault; 2 commands, no fault | `IInv` (with `ReconciledMeansNoted`), `CloseLeavesNothing`, `FirstDeliveryInOrder`, `CommandsAreClosed`, refinement of `CommandQueue` |
| `MCHandler` | four pairs of commands, 2 connections, a cache of 1 | `IInv` (with `InFlightIsHeld`, `AgainOnlyIfForgotten`, `PositiveMeansBegun`, `OneSupervisorPerRun`), `DeliveredIsAnswered` |
| `MCWorkItems` | 2 items, 2 commands, 5 requests, 2 slots, unlimited faults | `IInv` (with `HistoryIsAChain`, `PositiveMeansRecorded`, `RefusedMeansNoEffect`), `EveryRequestIsAnswered`, refinement of `WorkItemJournal` |
| `MCFanoutTwo` | 2 processes, 2 changes, 1 browser, queue of 2, a process dies | `ViewsInv` (with `CursorsAreTrue`), `CommitsInIdOrder`, `IInv` |
| `MCFanoutFaults` | 1 process, queue and replay limit of 1, each of 7 kinds of fault | `CursorsAreTrue`, `ChangesAreSeen` |
| `MCFanoutRetained` | 2 processes, 2 changes, no fault | finding: a drain passes an event over |
| `MCShippingSupervisor` | every contract with at most 1 repair, whole or short of a part; 2 executions, 1 crash | `ShippedPassedEveryGate`, `VerdictsStandOnDisk`, refinement of `ReleaseRun`; `IInv` adds `NothingIsMissing`, `RepairsAreBounded`, `VerifiedUnlessRepairFailed` |
| `MCShippingRuns` | 2 requests for one run, or 1 and a failure of connection or daemon | `EndIsShown`, `RunIsStartedOnce`, `QueuedRunsMoveOn`; `IInv` has `ShownShippedWasShipped`, `NewestIsShown` |
| `MCIdentity` | organizations: 3 users, 2 processes, 2 handlers, 1 socket, in three scenarios (sign in, invite, sockets); gateway: 1 machine, 2 organizations, 2 processes, 2 connections, in three (register, cut, presence) | `AttemptsAreBounded`, `LoggedOutUnlessMissed`, `SocketsFollowMemberships`; `IInv` has `MembershipsAreGranted`, `FirstAcceptanceWins`, `InvitationCountsOnce`; `AbsentGoesOffline`, `PresentComesOnline`; `GatewayIInv` has `LiveIsRouted`, `GhostsOvertookHello`, `RowBelongsToCredential`, `RevokedUnlessMissed` |
| `MCSocketsCurrent` | 2 users, 1 process, 1 handler, 1 socket, no fault | finding: an older list overwrites a newer one |
| `MCAgentSessions` | 1 session of codex or cursor or 1 verification of 2 cases, 1 follow-up command, 2 handlers, 1 fault | `EventsAreStoredOnce`, `QuietSessionsHaveEnded`, `VerificationsEnd`, `RefusedStartsFail`; `IInv` adds `TurnsEndOnce`, `CompleteMeansPassed`, `VerdictIsReceipts` |
| `MCCapability` | fabric: all kinds, harnesses and pairs of fields; install: 4 pairs of plans, 1 edit, 1 break; registry: 3 requests, 1 failure | `UserContentIsKept`, `ReceiptMeansRestored`, `RollbackSparesEdits`, `CreatedStays`; `Inv` has `ChangedFilesAreVerified`, `PromotionIsGated`, `NativePassIsProof`, `ProbeReplacesNothing`, `VersionsAreUnique`, `LatestIsNewest`, and `InstallIInv` and `RegistryIInv` |

Each `Inv` and `IInv` also contains the module's type invariant.

Why these bounds are enough to be interesting.  Rows of the command table do
not refer to each other: one command and two processes show every race on a row
(answer against requeue, release against claim, crash against reconciliation).
Two commands are needed only for order.  In the handler two commands against a
cache of one make eviction happen, and two connections make an old chain run
beside a new one.

A work item needs two requests at once for every race on its row or on a command
id.  The requests hold a legal chain, an illegal transition and a second item,
of which only the second command is used.

Events only meet at the lock and in id order, so two of them and two processes
show every race of a drain with a commit; the third row that a run needs is the
marker.  A queue of one overflows with the second change; a replay limit of one
makes a replay too large with the second event.  Clients do not interact: one
suffices.  The browser connects, leaves and reloads without limit.

A contract with one repair attempt has every path of both loops: a repair that
succeeds, one that fails, a spent budget; the nested budget adds only repetition,
which `RepairsAreBounded` counts.  Two executions show a run started over its
file.  In `ShippingRuns` two frames at once suffice to reorder neighbours, and
one failure (with two requests, none) shows each single mishap.

Two connections of one machine show replacement on one process and rivalry on
two; a third would repeat one of them.  The "cut" scenario has one use per
connection, no heartbeats and no aged rows; the "presence" scenario has no
credential changes.  The first connection always goes to the first process.

One scenario of `MCIdentity` runs at a time and the other component rests.  Two
sign-in handlers with a limit of one per e-mail address, one for the registrations
and two for the logins of a client reach and pass every limit.  Two invitations make two grants of one person compete; one
socket meets two handlers and its own resyncs, which may begin again at any
time.  In "invite" nobody is invited as a viewer, in both
last scenarios only the first organization invites, and only "sockets" lets
browser sessions expire.

Two handled frames at once give every overtaking of neighbours, one follow-up
command each interference with a turn.  Two verifications meet in every shared
file; an edit or a break is left out where both run with several files
(`Interferes`).  Three additions are two that overlap and one beside them.

`CHECK_DEADLOCK FALSE` is set where the system really stops: processes are all
closed or dead, a daemon exits, a bounded budget of requests, executions or
commands is spent and everything is at rest.  `MCWorkItems` and the runs of the
fan-out in which a process is always up check deadlock.

Runs under symmetry (`Symmetric` permutes processes and changes) check safety
only; others break it with an ACTION_CONSTRAINT on what the environment does
(`OneFirst`, `SecondForOther`, `OneOrTheOther`), of which no fairness is assumed.
`FirstDeliveryInOrder` is stated for runs without faults: with lost frames
or rejected statements the code does reorder first deliveries.
`CommandsAreClosed` leaves out a process of the previous version, which may take
the command again whenever its lease has lapsed.  Liveness is checked with one
fault for the router, the fan-out, shipping runs, the gateway and sessions;
liveness of more open commands than a batch holds is not claimed.

## 4. Findings

`RetainedAreDelivered`.  ADR-007 line 13: "Every API instance, including the
origin, delivers events from persisted rows in ID order".  `#drain` compares
its position with the sequence's `last_value`, which counts an id another
connection has drawn and not committed.  It takes that for a retention gap,
moves past the id, and never delivers the event.  Connected browsers get a
needless snapshot; one that connects with its cursor before the commit misses
the event.

`SocketsAreCurrent`.  The same line: every instance "filters each event against the
connected user's current organization memberships".  A resync lists them
(`index.js:64`, `179`), an acceptance lists them too (`index.js:327`), and each
assigns its list when it arrives.  A list read before the acceptance committed may be
assigned after the newer one; the socket then gets no event of the new
organization until its next resync.  `MCSocketsCurrent` finds this on one process
without a fault.  On several processes an acceptance does not reach the sockets
of the others at all.  `SocketsFollowMemberships` says that nothing else goes wrong.

## 5. Behaviour the models keep

The following was met while modelling.  The models do what the code does; the
properties name the exception where there is one.

Delivery and fan-out

* ADR-008 line 15: "a duplicate completed command receives its cached
  acknowledgement".  A duplicate queued on the chain of a closed connection,
  taken up while the next one is CONNECTING, makes `ws.send` throw, and the
  catch block replaces the cached answer by `ok: false` (`Refused`).
* ADR-008 line 13: an answer is accepted only by the process "that owns the
  matching active lease".  `acknowledge` tests the owner and the status, not
  `lease_expires_at`.  The queue's promises do not depend on it.
* ADR-007 lines 13 and 22: `resyncClients` passes over a client whose snapshot
  is under way, although it may have read its lists before the dropped change
  (`Refreshed`; the history variable `owed`).
* ADR-007 line 25: after a crash that omits an event "reconnecting clients
  recover from a fresh database snapshot".  A browser that comes back with a
  cursor gets a replay, which finds no gap, and no snapshot (`Replay`).
* `realtime-events.js:268`: "begin at the sequence high-water mark and only
  deliver events committed later".  The mark counts an id that another process
  has drawn and not committed; when it commits, the event is behind the new
  process, which never delivers it and notices no gap (`Start`, `skipped`).  The
  attempt to prove `CursorsAreTrue` found this race.
* ADR-007 line 19: a rejected query of `#drain` is only logged; the rows wait
  for the next notification (`DrainFails`).

Shipping

* After a failed release repair the loop continues without verifying
  (`AfterRepair`): what ships may not be what was verified last, only what was
  tested last (`VerifiedUnlessRepairFailed`).
* SHIPPED is written before the receipt, and a cleanup that fails throws: the
  daemon then reports FAILED for a run whose file says SHIPPED, and `finally`
  may publish the file after it (`EndIsShown`, "throw").
* A report made while disconnected is not repeated; a timer's load may be sent
  after the final report; two POSTs of one runId may queue a run twice, and a
  new start overwrites a SHIPPED file (`Mishaps`).

Machines, sessions, organizations

* A connection whose close event overtakes its hello stays in the socket map
  (`GhostsOvertookHello`); the sweep takes its row offline.
* Revocation, rotation and logout reach only sockets of the process that serves
  the request, and none that is still being authenticated.
* "interrupted" is emitted before the child exits; its exit then overwrites the
  status.  An interrupt with no turn running marks a completed session
  "interrupted"; a second message while a turn runs marks the session failed.
* Frames that overtake one another may leave a session "running";
  `QuietSessionsHaveEnded` is for events stored in order.
* An acceptance answers with the invitation's role although an older membership
  kept its own (`Joined`); if the listing after it fails, the answer is an error
  though the membership is committed (`ListFails`).
* A command whose receipt was evicted is done again when it is redelivered
  (`again`, `AgainOnlyIfForgotten`).

Capabilities

* `applyInstallPlan` and `readInstalledArtifacts` are outside the `try`: if they
  fail, files stay and no rollback runs.  A rollback that fails is started over
  once and then throws.  Directories are never removed, so the next native
  verification of that slug is refused.
* No lock guards a workspace: two verifications may overwrite each other, and
  an edit between digest and write is lost (`clashes`).
* Overlapping additions to the JSON registry may lose one (`overlapped`): each
  reads the file, and the snapshots are written whole, one after the other.
* A test of the registry is titled "resolves latest semver across restart".  The
  registry compares prereleases as text (`capability-registry-store.js:212-221`):
  `rc.2` is above `rc.10`, and prereleases that differ only after a second dash are
  equal.  `LatestIsNewest` is about entries whose order no text decides otherwise
  (`TextDecides`).
* The route of a verification (`index.js:341-356`) asks only whether the machine
  has a capability named `capability-verify`; it fixes the harness to codex and
  checks the mode against a list of its own.  A machine whose verifier stands on
  another CLI gets the command, and its adapter throws before it says "running"
  (`Throws`).
* The fabric's version order puts 1.0.0-a above 1.0.0; the registry's does not
  (`Compare` is the registry's).

## 6. Proofs

`DaemonCommandRouterProofs`, for any sets of commands, machines and processes,
any batch limit, any number of faults, with or without a rolling upgrade:

* `TypeCorrect`, `Invariance`: `Spec => []TypeOK`, `Spec => []IInv`.
* `ReconciliationSound`: `Spec => []ReconciledMeansNoted`.  It is not inductive
  by itself: `CloseJob` needs that the job in hand is noted
  (`BatchesMatchRows`, third part), which needs that a batch has one first
  element in created_at order (`RanksDistinct`), and that a row in a job batch
  stays `failed` while others settle, requeue or free it.
* `VerdictsFinal`: `Spec => SettledForever`.
* `RouterImplementsQueue`: `Spec => ImplementsQueue`.  The mapping reads the
  abstract queue off the rows; each action maps to `Submit`, `Hand`, `Settle`,
  `Record`, `Reconcile` or a stutter.  `OldProcessDelivers` is what the step of
  the old process needs.
* `ShutdownHandsBack`: `Spec => []CloseLeavesNothing`.  The strengthening says
  that a released process has no poll under way and takes nothing any more
  (`ReleasedIsQuiet`): only polls take rows, and `close()` waits for the last
  one before it gives rows and jobs back.
* `OrderOfFirstDelivery`: without faults and without a process of the previous
  version, `Spec => []FirstDeliveryInOrder`.  The claim takes the first rows in
  created_at order; that no other process overtakes it needs that a row under
  lease was sent or is in a batch (`LeasedAreSent`), that a roster only holds
  machines connected here (`RostersAreOpen`), one process per machine
  (`PeersAgree`), and batches in order (`Ordered`).

Assumptions: commands are finite, `BatchLimit` is positive, `None` and the old
process are not in `Instances`, every command has a machine.

`DaemonCommandHandlerProofs`, for any commands, any cache size and any number of
connections: `HandlerInvariance` and its consequences `InFlightHeld`,
`AtMostOnceWhileKept`, `PositiveAnswersSound`, `SupervisorsExclusive`.  The
strengthening adds `BegunIsKept` (what was begun is in the cache or was dropped
from it, which makes `AgainOnlyIfForgotten` inductive) and `RunsAreMarked`.

`WorkItemsProofs`, for any items, commands, requests, slots and number of faults:

* `WorkItemsInvariance`: `Spec => []IInv`.  Every action moves one slot, so the
  proof has one lemma for a slot that goes on (`GoingOn`), one for a slot that
  ends without effect (`Ending`, whose hypothesis `Truthful` says what its
  answer may claim) and one for a commit (`Committing`, with `ChainGrows`).
* `ChainsHold`, `PositiveAnswersRecorded`, `RefusalsHaveNoEffect`: not inductive
  by themselves.  The chain needs that an open transaction still follows from
  the committed row (`PendingFollows`), hence that it is the only holder
  (`OneHolder`) and clashes with nothing (`CommitsAreFree`); a refusal needs
  that its reason lasts (`ReasonLasts`), also between the failure and the second
  look for a replay.
* `WorkItemsImplementJournal`: `Spec => ImplementsJournal`.  A commit, answered
  or not, is one entry (`CommitEnters`); nothing else changes the journal.

Assumptions: requests are well formed (`AsksAssumption`), `None` is no request.

`RealtimeFanoutProofs`, for any changes, processes, browsers, limits and faults:

* `FanoutInvariance`: `Spec => []IInv`, one group of lemmas for `TypeOK` and one
  for the lock.  Well-formedness needs that `First` and `Latest` of the rows
  exist (`IdsBounded`): every set of naturals has a least element
  (`LeastExists`), and the least bound of a bounded set belongs to it.
* `FanoutTypeCorrect`: `Spec => []TypeOK`.
* `EventsInIdOrder`: `Spec => CommitsInIdOrder`.  A commit adds one row
  (`RowCommitted`).  Its id is the last one drawn, beyond the table, because
  nobody draws while another holds the lock (`OneHolder`, `DrawnIsNew`); or it is
  that of a commit whose answer was lost, and then the row is there already,
  because the event is still at the head of the queue (`WrittenIsHead`).
* `ViewsInvariance`: `Spec => []ViewsInv`, and from it `CursorsHold`:
  `Spec => []CursorsAreTrue`.  A true cursor is not inductive: it moves to what a
  snapshot, a replay or a drain has read.  `ViewsAreWhole` says what makes that
  safe: a live client knows everything up to its process' position, and one that
  is being resynced knows it or holds it back (`pending`), from its own cursor
  and from the one read first.  A new row is harmless because whoever is past its
  id has skipped it (`PositionsAreDrawn`), and it is past every cursor, which are
  ids of rows (`ClientsArePlaced`).  The proof judges one client at a time
  (`Entry`, with table, skipped ids and positions as parameters): a lemma each
  for a new row (`EntryGrows`), a gap (`EntryPassed`), rows sent (`EntrySent`), the end
  of a resync (`EntryReleased`), a replay (`EntryReplayed`) and a socket that closes
  (`EntryGone`).

Assumptions: the limits are natural numbers, the queue's is positive, the marker
is no change, `None` is neither an id nor a process.

`ShippingSupervisorProofs`, for any contracts whose repair budgets are natural
numbers, any outcomes of commands, any numbers of executions, crashes and trees:

* `SupervisorInvariance`: `Spec => []IInv`, and from it `ShippedIsCertified`
  (`ShippedPassedEveryGate`) and `RepairsStayBounded`.  SHIPPED is certified by
  what the earlier stages left: nothing changes the tree between its sha and
  SHIPPED, a stage is entered only when the gates before it have passed
  (`GatesPassInOrder`), and an attempt starts from a verified tree or a failed
  repair (`AttemptIsVerified`).  That no missing part of a contract is reached for
  needs that the contract was accepted (`ContractIsAccepted`); the bound on
  repairs is counted per release attempt (`RepairsAreCounted`).
* `VerdictsStand`: `Spec => VerdictsStandOnDisk`, because a run that works has no
  verdict in its file yet (`FileFollowsRun`).
* `SupervisorImplementsReleaseRun`: `Spec => ImplementsReleaseRun`.  The file maps
  to `Seen(file)`, the program counter to the phase; every command is a step of
  `Release!Works` or a stutter, the verdict, receipt, return, throw and death are
  steps of their own.

Assumptions: `BudgetAssumption`, `OfferedAssumption` (what `validateBuilder`
accepts).

`IdentityProofs` has the theorems of two components.  `MachineGateway`, for any
machines, processes, connections, organizations and numbers of changes and
faults: `GatewayInvariance` (`GatewaySpec => []GatewayIInv`) and its consequences `CommandsReachTheOpenConnection`, `RowsFollowCredentials`,
`ChangesCutConnections`.  The strengthening says that whoever was let in has a
credential row and that only a registered connection upserts
(`KnownHasCredential`), and states the cut from the answer to the hello on and
not only once the connection is in the map (`StaleIsCut`): a revocation may fall
between the two.

`Organizations`, for any users, processes, sockets, limits and any finite
set of handlers: `OrganizationsInvariance` (`Spec => []IInv`) and its consequences
`LimiterHolds`, `LogoutCloses`, `SocketsFollow`, `RolesAreGranted`,
`RolesAreDecidedOnce`, `TokensCountOnce`.  What a handler has read must still hold
when it writes: an inviter stays founder or administrator (`InvitersMayInvite`),
the handler that found an invitation unused is alone with it, which is the row
lock (`WritersAreAlone`), and rows once read exist for good (`HandlersHaveRead`).
That a window's handlers hash no more passwords than its limit (`LimiterHolds`) needs
the handlers under way to be counted with the passwords already hashed
(`CountsAreKept`), for the client address as for the e-mail address after it.  That a
socket misses no organization which is not on its way (`SocketsFollow`) needs what
resyncs, upgrades and acceptances have read to be the user's (`SocketsHaveRead`,
`HandlersHaveRead`).

`ShippingRunsProofs`, for any set of requests, any shas, any number of failures and
of frames handled at once:

* `RunsInvariance`: `RunsSpec => []IInv`, and from it `ShippedRowsAreTrue`
  (`ShownShippedWasShipped`): reports on disk, loaded or on the wire claim only what was
  shipped (`ReportsAreGenuine`), and `shipped` never shrinks.
* `EndsAreShown`: `RunsSpec => []EndIsShown`.  It speaks of rest only, so what leads
  there must be kept: as long as nothing but a throw went wrong, the row will show
  the report remembered as sent when the wire is empty, which is why the last
  publish may send nothing (`NewestIsShown`).  A receipt once in the row is never taken
  back by a merge, so that no report may carry one that is not on disk.
* `StartsOnce`: `RunsSpec => RunIsStartedOnce`.  A second start needs a second
  command, hence a second row or a request that found none, or a daemon that forgot
  its answer (`CommandsHaveRows`, `OneStart`).

Assumptions: shas are positive, the window is positive, the bound on failures a
natural number.

`VerificationProofs` has the theorems of three components.  `AgentSessions`, for
any adapters, numbers of cases, messages, errors and faults:

* `SessionsInvariance`: `Spec => []IInv`, and from it `StoredOnce`,
  `EndedSessionsShowIt`, `OneFinalStatus` and `VerdictsHaveReceipts`.  No event is
  stored twice or lost because between the read and the write of a session its
  row is locked and what was read still is what the row holds
  (`HandlersHoldTheRow`).  That a session at rest shows a final status needs what
  is true on the way: without a fault every event is stored, in a handler or on
  the wire, in order if nothing has overtaken (`FaultlessDelivery`,
  `ShowsLastStatus`), and a turn that is over has said how (`FinalStatusFollows`).
  A verification's verdict may be applied before or after the frames around it, so
  its status is tied to the receipt from the emission on (`OneVerdict`,
  `ReceiptsAreVerdicts`).

`CapabilityRegistry` and `CapabilityFabric`, for any entries, kinds of store and
numbers of requests and failures: `RegistryInvariance` (`RegistrySpec =>
[]RegistryIInv`), `ConfirmedEntriesStay`, `StoredVersionsAreUnique`.  A JSON store
writes snapshots in the order of a chain; each is without duplicates
(`SnapshotsAreDistinct`), and if no two requests overlapped it contains what was
stored before (`OneAtATime`).  `CompareIsPrecedence` is about a pure function:
`compareSemver` is antisymmetric and transitive, and it is the precedence of
semantic versions wherever no prerelease's text decides otherwise (`TextDecides`).

`CapabilityInstall`, for any set of verifications of one workspace, any plans,
versions and probes and any number of edits and failing accesses:

* `InstallInvariance`: `InstallSpec => []InstallIInv`, and from it
  `TheUserLosesNothing`, `ReceiptsMeanRestored` and `NativeProofs`.  That user
  content survives is not inductive: what is about to be replaced, or is taken
  for installed, must be in a backup already (`KeptBy`), and a copy must not be
  made over a copy (`CopiedOnce`), which needs where in its bundle a verification
  is (`InPlace`).  A receipt speaks of the files only if no other verification
  is in them; then they are at each step what this one has made of them
  (`AloneInFiles`).  A native verification replaces nothing because what its check
  found missing stays missing until it writes it (`NothingThere`), and
  directories never go away (`DirsExist`).
* `RollbacksSpareEdits`: `InstallSpec => RollbackSparesEdits`.

Two verifications in one workspace may disturb each other; the proof is by
cases on who steps and whether it touches the file in question (`KeptStep`,
`OthersAside`).  The attempt to prove `InstallIInv` showed that `InPlace` had to
say that a verification that has not begun has done no file access (`ops`).

Assumptions: `SessionsAssumption`, `RegistryAssumption`, `InstallAssumption`
(adapters and plans are of the kinds the code has, bounds are natural numbers, and
what a capability's file holds differs from what the user has, writes or
deletes).

Only model-checked: all liveness (`CommandsAreClosed`, `DeliveredIsAnswered`,
`EveryRequestIsAnswered`, `ChangesAreSeen`, `QueuedRunsMoveOn`, `AbsentGoesOffline`,
`PresentComesOnline`, `VerificationsEnd`, `RefusedStartsFail`), which is outside the
prover's reach; `ChangedFilesAreVerified` and `PromotionIsGated`, which TLC
evaluates over all kinds, harnesses and pairs of changed fields, a finite domain
fixed by the code; and `LatestIsNewest`, which rests on the sorted sequence of any
finite set of entries, whose existence needs an induction over that set.
`RetainedAreDelivered` is refuted (section 4).

## 7. Plan

1. Done: the command queue, the daemon's handler, the work items in PostgreSQL,
   the realtime fan-out, the shipping supervisor and its runs, the machine gateway
   and the organizations, sessions, the registry and the installations, with
   theorems for every safety property but the three of section 6; the pure
   algorithms of the fabric, mostly model-checked.
2. Next, if the code grows there: the JSON mode of the control plane, should it
   ever serve more than one process, and the file registry of the fabric.

## 8. Not modelled

* The JSON mode of sessions, verifications, work items and shipping runs: a
  development store of one process.
* Validation of capability specifications, the text of compiled files, symlink
  checks, the file registry and the in-memory registry of the fabric; build
  metadata in a version, which makes the registry compare NaN.
* `capability-verification-policy.js`: only its own test imports it.
* A follow-up message to a verification whose text is itself a verification
  payload, which would run a second one in the same session.
* The echo adapter; the wording of agents' messages.
* HTTP parsing, cookies, cross-site checks and read routes: authorisation there
  is a condition on one statement and has no state of its own.
* WebSocket framing, product state and web rendering, the context workbench,
  scripts, labs: sequential plumbing or text processing without shared state.
* Migrations run before `Init`.
