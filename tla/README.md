# LongHub platform: verification project

LongHub sells Cloud Skills to a desktop client: a cloud API admits, meters and runs tasks and keeps
accounts, devices and billing; an isolated Executor runs the Skills; a Windows Manager (Go) installs
and updates itself; a desktop client and a plugin talk to them. This directory holds TLA+ models of
the parts whose correctness depends on the order of steps of several actors, the TLC configurations
that check them on small instances, and TLAPS proofs of the results that hold for any instance.

`PROJECT.json` is the index: every component, every run, every property with a mutated definition
that breaks it, the source lines behind each definition, the hazards, the findings and the theorems.

Paths below are relative to `src/`; `API` is `apps/longhub-cloud-api/src`.

## 1. Inventory

### Components, their state and their operations

| Component | State | Operations | What is hard | What makes it correct |
|---|---|---|---|---|
| Usage admission (`API/memory-store.ts`, `API/pg-store.ts`) | usage rows per task, subscriptions, entitlements, plan limits | reserve, release, cancel, grant, revoke, edit plan | two API replicas count and insert at once; clock read before a lock wait; lost COMMIT acknowledgements; lease expiry | limits hold under concurrency; nothing admitted after a cancellation; usage is never refunded |
| Task life cycle (`API/server.ts`) | task row, idempotency key, reservation, worker, abort controller | POST task, worker, cancel, lease expiry | every `await` lets another request in; a store call may throw before or after it took effect; the process may die | at most one Executor call per key; admitted means metered; a finished task stays finished; a lease is given back |
| Task events and SSE | event log, listeners, connection | append, notify, read history, subscribe, reconnect | a status commits before its event is inserted, and the `INSERT` may fail; event ids are taken and shown in different orders; history and subscription are two steps; listeners are per process | the log tells one story; a reconnecting client learns the outcome if it was logged and not passed over |
| Billing settlement | orders, settlements, outbox rows, subscriptions, entitlements, wallet | create, pay, refund, adjust, cancel | providers redeliver; keys are reused; the cancel route writes what it read before an await | money moves once per order; access needs a paid order; settlement, event and status agree |
| Billing outbox (`API/billing-outbox.ts`) | outbox rows with lock token, attempts, due time | claim, publish, complete, fail, dead-letter | lease runs out under a slow worker; lost acknowledgement; crash between publish and complete | leases fence; nothing acknowledged undelivered; every event ends |
| Devices | device rows, pairing codes, row locks | register, challenge, pair, rotate, revoke, console edits, `last_seen_at` | lock order differs between two transactions; an unawaited update writes old columns back | one code, one owner; a rotated credential stays dead |
| Executor (`apps/longhub-executor`) | promise cache per tenant and key, timers | POST /execute | duplicates while a run is going; late bodies; Skills that hang; a full cache | one run per key in an entry's life; all retries get its answer; everybody is answered |
| Manager self-update (`apps/longhub-manager/internal/managerupdate`) | `pending-update.json`, recovery installers, candidate, timers | refresh, download, apply, start-up recovery, health, rollback, NSIS | the process ends between two writes; an installer fails; a second Manager starts | the file explains the disk; only a recorded rollback goes back; an installed target is confirmed or undone |
| Model gateway and per-device usage (`API/model-gateway.ts`, `API/model-usage.ts`) | promise chain, counters and rate window per device, usage rows, circuit breakers | admit, call, retry, fall back, book, abort | aborts at every `await`; an aborted waiter must pass the chain on; a slot is given back once | one admission at a time; no slot lost or returned twice; the rate holds; every request ends |
| Client and artifact releases (`API/client-release-routes.ts`, `API/cloud-artifact-release-routes.ts`) | `releases.json` and files per surface | upload, rollout, withdraw, latest, download | an upload waits for its body with an index it read before | nothing answered is lost; what is offered can be downloaded; an offer moves forward |
| Skill adapter releases (`API/server.ts`, `API/cloud-skill-adapter-release.ts`) | release rows | publish, revoke, catalogue, download, gate | three readers with conditions of their own; damaged rows | the three agree |
| Feature policy (`API/feature-policy*.ts`, desktop `feature-policy-coordinator.ts`) | records, revision, document, cache, snapshot | edit, publish, fetch, refresh, fall back to cache, gate | two administrators at once; ETag, cache and restart keep old documents | nobody acts on an expired document; the capacity holds |
| Client update (`apps/longhub-desktop/src/client-update*.ts`, `main.ts`) | pending file, snapshot, state entries, run marker, installers | offer, install, count starts, confirm, roll back | death between two files; the health timer against the confirmation | the way back is whole; the old version never runs on newer state; an update settles |
| Agent packs (`agent-lifecycle-coordinator.ts`, `pack-installer.ts`, `desktop-app.ts`) | pointer, version directories, registry, selector, Core's policy | install, enable, disable, roll back, poll revocations | a step of several fails, and so may its compensation; the refresh runs beside the queue | registry and selector switch together or not at all; a revoked pack is hidden |
| Skill registry and life cycle (`skill-registry.ts`, `skill-lifecycle-coordinator.ts`) | registry file and backup, grants, Gateway list | install, bind, enable, remove, restart | two commits per installation; Core refuses; a damaged file | file loads; grants and list agree with it |
| Core runtime and tool bridge (`packages/longhub-core`, desktop `core-process.ts`, `tool-bridge-*.ts`) | grants, confirmations, waiters, workflow | call, confirm, expire, replace policy | awaits between the grant and its use; ids that come again | a write runs by an approval of its own, once |
| Gateway supervisor (`gateway-supervisor.ts`, `gateway-runtime-recovery.ts`) | child, timers, waiting stops, page | start, restart, stop, exit, probe, resume | a restart that waits, a probe of an old process | one process; the page tells the truth and recovers |
| Device credentials and client start (`device-credential-store.ts`, `runtime-config-resolver.ts`, `API/activation-code.ts`) | `device.json`, Credential Manager, codes, configuration cache | load, migrate, register, redeem, fetch, cache | lost writes, two addresses at once, lost answers | no token is lost; no start on an expired configuration; a code is used as often as it may be |
| Manager runtime control and backups (`apps/longhub-manager/internal/runtime`, `configbackup`) | Gateway, ownership flag, autostart task, npm package; configuration and backups | start, stop, restart, enrol, install; back up, restore | requests run at once, and the user acts too | only its own Gateway is called managed; nothing foreign is removed; what is replaced is saved |
| Cloud CLI and plugin (`packages/longhub-cloud-cli`, `packages/longhub-openclaw-cloud-plugin`) | vault, device record, plugin; task keys | pair, log out, install, update; call a Skill | lost answers, partial failures, repeated calls | the answer matches what is installed; a call runs once and returns its own result |
| Accounts and sessions (`API/account-routes.ts`, `API/admin-routes.ts`) | users, sessions, plan on sale, audit log | register, log in and out, check a session, block, edit a plan, order | the password hash and every store call is an `await`; the memory store hands out live objects | one account per address; a session is its account's; who is blocked or logged out gets nothing; an order has a price that was offered |
| Service measurements (`API/http-route-metrics.ts`, console) | latency histogram, objectives | observe, report | percentiles and objectives from buckets | the rows add up; pass or fail is true |
| Recoverable sessions (`session-management.ts`) | trash records and their file, confirmations | trash, restore, delete for good | the Gateway, the file and the user's own page change between two calls | a deletion was due when its confirmation was handed out; one deletion per confirmation |
| Storage maintenance (`storage-maintenance.ts`) | downloads, log files, quota | clean at start, rotate, write | a rotation of several renames ends half-way | the installer that is waited for stays; a log is the bounded tail of what was written |
| Anonymous telemetry (`client-telemetry.ts`, `API/server.ts`) | queue, batches, attempts per device | record, flush, stop, post, count | a batch that fails for the client may be counted by the server | sent in order and once; what is lost is told; the rate holds |
| User interfaces, formatting, validators, migrations, deployment | none that a modelled decision depends on | | | not modelled (section 7) |

### How they interact

A client `POST`s a task to the Cloud API. The handler stages a row under the idempotency key, asks
the gates (device, subscription, feature policy, release), reserves usage in the store
(*usage admission*), replaces the staged input by the real one with a compare-and-set, and starts a
worker in the same process. The worker asks the gates again, calls the *Executor* over HTTP with a
short-lived credential, and writes the outcome; status changes are appended to the *event log*,
which the SSE stream follows. A cancel handler changes the status and aborts the worker. Payment and
refund callbacks settle an order in one transaction and write an *outbox* row, which a separate
worker publishes; refund and cancel revoke the entitlement that admission looks at. *Devices* decide
who may ask; *adapter releases* and *feature policies* are two more of the gates. Model requests go
through the *model gateway* instead. On the user's machine the desktop client starts with its
*credentials* and *configuration*, cleans its storage, reports *telemetry*, keeps *packs* and *Skills* in step between its registries, the
Gateway it *supervises* and *Core*, which confirms and runs tool calls; the *Manager*, the *CLI* and
the *plugin* serve users who run their own OpenClaw. Manager and client install what the *release*
routes publish.

## 2. Modules

One module per component; the constants of the components get their values in the `.cfg` files and,
where a value is a record or a set of them, in the `MC*` modules. Five of these,
`MCCloudTask`, `MCCloudWorkers`, `MCCloudRecords`, `MCLifecycles` and `MCClientState`, put together
several components that share no variable and check their union: the variable `part` says which
component runs, a behaviour is one of that component, and the others stay in an initial state. The
union adds no behaviour to a component and takes none away (its fairness is repeated, restricted to
`part`), so a property of it is the property of the component's own specification. A component with
theorems is EXTENDed there, so that run and theorem state one and the same definition, and its
initial predicate, next-state relation and types have names of their own (`ExecInit`, `LogNext`,
`MemoryTypeOK`). Four are instantiated: `RouteMetrics`, which has none, and `Accounts`, `StorageMaintenance`
and `Telemetry`, whose runs check their invariants as conjuncts of `ServiceInv` and `LocalDataInv`
(the modules of their theorems EXTEND them). A property of two components is defined in the module
that EXTENDS the other one: `PublishingInv` in `AdapterReleases` (over `Releases`), `StartupInv` in
`ClientBoot` (over `DeviceCredentials`), `ManagerInv` in `ConfigBackup` (over `ManagerRuntime`) and
`CloudClientInv` in `CloudPlugin` (over `CloudCli`); the two components still share no state.

### UsageRules, ReservationLedger, UsageLedger, UsageAdmission

`UsageRules` holds what both stores share: the row of the usage ledger, the three counts
(`CycleCalls`, `MinuteCalls`, `ActiveLeases`), the order in which limits are refused
(`LimitVerdict`), what freeing, expiring and revoking do to rows.

`ReservationLedger` is the abstract specification: a task gets one row and keeps it; a row appears
only under an active subscription and entitlement, stamped with a time that is not in the future, and
only while fewer leases are active than some plan allowed. Its variables are those both stores keep,
so the modules of the stores EXTEND it, and `RefinesLedger` is its specification.

`UsageLedger` models `memory-store.ts`: each method runs in one turn of the event loop, so each is
one action. `UsageAdmission` models `pg-store.ts`: `reserveCloudSkillExecution` is a READ COMMITTED
transaction and each statement is an action (`Begin`, the lookup, the plan read, the subscription
`FOR UPDATE`, the entitlement `FOR UPDATE`, the counts, the `INSERT`), with failures and lost COMMIT
acknowledgements; releases, cancellations, grants, revocations and plan edits interleave and wait for
the row locks where the statements do. `peak` is a history variable: the greatest value each limit
has had, because a plan edit does not take back rows admitted under the old one. Both stores
implement `ReservationLedger`; the mapping is the identity.

### CloudTask, TaskEvents

`CloudTask` is `POST /v1/tasks`, `runTask` and the cancel route: every `await` is a step. `Reqs` are
requests under one idempotency key; `row`, `keyRow` and `resv` are the store, `rq`, `wk`, `cn` the
handlers' local states. A store call may throw with or without effect; a gate may close; the process
may die (handlers and workers vanish, the store stays); a reservation lease may run out. The usage
reservation is that of `UsageAdmission`, as far as one task sees it. When the status write of a
cancel throws, the handler reads the task again (`CancelReread`) and answers by what it finds.

`TaskEvents` is the event log of one task: the status statement, the `INSERT` that takes its id from
a sequence and shows its row when it commits, the listeners of one process, and the SSE handler that
reads the history, awaits, sends it and then subscribes. Between the status statement and the
listeners `appendEvent` may throw or the process may end (`AppendThrows`): the status then stands
without its event, or with an event no listener was called for. A worker whose append threw goes on
as `runTask` does, which writes `failed` and appends that. "failed" stands for "timed_out" as well.
`overtook` is a history variable that records one interleaving for which the promised order does not
hold (section 6).

### BillingSettlement, BillingOutbox

`BillingSettlement` covers both stores; `store` is fixed by `Init`. A settlement is one transaction
under the order's row lock, so one action with all its effects: order status, settlement row, outbox
row, subscription, entitlement and (memory store) wallet. The cancel route is two steps, `CancelRead`
and `CancelUpdate`. Every price is one unit.

`BillingOutbox` is the outbox table and `runOnce` of each worker: claim a batch under a fresh token,
publish each event, complete or fail it. Time appears as the two things it decides: a lease runs out
(`Expire`), a retry falls due (`FallDue`). Tokens are random UUIDs in the code; the model reuses a
token only when nobody holds it, which keeps the state space finite.

### DevicePairing

`device` and `device_pairing_challenge` with their row locks, and six kinds of request as statement
sequences. A transaction between two lock waits is one step. `Deadlocked` and `Victim` model
PostgreSQL's detector, since the two pairing transactions take their locks in opposite orders.
`touch` is the update of `last_seen_at` that authentication starts without awaiting it.

### Executor

`POST /execute` with a clock: `Arrive` checks the credential, `Execute` runs when the body is
complete (binding, conflict, sweep, capacity, cache, start of the Skill), `SkillEnds` and
`SkillTimesOut` settle the promise, `Reply` delivers it. The two timers fire when they are due: the
clock does not pass them.

### ManagerUpdate

The Coordinator's handlers, the pending file, `RecoverOnStartup` with its bounded attempts and
health window, and the NSIS installers as processes. Requests are independent of each other, as in the code: the
handler takes no lock for them, `Prepare` none for the file, and the page leaves its buttons enabled.
Everything but `latest`, `disk`, `recovery`,
`pendingFile` and `launched` (the installers that run) is lost when a Manager ends. An installer is
its version: it verifies against a manifest exactly when the versions agree. `InstallerFails`,
`Publish` and `ManagerCrashes` are the environment; `Budgets` says how many disturbances of each
kind a behaviour may have. A second Manager, and an Apply request that passes `Prepare`'s check while
another is between that check and its write (`Overtaking`), are counted among them; `Alone` says that
neither has happened.

### ModelGateway

The proxy of one device's model requests, cut at every `await`. `link` and `tail` are the chain of
admission promises of `withDeviceAdmissionLock`, `active` and `recent` the process-wide maps, `rq` the
handler's locals. `recent` holds calls with the time they read before they waited, pruned as the code
prunes it; `admitted` is the history of all admissions, over which the rate is stated, so that an
entry pruned too early would show. An aborted waiter leaves its promise in the chain; `PassOn`
resolves it when the one before it has. A client may stop reading its answer (`Stalls`), and the
handler then awaits it without a timer of its own; the request's timer aborts the upstream call, which
returns the slot (`TimerFires`), and only the client ends the wait (`Resumes`). Which policy applies is a choice, since administrators edit policies at any time.

### Releases, AdapterReleases, FeaturePolicy

`Releases` is one index file with its directory, for the client surface or the artifact surface; the
handlers lose the thread only while a body is received. `AdapterReleases` has the rows of one Skill
and its three readers, with the legacy releases beside them. `FeaturePolicy` spans both sides: the
administrator's records, the document of one device, and the desktop's coordinator with cache and
timer, on one clock.

### ClientUpdate, AgentPacks, PackSlot, SkillLifecycle

`ClientUpdate` follows the disk: state entries, snapshot, pending file, run marker, installers;
`app` is the process, which may die between any two steps. `AgentPacks` is the transaction of
`applyMutation` with its compensations, the installer and the refresh beside it; `PackSlot` is what a
user may rely on, a switch that happens or does not, and `RefinesSlot` maps one to the other: while
a transaction is under way, the slot shows what it started from (`Committed`, `SlotOn`, `SlotServed`,
`SlotSwitch`). `SkillLifecycle` is the
corresponding transaction over registry file, backup, Core and Gateway list. `commits` says which of
the two files are on disk: the first commit makes no backup, and a file damaged before the second one
leaves the registry unloaded (`Unloaded`), which ends the client's start. A commit is one step: a crash
between its two renames leaves the file as it was, beside a backup that equals it.

### CoreBridge, GatewaySupervisor, DeviceCredentials, ClientBoot

`CoreBridge` is a tool call from the host to the Skill, with the entitlement `await` and the one-time
confirmations; the variable `parser`, fixed by `CoreInit`, says whether a policy passes the Core
process's own parser, which accepts fewer grants. `GatewaySupervisor` turns one event and everything that runs
before the next one into a step. `DeviceCredentials` interleaves the operations of two cloud
addresses at every `await`. `ClientBoot` is activation and runtime configuration against the cloud.

### Accounts, RouteMetrics

`Accounts` is `account-routes.ts` and the part of the console that changes accounts and plans: a
request reads a session, its account and the plan at different `await`s, and the memory store hands
out the live object where PostgreSQL hands out a copy (`astore`). Whether a request is shut out is a
history variable of the request: by its account's status, until the account is let in again, or by its
token, for good. `RouteMetrics` counts finished
requests in buckets and reports percentiles and objectives from the counts.

### SessionTrash, StorageMaintenance, Telemetry

`SessionTrash` is `RecoverableSessionTrash` with its file and its confirmations, against a Gateway
whose sessions the user changes too. `StorageMaintenance` is the cleaning at start-up, with the paths
a pending update protects, and the log writer whose rotation may end between two renames. `Telemetry`
has both ends: the reporter's queue and timer, batches that live on their own once they are sent, and
the route's rate limit and hourly counts.

### ManagerRuntime, ConfigBackup, CloudCli, CloudPlugin

`ManagerRuntime` is the Manager's HTTP requests against the user's own OpenClaw, with `actionMu` and
the status request that does without it. `ConfigBackup` is file by file. `CloudCli` and
`CloudPlugin` are commands and tool calls against a cloud that answers, refuses or whose answer is
lost. In `CloudCli`, `prints` is the fingerprint of each device record of the Cloud and `meta` the one
`device.json` keeps, across logout and revocation: the Cloud answers a registration under a fingerprint
that an active device has with that device and without a token, and the command gives up.

## 3. Runs

Deadlock checking is off in every cfg: every request is finite and every clock and counter has a
bound, so a model that has nothing left to do is normal; the liveness properties say what must
happen before. A property marked * is also proved, for every value of the constants (section 4).

| Run | Bounds, and why they are enough | Shows |
|---|---|---|
| `usage_postgres` | 2 calls at once, 2 tasks, two plans with `max_concurrency` 1 and 2: two calls suffice for every race on one lock | `AdmissionSafe`*, `RefinesLedger`* |
| `task_life_cycle` | 2 requests under one key, alike or in conflict, 2 task ids, 1 cancel, 1 gate, and two disturbances of different kinds, each at any point; the event log of one task with creator, worker, canceller and at most 4 events | `TaskInv`*, `DecisionsStand`*, `TasksEnd`; `LogInv`*, `OutcomeIsTold` |
| `cloud_workers` | outbox: 2 events, 2 workers, batch of 2, 2 attempts, 1 lost lease, 1 crash; Executor: 2 requests, 2 keys, 2 inputs, a cache of one entry, 3 ticks, in which an entry runs out and is made again | `OutboxInv`*, `RowsStayOwned`*, `OutboxSettles`; `RunInv`*, `RequestsServed` |
| `model_gateway` | 3 requests of one device, one with a fallback, 1 retry, 1 slot, rate 2 per window of 1 tick, 1 abort, failed store call or client that stops reading: the shortest chain with a waiter between two others | `GatewayInv`*, `RequestsEnd` |
| `device` | 3 requests drawn from three mixes of operations, 2 rows, 2 accounts, 3 codes, 4 credentials | `PairingInv`*, `RequestsAnswered` |
| `lifecycles` | Manager: 3 versions, 2 requests in flight, and one of four sets of disturbances: 2 crashes and 1 fault; 1 crash, 1 fault and 1 start during the installation; 1 extra Manager; 1 race of two Apply requests; client: two updates, 2 crashes or failures; packs: 3 versions of which 2 run, 3 operations, 2 failures, so that a compensation can fail too; Gateway: 2 exits, 2 resumes, 1 restart before it gives up | `UpdateInv`*, `ConclusionsAreEarned`*, `InstalledConcludes`; `ClientUpdateInv`*, `UpdateSettles`; `PacksInv`*, `RefinesSlot`*, `RevokedIsHidden`; `SupervisorInv`*, `PageRecovers` |
| `cloud_records` | billing: 2 orders, 2 keys, both stores, balance 0 or 1, one adjustment (its properties are proved for any number of orders and keys); usage in memory: 3 tasks, 2 devices, clock to 4 with a minute and a lease of 2, so that a call meets every limit on both sides of a minute's boundary; releases: 2 uploads at once, 2 versions, 2 channels, 1 failure (proved for any number of each); adapters: 2 versions, 1 legacy package (packages of two versions never meet), 1 damaged row; policies: 2 records, 3 revisions, one validity; accounts: 3 requests, both stores, 2 prices, 1 failure; metrics: 3 buckets, 2 bursts of 1 or 19 requests, so that the 95th percentile falls between two buckets | `SettlementSafe`*, `WalletMatchesOrders`*; `LimitsHoldAndRefine`*; `PublishingInv`*, `OfferAdvances`*; `PolicyInv`*; `ServiceInv` |
| `client_state` | two actors each (calls, addresses, requests, sessions), two to four operations, one or two failures or crashes: see the comments of `MCClientState`; backups: 2 savers, 4 requests, 3 backups; CLI: 4 commands (pair, log out, a pair whose answer is lost, and the pair it blocks), 2 releases, 2 devices; plugin: 2 sessions sharing a tool call id; trash: 2 sessions, 2 operations at once, 3 in all; logs: 3 files of 2 bytes, 5 lines; telemetry: a queue of 2, 4 events, 2 batches an hour, 1 other device | `CoreInv`*, `SkillsInv`*, `StartupInv`*, `ManagerInv`*, `NothingForeignDestroyed`*, `CloudClientInv`*, `LocalDataInv` |
| `usage_quota_overshoot` | an allowance of one call | finding: `CycleQuotaBound` is violated |
| `device_logout_undone` | 2 requests, 1 row | finding: `LogoutIsFinal` is violated |
| `artifact_withdrawal_undone` | 2 uploads, 2 versions | finding: `WithdrawnFailsClosed` is violated |
| `cli_pair_stuck` | 2 commands, 1 failure | finding: `PairRecovers` is violated |

Names such as `TaskInv`, `DecisionsStand` or `SettlementSafe` are conjunctions: a module's type
invariant and its named state invariants, or several action properties; the parts are commented one
by one in the module.

- `AdmissionSafe`: types, lock ownership, what a call has checked stays true until its `INSERT`, and
  no device holds more leases than a plan ever allowed.
- `DecisionsStand`: `FinishedIsFinal`, `CancelIsHeeded` and `CallIsAuthorised`; `TasksEnd`:
  `AdmittedTaskEnds` and `LeaseIsReturned`, both for behaviours without a crash.
- `RowsStayOwned`: a lease keeps other workers out, and a settled event stays settled.
- `RunInv` contains `OneRunPerKeyLife` and `RetriesAgree`; `RequestsServed` is `BusyMeansFull` and
  `RequestsEnd`.
- `ConclusionsAreEarned`: `DowngradeIsRollback` and `HealthOfTheInstalled`.
- `LimitsHoldAndRefine`: the memory store within cycle and rate limits, and `ReservationLedger`
  implemented, which brings the concurrency limit.
- `ServiceInv`: `AccountsInv` and `RouteMetricsInv`; `LocalDataInv`: `SessionTrashInv`, `StorageInv`
  and `TelemetryInv`; `ManagerInv`: `ManagerRuntimeInv` and `ConfigBackupInv`; `CloudClientInv`:
  `CliInv` and `PluginInv`.
- `PublishingInv`: `ReleasesInv` and `AdapterInv`; `StartupInv`: `CredentialsKept` and `BootInv`.

### Fairness

| Module | Assumed | Because |
|---|---|---|
| `CloudTask` | handlers, workers and cancels that started go on | a promise settles, and the Executor call is aborted by a timer (`API/server.ts:1253`); a crash is not undone, so no property promises an end after one |
| `TaskEvents` | store calls settle or throw; the connection ends some time and the client reconnects | no connection lasts for ever, and an SSE client reconnects with `Last-Event-ID`; neither is the server's doing. A failing `INSERT` may or may not come, and nobody repeats it |
| `BillingOutbox` | workers are run again, due times and the ends of orphaned leases come | the repository has the worker (`runOnce`) but not its scheduler: the assumption is that whoever deploys it calls `runOnce` again and again; due times and leases are comparisons with the clock. `Expire` under a *living* worker and `Crash` are not fair: they may or may not happen |
| `DevicePairing` | a statement that can run is run, the deadlock detector included | PostgreSQL grants a free lock and aborts a victim |
| `Executor` | the clock, the two timers and the delivery of settled promises | `setTimeout` fires; client and Skill are owed nothing |
| `ModelGateway` | the steps of a request that arrived, promises that resolve, and the timer of a request whose client does not read | store calls settle, and upstream call and upstream stream are ended by the request's timer (`API/model-gateway.ts:716`). Arrival and abort are not fair, and neither is the client: the wait for its reading (`waitForResponseDrain`, 621) has no timer, so `RequestsEnd` promises the end of a request only if its client does not stop reading for ever, and the slot in any case |
| `ManagerUpdate` | goroutines, timers and installers end; a Manager that is down is started again | the installer opens the new Manager (`manager.nsi:61`), otherwise a user who wants the product opens it; no request of a user is assumed |
| `ClientUpdate` | the steps of a running client go on, and one that is down is started again | the same; no update is ever asked for by assumption, and the health timer, a crash and the user's quitting may or may not come |
| `AgentPacks` | the revocation poll and operations that started go on | the poll's timer is rearmed after every round; failures are bounded, not excluded |
| `GatewaySupervisor` | timers, exit events and probes are delivered, and a process that is being stopped exits | they are events of the runtime, and `stop` kills the child; other exits and resumes are not fair |

The other modules are checked for safety only.

## 4. Proofs

Eight modules hold theorems, each about the specification the runs check. A theorem holds for every
value of the constants that satisfies the module's named assumption: in general that the sets a
property counts are finite, that durations and limits are natural numbers (positive where the code
never configures zero), and that the values for "nothing" (`Nil`, `NoRow`, `NoProc`, `None`) are none
of the values they are the absence of. A bound of the model (`MaxClock`, `MaxDepth`, `Faults`, ...) is
an arbitrary number in a theorem, so the theorem speaks of behaviours of any length.

All of them follow one pattern: an inductive invariant (`...IInv`) that says of every actor what it
may rely on at each of its steps, one lemma per action, and the property as a consequence. The runs'
invariants are not inductive, because they do not say what a handler knows while it waits; below is
what had to be added.

### UsageAdmissionProofs

From `UsageAssumption` (finitely many tasks; limits and times are numbers; lease and minute positive)
and `ProcAssumption` (no call is called "not locked").

- `AdmissionIsSafe`: `Spec => []AdmissionSafe`, from `TypeCorrect`, `AdmissionProtected` and
  `ConcurrencyHolds`. `ConcurrencyBound` is not inductive: between the count and the `INSERT` other
  calls run. `AdmissionInv` says who holds which row lock (`LockHeld`) and that everything a call has
  checked stays true while it holds them (`ChecksStillHold`): the subscription is active, the Skill
  entitled, and the active leases it counted are still fewer than the limit. The two lemmas that
  matter are `InsertElsewhere` (another call's `INSERT` cannot raise this call's count, since it holds
  another subscription's lock) and `CountNeverRises` (freeing leases and time only lower it).
- `AdmissionNeedsSubscription` and `LedgerOnlyGrows`: the two action properties, from `AdmissionInv`.
- `Refinement`: `Spec => LedgerSpec`. Each statement is a stutter of the abstract ledger except the
  `INSERT` (`Admit`), the freeing of leases (`Free`) and the administration (`Administer`).
- `MemoryLimitsHoldAndRefine`: the in-memory store keeps quota and rate at every moment and implements
  the same ledger. `MemoryInv` states the rate for every minute there is, not only the current one, and
  that no row is stamped in the future, so that the three sets the code counts contain all the rows the
  property counts; `AdmittedWithin` is the step of an admission. That the PostgreSQL store does *not*
  keep the quota is finding 1: there the clock is read before the lock.

### CloudWorkersProofs

The outbox, from `OutboxAssumption` (finitely many events and workers, more lock tokens than both together).

- `OutboxIsSafe`: `Spec => []OutboxInv`. What had to be added is what a worker that holds an event may
  rely on although its lease may be gone (`WorkerKnows`): the event it completes was delivered, the
  attempts it read have not fallen; a token that is in use names one worker (`TokensDiffer`), and what
  is leased is due (`LeasedIsDue`). `FreshTokenIsFresh` is the pigeonhole that the random token exists.
- `RowsAreOwned`: `Spec => RowsStayOwned`, from the same invariant: a late complete or fail compares
  its token with the row's, and by `TokensDiffer` it is not another worker's.

The Executor, from `ExecutorAssumption` (finitely many keys, all time limits positive).

- `RunsAreSafe`: `ExecSpec => []RunInv`. The cache and the runs explain each other: an entry is the run
  of its key that was started last (`EntryOfRun`), a run stays the entry of its key for an entry's life
  (`RunHasEntry`), and every request past its body has a run that is in time (`RunOfRequest`,
  `RunInTime`). One run per key life follows for any relation between the two time limits.
- `OnlyAFullCacheRefuses`: `ExecSpec => BusyMeansFull`, the safety half of `RequestsServed`: with the
  bound on the cache (`CacheInLimit`), a full cache after the sweep is full of living entries.

### CloudTaskProofs

From `TaskAssumption` (fingerprints for every request, gates from `Gates`) and `EventAssumption`.

- `TaskIsSafe`: `Spec => []TaskInv`, for any number of requests, cancels, task ids and faults.
  `TaskIInv` says what the store looks like (`StoreOK`: the key is bound to the one row there is, and
  an admitted row is metered), what a handler has in hand (`RequestKnows`), that only one worker is
  still before its Executor call (`OneWorker`), what it read of the gates (`GatesRead`), and what a
  cancel has already made sure of (`CancelKnows`, `Heeded`). The argument for "at most one Executor
  call" is that two handlers cannot both win the placeholder compare-and-set, and only the winner
  starts a worker.
- `DecisionsAreKept`: `Spec => DecisionsStand`, the three action properties: an outcome and an
  admission are final, no call starts after an acknowledged cancel, and a call is made under a
  reservation and open gates.
- `LogTellsOneStory`: `LogSpec => []LogInv`, whichever process the stream is in. Event ids are taken
  in one order and shown in another, so the invariant counts the ids that were handed out
  (`IdsInOrder`), says which writers can have written the present status (`WhoWrote`), and that an
  outcome that overtook nobody has the highest id there will be (`OutcomeIsHighest`).

### ModelGatewayProofs

From `GatewayAssumption` (finitely many requests, positive limits).

- `GatewayIsSafe`: `Spec => []GatewayInv`. The admission chain is described without recursion, by a
  rank: there is a function from promises to numbers that grows along the chain, at most one open
  promise waits for nobody, and no two wait for one (`LineOf`). Exactly one request at a time is
  therefore between "its predecessor resolved" and "its own resolved" (`OneHolds`). Slots are the
  requests that hold one (`SlotsCounted`). The rate is stated for every window of the history: what
  `minuteRequests` has pruned is too old for every request that still waits behind (`RateTaken`),
  since the chain orders the times they read (`Ordered`). The quota may be overshot by what is in
  flight and no more: the rows plus the requests that may still book stay within the quota plus the
  slots plus the requests that were aborted with a call under way (`QuotaKept`).

### DevicePairingProofs

From `DeviceAssumption` (finitely many preset rows).

- `PairingIsSafe`: `Spec => []PairingInv`. `PairingIInv` adds what a transaction stands on between two
  statements (`Standing`): whoever is to mint holds the row's lock and the row has no owner; whoever
  is to bind holds the code's lock and the code is open. `OthersStand` shows that no step of another
  request takes that away, in whichever of the two orders the locks are taken, and that includes the
  late update of `last_seen_at`, which does not take a lock first. `DevicesInv`, `CodesInv` and
  `LocksInv` are about the tables.
- `AccountsAreEntitled`: `AccountSpec => []AccountsInv`, without any assumption. A request holds copies
  of what it read at an earlier `await`; the invariant says what they are still worth: who checked a
  password has an account with that password (`KnowsPassword`); a request that is shut out has still to
  read its session or its account, which will refuse it (`ShutStays`); one that got past them has a
  token of the right kind (`TokenOK`); and the price it read was on offer after it began (`PriceOK`).

### LifecycleProofs

Packs, from `PackAssumption` (versions are positive numbers; 0 stands for "none"):

- `PacksAreSafe`: `PackSpec => []PacksInv`. `OpInv` relates, for an operation at each of its steps, the
  registry, the selector, the source policy and the copy it took when it began; while no compensation
  has failed, what it would undo to is what was there before.
- `SlotIsRefined`: `PackSpec => RefinesSlot`, step by step: only `Confirm`, a failed compensation and a
  restart in the middle change what the slot shows, everything else is a move of the version pointer
  (`Points`) or a stutter.

The Gateway's supervisor, from `SupervisorAssumption` (three natural numbers):

- `GatewayIsAlone`: `SupervisorSpec => []SupervisorInv`. Since an event is computed call by call on one
  record, the proof is about such worlds: `Spawning`, `Stopping`, `Telling` and `Resting` say what the
  calls of `gateway-supervisor.ts` do to any world, and one lemma per action puts them together.
  `Control` ties the stops that wait to the child and the restart under way: whoever waits has a
  process that ends, and nobody else does. The number of processes is bounded by `Counted`: whatever
  may still spawn one (the timer, a restart under way, an exit nobody heard of, the probe of a resume)
  holds a ticket, and processes and tickets together never exceed the start, the exits and the
  resumes. A restart that joined another one, or a probe of an old cycle, gives its ticket up. `Shown`
  is the page: a status page replaces it in the step in which the process's end is told.

The client's update, from `ClientAssumption` (there is a first version, 0 stands for none, at least one
attempt):

- `ClientUpdateIsSafe`: `ClientSpec => []ClientUpdateInv`. `Returnable` is what the pending file
  promises: its snapshot was written by versions no later than the one before, whose installer stays
  in the inventory while the file is there (`Looking`: a download has kept it). `OnItsWay` follows a
  rollback entry by entry, so that "rolled" is written only when the data is the snapshot.
  `MarkerKept` is the run marker between two processes. That the number of attempts keeps its type
  needs `Attempts`: a start of the target counts one, and only a crash or a failure between two
  starts lets it pass `MaxAttempts`, so attempts stay below the limit plus the faults there have been.

The Manager's own update, from `UpdateBounds` (a positive number of versions, budgets of numbers):

- `PendingIsExplained`: `ManagerSpec => []UpdateInv`, for any number of requests in flight.
  `CarriedIsChecked` holds whatever happens: a Manager that is up runs the image on disk, and what a
  start or a request carries to its next step is what it checked. `AloneInv` holds while `Alone` does,
  which is also the hypothesis inside `UpdateInv`: no Manager was started beside another, and no two
  Apply requests were between Prepare's check and its write together. Both do happen, and then the
  file need not explain the disk (section 6). While `Alone`, there is one installer at most, launched
  by the file that is there and towards the version that file names (`InstallersExplained`); among any
  number of requests one at most is between check, write and launch, and it is alone with the file
  (`RequestsExplained`); and so is a start that counts, gives up or rolls back (`StartsExplained`).
- `UpdatesConclude`: `ManagerSpec => ConclusionsAreEarned`. Its first half, no downgrade but a
  rollback, is about behaviours that are `Alone` too; its second half, a pending update is forgotten as
  healthy only by its target, holds with any number of Managers and of racing requests (`HealthStep`).

### CloudRecordsProofs

Billing, from `SettlementAssumption` (finitely many orders; keys and hashes arbitrary).

- `SettlementIsSafe`: `Spec => []SettlementSafe`, from `TypesHold`, `LedgerAgrees`,
  `AccessNeedsPayment` and `KeysAreUnique`. The property counts settlements, and counts are not
  inductive by themselves; `LedgerInv` replaces them by facts without numbers: an order has at most one
  settlement of an operation (`OneEach`), it has one exactly when its status says so (`StatusTold`),
  and the outbox is the image of the settlements (`OutboxIsImage`). `LedgerCounts` derives the counts.
- `WalletAgrees`: `Spec => []WalletMatchesOrders`. `WalletInv` writes the sum over orders as the sizes
  of three sets (recharged, refunded, bought from the balance); each settlement moves one order into
  one of them (`Counted`). It needs `MethodIsOfPayment`: an order that is not paid has no method, so a
  refund cannot return what was never taken.

The feature policies, from `PolicyAssumption` (a positive interval and capacity, other bounds natural numbers).

- `PolicyStopsInTime`: `PolicySpec => []PolicyInv`. "In time" compares a decision with the moment of a
  stop that may lie several refreshes back, so the invariant dates every document instead: one that
  does not carry the stop was issued no later than `lastOpen`, the last tick without a stop
  (`Timely`). A document is made from the records of one moment (`AnswersKeep`, `StopIsRelevant`), and
  caching it, confirming it by its ETag, falling back to it or restarting does not change when it was
  issued (`Documents`). A current document then expires within `Validity` of `lastOpen`. The server's
  gate reads the records itself, after the call began (`Call`). Capacity needs the room check repeated
  under the lock (`SavesKeep`), and `MergeOnlyNarrows` is about any set of entries.

The releases, from `RlAssumption` and `AdapterAssumption` (versions, manager versions and the model's
bounds are numbers; no hypothesis on how many versions, channels or uploads there are):

- `PublishingIsSafe`: `RelSpec /\ AdSpec => []PublishingInv`. `RelIInv` says of *every* index there
  is, the stored one and the one each upload holds in memory, that it has one record per version and
  per sequence number and a file for each (`GoodIndex`). Files are never removed, so a stale reading
  stays good, and the exclusive creation of the file keeps two uploads of one version apart. The
  client route adds its record to the index it reads when the body is there, so no answered release is
  lost; the artifact route adds to what it read before, which is finding 3, and the theorem states for
  it only what it keeps. `SetMax` (a nonempty finite set of numbers has a largest) gives the next
  sequence number. `AdIInv` is shorter: a version has one row whose content never changes (`OneRowEach`,
  `InPlace`), so catalogue, download and gate read the same row.
- `OffersGoForward`: `RelSpec => OfferAdvances`. In each channel the numbers rise with the versions
  (`InOrder`). A step of the client route leaves each record its version, its channel and a number no
  smaller (`StepCarries`), so what was offered, or something newer, still is (`CarriedIsOffered`); for
  that only the newest record of a channel may be adjusted.

### ClientStateProofs

Twelve components without common state, each with its own invariant; nothing is assumed of the sets
of calls, requests, versions, keys or devices except where named (`BridgeAssumption`, `RtAssumption`,
`CfgAssumption`, `CredAssumption`, `BootAssumption`, `CliAssumption`, `PluginAssumption`,
`TrashAssumption`, `TelemetryAssumption`: bounds are numbers, the word for "none" is no member, a
code's holders are finitely many, the queue, the rate and the map of telemetry have room for one).

- `CoreIsConfirmed`: `CoreSpec => []CoreInv`. That a write never runs more often than it was approved
  needs an approval in hand for every confirmation that says so (`ApprovalKept`), that it was given in
  the present epoch (`ApprovedHere`) and, behind the Core process's own parser, that no write is
  granted at all (`NoWriteParsed`).
- `SkillsAgree`: `SkillSpec => []SkillsInv`. The property speaks of the moments between operations; the
  invariant says what a running one can go back to: the registry and the grants it started from, which
  agreed (`Recoverable`), and every registry ever committed loads (`RegOK`). "Loads" excepts the one
  state in which it cannot: the file of the first commit is damaged before there is a backup (`Unloaded`).
- `RuntimeIsOwned` and `OursAlone`: `RtSpec` keeps `ManagerRuntimeInv` and takes no step against
  `NothingForeignDestroyed`. A request acts on an earlier look at the computer; `ReqFine` says what the
  look is still worth, which rests on the lock (nobody else of the Manager acts meanwhile) and on
  `Noticed` (what the user did meanwhile is remembered by the exemption the property makes).
- `BackupsRestore`: `CfgSpec => []ConfigBackupInv`. `JobHolds`: a request has written under an id no
  other one has, so its metadata appears when content and metadata agree; and a restore keeps a
  complete copy of what it replaces, its own or the one an earlier restore came from.
  `ManagerIsSafe` puts both together as `ManagerInv`.
- `CredentialsStay`: `CredSpec => []CredentialsKept`. `CredOpKnows` says what each operation still has
  to migrate between two awaits, and that one that reads or saves finds no token in the file;
  `HadKept`, that no address that had a token ever holds another one.
- `BootStays`: `BootSpec => []BootInv`. Whatever runs, or lies in the cache, was answered by the Cloud
  (`CloudAnswered`): it expires within one validity of its issue, its replacement and the emergency stop,
  however late the answer arrives. `StartIsSafe` is `StartupInv`.
- `CliIsTruthful`: `CliSpec => []CliInv`. `CmdOK`: before the installation the plugin is still the one
  the command read, and an update has a newer target and a loaded plugin to go back to. `CredOK`: the
  vault is written only when it is empty, and emptied only of a revoked device (`CredOK`). The property
  is about credentials the vault has held (`kept`); a device whose credential never got there is out
  of reach for the user, and the theorem says that only such a device can block a registration.
- `PluginIsOnce`: `PlSpec => []PluginInv`. A task's key is the identity of its request (`TaskOK`), and a
  call that knows a task is a call with that very request (`CallOK`), since the Cloud refuses a known
  key with another body. At most one run per call of a session then is the size of a set with one
  key. `CloudClientIsSafe` is `CloudClientInv`.
- `DeletionsAreEarned`: `TrashSpec => []SessionTrashInv`. `OpHolds` says what each operation knows
  between its file write and its Gateway call: a deletion under way took its confirmation out of the
  file, and that session was due when the confirmation was given.
- `LossesAreTold`: `TelemetrySpec` keeps `TelemetryTypeOK`, `NothingStranded`, `EveryLossIsTold` and
  `RateHolds`, four of the six parts of `TelemetryInv`. A flush that does nothing has a batch under way
  or an empty queue (`FlushKeeps`); the map of the route is never above its bound, so its sweep changes
  nothing (`SweepNeverRuns`, section 6).
- `PendingInstallerStays`: `StorageSpec => []PendingInstallerKept`, which with the type of the entries
  is inductive: an installer that is waited for is no candidate, and whether a directory is empty is
  judged after the cleaning.

### Only model-checked

- All liveness and everything under fairness (`TasksEnd`, `OutcomeIsTold`, `OutboxSettles`,
  `RequestsEnd` of the gateway and the Executor, `RequestsAnswered`, `InstalledConcludes`,
  `UpdateSettles`, `RevokedIsHidden`, `PageRecovers`): out of this prover's reach.
- `ServiceInv`: its percentiles compare two folds over the buckets, and `LocalDataInv`: the log files
  are concatenated and their sizes added up by folds. What a fold computes for every input is an
  induction over data. Their conjuncts `AccountsInv` and `SessionTrashInv` are proved, and so is
  `TelemetryInv` but for `SentInOrderOnce` and `CountedOnce`, which are folds over the batches;
  of `StorageInv`, `PendingInstallerKept` is proved and the log files are left to TLC, like
  `RouteMetricsInv`.
- `CycleQuotaBound` of the PostgreSQL store, `LogoutIsFinal`, `WithdrawnFailsClosed` and `PairRecovers`
  are violated (section 5).

## 5. Findings

Each has a run in which TLC finds the violation.

1. `usage_quota_overshoot` (`API/pg-store.ts:2526`): the comment at 2362 says two replicas cannot
   both pass the same plan limits. The call takes `now` before it waits for the row lock and counts
   rows with `reserved_at <= now`; a row stamped later but committed first is not counted.
2. `device_logout_undone` (`API/pg-store.ts:1320`): the unawaited `last_seen_at` update writes back
   the status it read before a self revocation, and the device is active again.
3. `artifact_withdrawal_undone` (`API/cloud-artifact-release-routes.ts:211`): an artifact upload saves
   the index it read before its body arrived, and undoes a withdrawal answered in between.
4. `cli_pair_stuck` (`packages/longhub-cloud-cli/src/cli.ts:236`): once the device is revoked, `pair`
   keeps using the credential in the vault and is refused every time.

## 6. Other disagreements met while modelling

These have no run of their own; where a property would be affected it is stated around them, and says
so in its comment. The first seven were seen as TLC counterexamples.

- `API/account-routes.ts:402`: the cancel route's update has no status guard
  (`API/pg-store.ts:2136`), so the subscription of a refunded order can end as `cancelled`, where
  LH-BILL-001:29 says the refund marks it `refunded`. Access is revoked either way (proved).
- `API/model-gateway.ts:590`: `circuitOpen` deletes entries whose `openUntil` is past, and
  `recordCircuitFailure` stores 0 below the threshold (606), so failures of requests that follow each
  other never open a circuit with a threshold of two or more.
- `client-update-coordinator.ts:288`: a rollback interrupted before the third start is not taken up
  again, where LH-040-08:46 says an interrupted restore can be repeated. `ClientUpdateInv` says what
  holds once a rollback is announced.
- `agent-lifecycle-coordinator.ts:103`: a refresh of the policy constraint between a disable's Core
  close and the confirmed selector sends Core the old policy (comment at 252: the execution boundary
  closes first).
- `gateway-supervisor.ts:204`: a resume of the host, or a restart that waits for the old process,
  starts the Gateway after `stopRuntimeForUpdate` (`main.ts:593`; comment at 224).
- `managerupdate/state.go:85`: two `Apply` requests for different versions can both find no pending
  file (nothing is locked until the write at 97, `httpapi/server.go:73` excludes no second request, and
  the page, `httpapi/web/index.html:81`, never disables a button); the disk then holds one version and
  the file names the other, so recovery and rollback act on the wrong one. TLC finds it with two
  requests; `UpdateInv` and `DowngradeIsRollback` speak of behaviours without this race (`Alone`), and
  the runs contain it.
- `core-process.ts:45`: the Core process's parser refuses every grant with a `confirmation` field, so
  write grants never enter it; a process started with one in its environment exits. `CoreInv` is
  checked with and without that parser.
- A concurrent, identical retry can be refused for its own usage: both retries miss the lookup
  (`API/pg-store.ts:2404`), and the second counts the first one's row before its own `INSERT` meets
  the unique index (2525).
- A refused or failed retry discards the staged row under which another retry has been metered
  (`API/server.ts:2872`), so the next retry is metered again.
- An SSE client may get an event twice (`API/server.ts:3045`, history and listener). A cancel that
  commits between another status and its event can put the outcome before that event in the log, and
  a client that stops at its last id can miss it (`API/pg-store.ts:3252`); `LogInv` exempts this
  interleaving (`overtook`), `OutcomeIsTold` a client that has received a later event than the outcome's
  (`PassedOver`).
- A status commits before its event is inserted (`API/pg-store.ts:1076`), and nobody appends the event
  if that `INSERT` fails or the process ends: the outcome is then in the task's row only, and a client
  learns it from `GET /v1/tasks/{id}`, never from the stream. `OutcomeIsTold` exempts this (`Unlogged`).
- A model answer whose client stops reading stays open for as long as the client likes: the wait at
  `API/model-gateway.ts:822` has no timer, and the request's timer aborts the upstream only (716).
  `RequestsEnd` says that the device's slot comes back even then.
- The Executor's cache is keyed by tenant and key (`server.ts:424`), the Cloud API's by owner too: two
  owners of a tenant with the same key collide there. `Executor` models one tenant and one owner.
- A publisher slower than the outbox lease loses every lease, and its event is then never
  dead-lettered (`API/billing-outbox.ts:94`); `OutboxSettles` has finitely many lost leases.
- Manager update: an installer that fails leaves `pending` in place, and later updates are refused
  (`state.go:167`); if the third start ends before the old installer is launched, the next start
  counts a fourth attempt that `Read` no longer accepts and the rollback is lost (`state.go:119`;
  `InstalledConcludes` is stated around it); launches within the 30 s health window count as failed
  starts (`main.go:58`).
- Manager runtime: a status poll with a stale observation can clear the flag of the Manager's own
  Gateway (`gateway.go:562`). A user's edit between a restore's safety copy and its rename is
  overwritten unsaved (`configbackup/manager.go:114`); `ReplacedIsSaved` is about the file that was
  copied.
- Skill registry: the first commit makes no backup (`skill-registry.ts:536`), so a file damaged before
  the second one makes `load` throw `SKILL_REGISTRY_CORRUPT` (509); the constructor throws it inside
  `app.whenReady().then` (`main.ts:1408`), where nothing handles it, and the client's start ends there,
  this time and every time. `SkillsInv` says that the registry loads in every other state.
- Packs and Skills: reinstalling the active version removes its directory before the rename
  (`pack-installer.ts`); after a restart no Skill is granted until the next Skill operation.
- Feature policy: a failed refresh without a readable cache keeps the old snapshot until it expires;
  a 401 or protocol error clears the snapshot without pushing the bridge policy.
- Runtime configuration: an emergency stop is answered 503, which the client takes as transient, so
  it may start from its cache for one more validity. Two administrators who edit the model
  configuration at once lose one edit. Activation codes exist in the memory store only.
- Releases: artifact uploads lose concurrent uploads and rollouts too, and a lost version cannot be
  uploaded again; a crash between link and save leaves an orphan file; after the latest artifact is
  withdrawn, older versions' rollout cannot be adjusted.
- CLI: an update is refused when the running version was withdrawn. The first registration makes a new
  fingerprint, so a lost answer leaves an orphan device. Later ones use the fingerprint `device.json`
  keeps across logout and revocation (`cli.ts:238`, 314): if their answer is lost or the vault cannot
  be written, the Cloud has an active device of that fingerprint, answers every later registration with it and
  no token (`API/memory-store.ts:415`, `API/pg-store.ts:1123`), and `pair` fails until an administrator
  revokes it. `CredentialKept` says that only a device whose credential never reached the vault
  blocks a registration.
- Recoverable sessions: `permanentlyDelete` checks the confirmation but not `deleteAfter` again
  (`session-management.ts:200`): one handed out before the session was restored and trashed once more
  deletes it within its new retention. `DeletionEarned` says that the session had been due.
- Telemetry: an entry is added to `telemetryAttempts` only below 10 000 entries, so the sweep for more
  than 10 000 never runs (`API/server.ts:1593`; lemma `SweepNeverRuns`): after as many devices a new
  one is refused as "temporarily busy" (1605) until the service restarts.
- Core: `executeBridgeSkill` uses the grant it looked up before the entitlement `await`
  (`runtime.ts:148`).

## 7. Not modelled

`PROJECT.json` lists every component with its reason. User interfaces, request formatting, validators and the composition root keep no state that a modelled decision depends on. Migrations
run one transaction each under an advisory lock, so what a crash leaves is PostgreSQL's business;
deployment scripts drive systemd, nginx and links. Of the modelled components: the device version
report, a stream that closes during its history read, start-up configuration of the Executor, the
unused fulfilment helpers of `account-routes.ts`, the launch hooks of `gateway.go`, the choice of the
Gateway's port, the idempotent local tasks of `CoreRuntime` and a Core process that dies are left
out. Signatures, HMACs, digests and encryption are trusted or are equality tests. Log lines, messages
and page texts are left out.

## 8. Plan

Done: all components of section 1 but the last are checked, and the safety properties of the passing
runs are proved as they are stated, with the hypotheses inside them that section 6 lists (`UpdateInv`,
for instance, promises nothing once two Apply requests have raced). Of `ServiceInv` and `LocalDataInv`
only the conjuncts named in section 4 are proved.

Worth doing next: the compositions: `CloudTask`'s reservation refined by `UsageAdmission`, its
Executor call by `Executor`, its gates by `AdapterReleases` and `FeaturePolicy`.
