# 3m-ui: specifications of the panel's core

3m-ui is a Go server that manages a Mihomo proxy core: it keeps listeners and
users in a SQLite database, generates the core's configuration from them,
supervises the core's process, replaces its executable, and counts traffic.
These modules specify the parts where several goroutines, timers, a child
process and a crash of the panel meet, and the parts where several pieces of code
translate the same row and have to agree. Paths below are relative to
`backend/internal/`.

## 1. Inventory

| Component | State | Operations | Hard because |
| --- | --- | --- | --- |
| Process supervisor (`mihomo/process.go`) | `ProcessManager` fields under `pm.mu`; operations under `lifecycleMu`; one waiter goroutine per child | Start, Stop, Restart, quiesce, setBinaryPath, automatic restart, adoption of a running core | a process dies at any moment; `pm.mu` is released between the steps of an operation; the panel may die and its core live on |
| Core updater (`mihomo/core_update.go`, `core_store.go`) | `selection.json`, `job.json`, executables under `cores/`, the same in memory | install, rollback, recovery, pruning, start-up | every step can fail, the core can crash in the middle, the panel can die anywhere |
| Configuration regeneration (`listener/service.go`, `user/service.go`, `traffic/enforcement.go`, `SyncCredentials`) | two debounce timers, the queue of a running update, `lastBlocked` | a committed change schedules a regeneration; a tick enforces quotas | several regenerations at a time, a lock per step, a busy answer during updates, failures that nobody sees |
| Apply transaction (`mihomo/service.go`, `manager.go`) | configuration file, its `.bak`, `applyMu` | ApplyConfig, SaveConfig, RollbackConfig, StartMihomo, StopMihomo, RestartMihomo | every call of the restoration can fail too; RollbackConfig reads outside the lock |
| Runtime and connection checks (`mihomo/connection_check.go`, `listener_runtime.go`) | a bounded cache of results | CheckConnection, cached lookups | a result is computed without locks and must not outlive what it describes |
| Traffic accounting (`traffic/`) | counters per user, last sample per connection, reset days | collect, reset monthly, renew cycles, limit addresses | counters are written by several writers and in several statements |
| Users, devices, tokens (`user/`, `hwid/`) | rows of users, bindings, devices | CRUD, batches, reset, tokens, devices | whole-row saves and check-then-insert |
| Listeners (`listener/`, `node/validator.go`) | rows of listeners, tombstones of deleted ones, versions | CRUD, clone, batch, rollback, quick creation, templates; autofill and validation | names and endpoints stay unique through batches, half-done deletes and tombstones; service, generator and sockets compare ports and addresses by rules of their own |
| Configuration generation (`mihomo/config/`) | none of its own; it writes sanitized rows back | GenerateFinalConfig | reads and write-back are far apart, and may run without the lock of the listeners |
| Exporters (`converter/`, `protocol/`, `mui/`, `node/uri_*.go`) | none | subscriptions, links, YAML, the compilers of the core's listeners | five translations of one row must agree on credential, security, transport and trust |
| Certificates (`certstore/`, `certutil/`) | a pair per listener on disk | restore, save, mint | a pair must survive edits, regenerations and restarts |
| Authentication (`auth/`, `totp/`) | session version, attempt limiters | login, password change, reset, TOTP | windows and expiry; sessions that must end |
| Cluster (`cluster/`) | remote servers, mirrors of their nodes | health check, synchronisation, pushes | slow remote calls around a row that is saved whole |
| Telegram (`telegram/`) | settings that remember what was sent | notices, bot, schedule | at-least-once notices, cron fields |
| Start-up (`app/`, `bootstrap/`) | none of its own | wiring, first regeneration | order of start-up |
| Backup (`system/backup.go`) | files | export, restore of the database and of the configuration file | it writes the configuration with no lock |
| ACME, database, WARP, routes, pages, frontend | files, rows | I/O, formatting, parsing | not concurrent in themselves |

How they interact. User and listener services commit to the database and arm a
timer; the timer's goroutine calls `RegenerateConfig`, which reads the database
and calls `mihomo.Service.ApplyConfig`, which restarts the core through the
supervisor. `SyncCredentials` stands between the user service and
`RegenerateConfig` so that a running update job can take the call over. The
updater uses `applyMu` against ApplyConfig and `quiesce`, `setBinaryPath` and
`Start` of the supervisor. The traffic scheduler's one goroutine collects,
resets, and calls the enforcer, which calls `RegenerateConfig` directly. The
supervisor calls the crash handler of the Telegram package.

What makes each one correct: the supervisor never runs two cores, never revives
a stopped one and never forgets a wanted one; the updater never loses or selects
the wrong executable and reports what it did; no committed change is forgotten;
the core runs the configuration on disk, and that is one that was validated, or
the one before; every byte is counted once; names and endpoints are unique and
the core can bind what is enabled; what a client is handed is what the core
accepts; a certificate that clients trust is not replaced behind their back; a
session ends when it must; a notice is sent and not repeated.

## 2. Modules

| Module | Models | Built on |
| --- | --- | --- |
| `CoreLifecycle` | what the supervisor promises: at most one core, launched only while wanted, none left when the wish is withdrawn | - |
| `ProcessManager` | `mihomo/process.go`, step by step | refines `CoreLifecycle` |
| `CoreUpdate` | `mihomo/core_update.go`, `core_store.go` | the supervisor as `ProcessManager` describes it |
| `ConfigRegen` | the way of a change from the database to the core | the updater as a job that is busy, switches and finishes |
| `ConfigTransaction` | what an apply promises: file and core both at the candidate, or both as found, or torn by a failing write, by another writer of the file or by the end of the panel; whoever launches the core launches what the file says | - |
| `ConfigApply` | `ApplyConfig`, `RollbackConfig` and the connection check over file, backup and process | the supervisor as `ProcessManager` describes it, with merged steps; the inside of what `ConfigRegen` takes as one step; refines `ConfigTransaction` |
| `ListenerStore` | the table of listeners: names, endpoints, versions, ports | - |
| `ListenerConfig` | one listener's settings: autofill, validation, sanitizing, certificates, compilation; no state | - |
| `ClientExport` | the subscription's proxies, sing-box, and what the core accepts; no state | `ListenerConfig` |
| `ShareLinks`, `MuiShares` | the share registry, the URI builders, the m-ui port and ExportNodeURI; no state | `ClientExport` |
| `ListenerLife` | one listener from its creation on, with its users, its pair on disk and the regenerations | `MuiShares`, and so all of the three above |
| `UserUsage` | one user's row: the traffic tick, edits, resets, the first use | ticks of the scheduler that `ConfigRegen` models with the enforcer |
| `*_proofs` | theorems | TLAPS |
| `MC*` | instances for TLC | |

### ProcessManager

`pm` is the struct; `proc` the operating system's processes (free, up, asked to
terminate, killed, zombie, gone); `waiter[p]` the `waitProcess` goroutine of
child `p`; `op` the call that holds `lifecycleMu`, with its local variables and
the step it has reached. Every section under `pm.mu`, and every wait, is an
action: `StartChecked`, `ScanProc`, `adoptExistingLocked` / `NothingToAdopt`,
`Spawn`, `Publish`, `Settled` / `ExitedImmediately` are `start()`; `StopSignal`,
`StopObserved`, `StopKill`, `StopClear` are `stop()`; `WaitReturns`,
`ExitVerdict`, `BeginAutoRestart` are `waitProcess()`. `Exit`, `Recycle` and
`ExternalStart` are the world outside. `cmd`, the done channel and the pid of a
child are one identity, because the code creates them together; a pid is reused
only when nothing refers to it. Whether a file checks out is a free choice. The
process of a configuration test (`mihomo -t`, `ValidateConfig`) is in `proc` as well:
it has the executable and the arguments a scan looks for, and its caller holds
`applyMu` and not `lifecycleMu`. All the operations but the automatic restart are
called under `applyMu` too, so it is the one that can meet a test. `setBinaryPath` takes `pm.mu` only, as in the code, but its caller runs it
right after a quiesce that succeeded, which is its guard.

### CoreUpdate

An executable is its checksum; `disk` is what survives a crash (`cores/`),
`selection`, `job` and `run` what does not. Each call of `performCoreUpdate` is an
action with its failure as another. The supervisor is reduced to a core that is
up or not and wanted or not, which crashes, restarts by itself or fails to
(`AutoRestartFails`: a core that exits at once is not wanted any more); a `quiesce`
takes effect or, if the core dies inside it, fails. `Damage` removes files from
outside; the history variables `lost` and `proven` let the properties tell that
apart from the updater's own doing.

### ConfigRegen

A worker is a goroutine that regenerates; its `pc` is the lock or check it stands
at. The database is two counters of changes and one user who is blocked or not; a
configuration is the database it was generated from. `tried` is a
history variable. The file, validation and restart of `ApplyConfig` are one step
that succeeds or restores; `ConfigApply` opens it. `RestoreDatabase` puts a
configuration from a backup (`Backups`) in the file's place, whoever holds a lock, and
`SaveWithoutBinary` is the start of a panel whose core is missing.

### ConfigApply

`file` and `bak` are `config.yaml` and its backup, `core` the process with the pid,
the tie to the panel (its child, or adopted), the wish and the waiter of an automatic
restart. `job` is the apply that holds `applyMu`; its `pc` is the last statement it
has done. Every statement of `ApplyConfig` is an action with its failure beside it:
the truncated and the written backup (`ApplyBegins`, `BackupWritten`, `BackupFails`),
`SaveConfig`, the question whether the core runs, validation, start or restart, the
wait for the listeners and each of the three restorations (`Restore`, `UndoStart`,
`UndoRestart`, `RestartOld`). `RollbackReads` reads the backup without the lock, as
`RollbackConfig` does. `Crash`, `WaiterWakes` and `WaiterStarts` do not ask for
`applyMu`; `WaiterAdoptsValidator` is the automatic restart whose scan takes the
apply's own test for a core. Two others write the file, `RestoreDatabase` and
`SaveWithoutBinary`; `job.spoilt` remembers that the running apply met one of them.
`PanelRestarts` may fall between any two statements. The check asks
(`CheckBegins`), takes its snapshot under the lock, probes without it, and keeps its
result under the lock only if nothing has changed; `met` is a history variable: what
answered the probe was the process of the snapshot. `torn` remembers that a failing
write or the end of the panel cut an apply short, or that another writer replaced the
file of a running core or of an apply; the properties claim nothing of the file and
the core after that, until an apply succeeds undisturbed. `SaveConfig` of the service
(`service.go:98`) has no callers and is left out; the `SaveConfig` of the module is
the manager's.

### ListenerStore

`rows` is the table with its tombstones, `history` the versions. One mutex makes a
request an action, except a batch, which is committed (`BatchCreate`) before its
endpoints are compared (`BatchChecked`, `BatchUndone`), and a delete (`Delete`,
`DeleteRow`, `DeleteFails`). A port field is a sequence of ranges, as parsed;
addresses are specific or wildcards of two families. The overlap of ports and
addresses is written three times, as the code has it: the service's (`Conflict`), the
generator's (`GeneratorConflict`) and, external, what sockets do (`BindConflict`). The
service's `firstListenerAddress` (`endpoints.go`) takes `listen` before the interface;
the generator's (`generator.go`, `CoreAddress`) the interface before `listen`, and that is
what the core binds. `Misread` rows are those for which it matters.
A name that was freed by a delete is the flag `freed`: no administrator's
name has its form.

### ListenerConfig, ClientExport, ShareLinks, MuiShares, ListenerLife

A configuration is a record over small sets: protocol, which credentials it has,
which certificate pair, REALITY, wrapper, tlsmirror, transport, plugin, the form's
security layer and flags. `AutofillListenerDefaults`, `ValidateModel`, `Regenerated`
and `Compile` are the functions of these names, from form to row to core. An offer is
what a client would dial, with the fields a handshake depends on; `Accepts` is external,
the core's side of it. Each exporter is an operator that derives offers from the row by
its own rules. `ListenerLife` gives them a history: `row`, `disk`, the users'
bindings and whether each is blocked or has a password that no longer decrypts, `core`
as last generated, and a regeneration split into its read and its write-back, because
the routes under `/config` regenerate without the listener lock. A generation
that is only shown (`/config/generate`, `/download`) is left out: it is a regeneration
whose result the core does not get.

### UserUsage

`row` is the `ProxyUser`; its counters are kept as what each connection contributed,
`row.used[c]`, so that a byte that is counted twice shows. `recorded` is the table
of traffic records, `claimed` the setting `traffic_reset_last`, `prevConn` the
collector's memory, `conn` what the core has. `tick` is the scheduler's goroutine:
the step it has reached and the local variables of the function it is in. Every statement of the
database is an action, with a failing one as another: `CreateRecord` and `AddSample`
are the two statements of `AddSample`, `MarkOffline` also keeps the sample,
`ClaimDay` and `ResetMonthlyTraffic` are `MaybeResetMonthlyTraffic`, `FindCycles` and
`ApplyUserCycles` read and write `MaybeApplyUserCycles`. A request reads the row
(`ReadUser`) and saves the whole of it (`SaveUser`) or a column (`SaveExpiry`) later,
or writes a column at once (`SetEnabled`). `EnforceIPLimits` reads whether the user is
enabled when it runs, and the connections as the tick has fetched them.
The reset of the administrator writes the
counters only; `PullSubscription` is a first use that no tick has seen. Time is a day and does not
run backwards. `excess` and `resets` are history variables; `excess` is what
the code itself makes the collector meet again, when a sample is lost.

Definitions whose comment begins *Wrong on purpose* are variants of the action
after them with a plausible mistake. They are not used by the specification; put
in the place of the right definition, each makes a run fail, which shows that the
property it is listed with depends on that line of the code.

## 3. Runs

All runs finish within minutes with two workers.

| Run | Instance | Shows |
| --- | --- | --- |
| `PMSafety` | 2 pids, 2 executables, outside starts, configuration tests, panel restarts with orphans, fair | `TypeOK`, `SingleChild`, `NoRevival`, `Supervised`, `IInv`, `BinaryStable`, refinement `ImplementsLifecycle`, `RestartHappens` |
| `PMStop` | 3 pids, 1 executable, configuration tests, panel restarts with orphans | `StopIsFinal` |
| `RegenSafety` | 2 workers, 1 user and 1 listener change, 2 updates, failures, panel restarts, 1 backup | `TypeOK`, `NoLostWakeup`, `RegenInv`, `SwitchUndisturbed` |
| `RegenLive` | 2 workers, 1 user change, 2 updates, failures, panel restarts, fair | `EveryChangeTried` |
| `UpdateSafety` | 3 executables, failing starts, lost files | `UpdateInv` (with the types), `SelectionOnDisk`, `RunningOnDisk`, `ActiveProven`, `RunsBinaryPath`, `RolledBackTruthful` |
| `ApplySafety` | 2 good contents and 1 the core refuses, 1 failing write or file from elsewhere, 1 edit of the client | `ApplyInv` (with the types), `RunsTheFile`, `CacheTruthful`, `Activates`, `FailureRestores`, refinement `ImplementsTransaction` |
| `StoreSafety` | 3 rows, 2 names, 5 port fields, 2 addresses and the wildcards of both families, 3 versions before a request | `StoreInv` (with the types), `ConfigurationBinds`, `NothingLost` |
| `LinksSafety` | 14 protocols with every variation of one setting, 2 users, 3 pairs, 3 saves or changes of users | `LifeInv` (with the types), `SubscriptionConnects`, `LinksConnect`, `NeverBare`, `NoRotationUnderClients` |
| `UsageSafety` | 3 connections from 2 addresses, 1 byte, 2 days, 1 reset day, a limit of 1 address, 1 fault or panel restart, 1 edit | `TypeOK`, `NeverOvercharged`, `ChargedIsRecorded`, `MonthlyOnce`, `UsageInv`, `IPLimitEnforced` |

Bounds. Two pids are a dying child and its successor, an outside process or a test; pids
are reused, and `lifecycleMu` admits one operation and a waiter refers to one
child, so a third would only add another stale waiter (the invariants are proved
for any number). `PMStop` has the third: an orphan, a child and a test at a time. It has
one executable because `StopIsFinal` is false with two:
an orphan the panel did not take over because it looked for the new executable is
taken over after a switch back, while the fields of a dead child make it count
as down, and Stop then refuses to stop it. It has no outside starts for the same
reason. Two workers are enough for one to overtake the
other; the enforcer is never two. Two updates let a callback that one update has
queued meet the next. Three executables are the bundled or active one, the
previous one and a candidate. In `UsageSafety` one byte is enough to
count it twice, the second day is the reset day and the end of a cycle, and any
one statement may fail; ticks are not bounded. Two of the three connections share the
address that sorts last, so that the number of connections decides and not the
address; one of them carries the byte (the theorems have bytes on all). In `ApplySafety` a rollback needs an
older content beside the running one, and the refused content is what makes each
restoration run; applies, crashes and restarts are not bounded. It has
`ChildrenSurvive` off, as under systemd: with it on `Activates` is false, see below.
The pids 1 to 3 are no bound: two are remembered at most beside the one that is
handed out. In `StoreSafety` two rows
can conflict and a third can come between a batch's two; the drafts meet in one port,
clones, templates and rollbacks bring the others in. In `LinksSafety` three saves are a
creation, a save and a change of users, or two of one of them; a creation needs no
predecessor, so every row an administrator can create with one thing out of the
ordinary is there; what combinations of settings do is proved (below). Every bound is a constant of the module, and the
theorems below hold for all their values.

Deadlock is checked in every run: the environment can always do something.

### Where code and documentation disagree

Each of these runs checks one sentence of a comment or of `docs/core-updates.md`
and ends with a counterexample.

| Run | Sentence | What happens |
| --- | --- | --- |
| `RegenListener` | configuration changes are rejected or reconciled during an update (`docs/core-updates.md`) | a listener change is committed, its reload rejected and forgotten |
| `UpdateRestores` | a failed switch restores executable and running state (`docs/core-updates.md`) | a core that dies inside quiesce stays down |
| `LinksQuickCreate` | QuickCreate builds a fully working listener from name and protocol only (`listener/quick.go:112`) | autofill gives a VLESS or VMess user no name and validation refuses it |

Met while modelling, without a run of their own.

Supervisor and updater. The crash notice fires for an intended exit when a Stop and
a Start both come before the waiter's verdict (`process.go:594`); quiesce itself
returns an error when the core dies between its two looks; an adopted process counts
as down while `cmd` and `done` are those of an earlier dead child; after a recovery
that could not stop the candidate, installing that candidate again succeeds without
recording it; such a candidate becomes the previous version of the next update; an
update that begins in the two seconds before an automatic restart takes the core for
a stopped one. An automatic restart whose scan meets a configuration test of an apply
adopts it and reports success: when the test has ended the core is down, still
wanted, and without a waiter, so that nothing starts it again; a core that was started
by hand, is taken over and dies leaves the same. `RestartHappens` has both as its
outcome `pm.external`. After a job that reported `rolled_back` the core may have
crashed and failed to come back, which withdraws the wish: the report is about the
start, not about what runs now.

Regeneration. A configuration generated before a user change can be applied after
the one that has it, and stays (`listener/service.go:302`); a user blocked, let in by a
regeneration from elsewhere and blocked again between two ticks of the enforcer keeps
its access; an ApplyConfig that waits for `applyMu` throughout a switch goes ahead if
the job ends before its second check; a restored backup changes the file during a
switch, under the checks of its recovery (`system/backup.go:130`); the one regeneration of a user change that fails
is not retried unless the blocked set changes.

Apply. An automatic restart may be faster than the apply's own start: "already
running" then counts as a failure, and the core is stopped although it ran. A waiter
that wakes while a refused candidate lies on disk gives up for good. A failed start
leaves the core stopped. The error of the restoration after a failed validation is
ignored (`service.go:170`). A failed apply has already replaced the backup, so that a
rollback after it restores the current file. A failed restart without an old file leaves
the candidate. Where a core outlives the panel, the service's Start adopts it without
loading the new file and the apply reports success. `POST /system/backup/restore-db`
renames a configuration over the live file while the core runs another (`system/backup.go:130`);
nothing reloads it, and in the middle of an apply it is what the core judges and loads,
or what the apply's restoration overwrites.

Listeners. A delete that fails at its last statement gives the name back, but the
bindings are gone; a panel that dies in the middle leaves a live row under the freed
name. A panel that dies after the commit of a batch leaves rows that were never compared;
if they conflict, every generation is refused. A batch that was refused cannot
be tried again under the same names for its second listener: the tombstone cannot be
deleted beside the open transaction. A creation that conflicts is silently moved to a free
port. A refused request has still deleted the tombstone of its name. The service
compares a row's `listen` address where the core binds its interface: two rows that
the service keeps apart can make the generator refuse everything, or, one of them on the
IPv6 wildcard and the other on an IPv4 address, pass the generator too and leave the core
with an address that is taken. `AddressesConflict` and `PortRangesOverlap` are not used where the comment
in `validation.go:103` says so.

Links. A regeneration of the configuration page that read a row before a save writes
the old row back over it. A refused save leaves its minted pair on disk, and a creation
does not save its pair there until the next regeneration. With a user bound to it, a
Shadowsocks listener has the user's password while the subscription offers the
configuration's; two bound users make the compiler refuse it. The registry's links of
Snell and Sudoku take a bound user's password for the key. The client form of
shadow-tls v3 has no password. A client's Snell or Shadowsocks proxy has room for one
plugin: beside a wrapper, an obfs or kcptun block makes the client speak another
language than the listener (`PluginAndWrapper`). A row with `allow-insecure` loses it for good once a pair
is on disk. VMess and TrustTunnel links cannot ask for an unverified certificate. When
all users are blocked the core falls back to the users in the configuration. A user
whose password does not decrypt is offered every credential of the listener and so gets
in, where `user/service_creds.go:82` says its subscription fails.

Users. An update or a renewal that read a row before a traffic reset, a first use or
another edit undoes it (`user/service_crud.go:211`). A cycle that is switched off and on
again keeps the start of its old period, so that the first tick wipes the counters
(`traffic/cycle_renew.go:29`).

The comment in `start()` that calls `binaryPath` immutable is wrong since the
updater sets it, but harmless: `BinaryStable`.

### Fairness

`PMSafety`, for `RestartHappens`: the operation that holds `lifecycleMu` goes on, a waiter runs, and a
waiter that waits for `lifecycleMu` gets it in the end (strong fairness: Go
mutexes are starvation free); a process that was killed dies. Requests, crashes,
tests and outside processes are never forced. `RegenLive`: timers fire, the enforcer ticks, goroutines run, `applyMu` is
starvation free, and an apply that is attempted again and again does not fail for
ever. User changes, updates and panel restarts are never forced, and the panel does
not restart for ever (`<>[][~PanelRestart]_vars`): one that dies before every regeneration
of its start tries nothing.

## 4. Proofs

TLAPS proves for every value of the constants:

* `ProcessManager_proofs`. `IInv` is inductive (`Invariance`). `SingleChild` alone is
  not: that `start()` finds no child when it spawns needs what the fields describe
  (`ChildTracked`), and that needs what `stop()` leaves (`StopTracked`) and when a
  waiter may act (`RestartTracked`). `NoRevival` also needs `RetShape`. From it:
  `TypeCorrect`, `SingleChildHolds`, `NoRevivalHolds`, `SupervisedHolds`,
  `BinaryStableHolds`, and `Implementation`, that every step of the supervisor is
  a step of `CoreLifecycle` or leaves its variables alone. `StopInv` adds which
  process a stop has asked to go down, and which ones its scan has found
  (`AskedDown`), that a test runs beside no operation but an automatic restart
  (`TestAlone`), that from a finished stop until somebody starts the core the process
  the fields name is not up (`HaltedDown`), and that an orphan is one the next operation finds
  (`OrphanTracked`). The last one is true only under `FindsItsCores`: nobody starts a
  core by hand, and where a core outlives its panel there is one executable, because
  `scanProc` looks for a core by the path of the executable of now. So
  `StopIsFinalHolds` has that hypothesis; without it, for all constants,
  `StopEndsChildren`: after a stop no child of the running panel serves.
* `ConfigRegen_proofs`. `RegenInv` adds to `NoLostWakeup` who holds `applyMu`, that
  a queued callback belongs to a running job and that the start-up regeneration
  meets no update. From it `NoLostWakeupHolds` and `SwitchUndisturbedHolds`: whatever
  changes the file during a switch moves no regeneration and no lock, so it is the
  restoration of a backup.
* `CoreUpdate_proofs`. `UpdateInv` adds to the properties that memory repeats the
  disk (`MemoryTrue`), that the executables of a job stay on disk (`RunOnDisk`), that
  what is about to be committed is proven (`RunProven`) and what `recoverOld` knows
  when it reports: which executable the supervisor started last (`RunBack`; that the
  core is still wanted is not among it). From it `SelectionOnDiskHolds`, `ActiveProvenHolds`,
  `RunningOnDiskHolds` and `RolledBackTruthfulHolds`.
* `UserUsage_proofs`. `UsageInv` says who may still add which bytes: the counters and
  any copy of them that can be saved stay within the records (`Covered`), the
  records of a connection within the last sample, what the running tick has
  recorded and what the collector will have met twice (`RecordsTrue`), and samples are true
  (`SampleTrue`, `UnseenNew`); and days are claimed in order (`DaysClaimed`).
  `NeverOvercharged` alone says nothing of the bytes the next tick will add. From it
  `NeverOverchargedHolds`, `ChargedIsRecordedHolds` and `MonthlyOnceHolds`.
  `IPLimitHolds` is about the sort by connections and then by address: an address is
  kept when fewer than the limit come before it, so the kept ones embed into the first
  places (`EarlierGrows`, `KeptFits`), all are kept within the limit (`KeptAll`), and none
  that goes comes before one that stays (`KeptFirst`).
* `ConfigApply_proofs`. `ApplyInv` adds to `RunsTheFile` what is true while an apply
  runs: which content lies on disk at which statement, unless somebody else wrote it (`JobSane`), that the panel's core
  has the old content or the new one (`FileRuns`), that nothing runs or waits to be
  started where there was no file (`NothingToRun`), and that a finished check which missed its process
  remembers a pid that is gone (`CheckTrue`). `Moved` is what any start, stop or restart
  may make of the core; it keeps the cases few. From it `FileIsRun`, `ShownChecksHold`,
  and, where no core outlives the panel, `SuccessIsActive`, `FailureIsUndone` and
  `ApplyIsTransaction`: each step of an apply, of the supervisor, of a request or of a
  check is a step of `ConfigTransaction` or leaves its variables alone. The mapping
  takes the job's pc for open or closed and what it remembers for before and candidate;
  that a failure which is not torn aborts, `FileRuns` and `NothingToRun` say.
* `ListenerStore_proofs`. `StoreInv` needs that an unchecked batch is the only exception
  (`Checked`) and that nobody takes the name of a delete that may still fail (`JobSane`).
  From it `StoreSafe`, `NothingIsLost`, and `StoreGenerates`, which compares the three
  readings of ports and addresses; `Misread` is what it must leave out, and with the
  exception taken away the run has a counterexample of two creations.
* `ListenerConfig_proofs` is about one configuration and has no state. It follows every
  field through autofill, start-up and regeneration. A form that autofill and validation let
  through is `Shaped`, which start-up and regeneration keep (`SavedIsShaped`,
  `HydratedFields`); what a regeneration makes of a shaped row is `Secured`, and its pair is the
  row's, else the disk's, and only else a new one (`RegenerationSecures`). Doing it
  again changes nothing (`RegenerationSettles`), so the write-back comes to rest.
* `ListenerLife_proofs`. `NeverBare` alone is not inductive: what reaches the core comes
  from a row read earlier, so `LifeInv` says that row and running regeneration are shaped
  (`RowsShaped`), that every pair in use was minted (`PairsMinted`), that a pair shown to
  clients is on disk (`PairKept`, why no other is minted), and that an up-to-date core was
  compiled from the secured row of now (`UpToDate`). From it `LifeInvHolds`,
  `NeverBareHolds`, `NoRotationHolds`. `UpToDate` turns the other two properties
  into facts about one configuration: that each exporter's offer names kind, credential,
  TLS, REALITY, wrapper, transport, flow and plugin as the compiler did (`Describes`,
  `ProxyFields`) and trusts the panel's pair (`Trusts`). They are proved protocol by
  protocol for every combination of settings and any set of users, as
  `SubscriptionConnectsHolds` and `LinksConnectHolds`; the exceptions in the two
  properties are exactly the cases in which the proof breaks.

The type invariants are proved with them (`TypeCorrect`; `UpdateInv`, `ApplyInv`,
`StoreInv` and `LifeInv` contain theirs).

The assumptions are those stated with the constants, and `FindsItsCores` and
`ChildrenSurvive` where a theorem names them. Every safety and action property of a
passing run is the property of a theorem. Only checked by TLC: liveness (`RestartHappens`,
`EveryChangeTried`), since fairness and ENABLED are out of the prover's reach.

## 5. Not modelled

Texts, logs, status pages and file formats. Time: a timeout may happen whenever
its wait has not ended. Downloads and release metadata: one step. The template of the
configuration and the fragments added to it. Rates and the global traffic snapshot: the
dashboard's. Socket inspection: whether a listener is bound is a free choice. The size
and the expiry of the cache of checks: an entry may vanish at any time. In
`ListenerLife` cosmetic fields, remote links and rule templates are left out; the run
varies settings one at a time, the theorems do not.

Of a restored backup only the configuration file is modelled: the database it replaces
stays open until the panel is started again.

Devices (`hwid/`), tokens, sessions, cluster and Telegram have hazards of one kind
each, a check and a write with nothing between that would undo it: two devices beyond
the limit, a token stored twice, a whole row saved after a slow remote call, a notice
repeated, a synchronisation that failed half-way. They follow from the two statements, and no text of the code claims otherwise;
a model would only repeat them.

## 6. Plan

1. The composition of `ConfigApply` with `CoreUpdate`, which takes `applyMu` for a
   switch and keeps a file of its own.
2. `ClusterSync` (health checks, mirrors, pushes) and `Notifier` with the cron matcher
   as a pure function, if they grow beyond single statements.
3. Proofs: that `CoreUpdate` implements an abstract selection whose commit point is
   `selection.json`: a restart at any step finds the old choice or the new one.
