# testplay-runner: a TLA+ verification of its coordination code

`testplay` runs Unity test suites from the command line. Most of its code
starts a process and reads a file; the difficult part is the code that *shares*
something between processes that come and go: VHDX child disks and their parents
handed out by a Windows service, a running Unity Editor that is asked for test
runs through files, image stores and workers with lock files, scenarios whose
instances wait for each other. This directory holds TLA+ models of that part,
TLC configurations that check them on small instances, and TLAPS proofs.

Paths below are relative to `src/`.

## Files

| file | what it is |
| --- | --- |
| `LeaseBroker.tla` | the child leases of the VHDX broker: acquire, heartbeat, release, attach-retained, remove-retained, Recover |
| `MCLeaseBroker.tla` | model values; run by `LeaseAnyTiming`, `LeaseOrderly`, `LeaseLostUnityPid` (`.cfg`) |
| `LeaseBrokerProofs.tla` | proofs about `LeaseBroker`: types, exclusive use, where attached and retained children are |
| `ParentStore.tla` | the parent VHDX of a compatibility key: build transaction, RecoverPending, garbage collection |
| `MCParentStore.tla` | model values; run by `ParentStore.cfg` |
| `ParentStoreProofs.tla` | proofs about `ParentStore`: types, one builder, published parents stay and are verified |
| `WarmRequest.tla` | the abstract promise of the editor bridge: a run is executed at most once, and cold only if never warm |
| `Bridge.tla` | the editor bridge: Go client, request files, the bridge server in the Unity Editor, and the Test Framework as it reckons with it |
| `MCBridge.tla` | model values; run by `Bridge`, `BridgeForeign` (`.cfg`) |
| `BridgeProofs.tla` | proofs about `Bridge`: types, clean completion, and that it implements `WarmRequest` |
| `Scenario.tla`, `MCScenario.tla`, `Scenario.cfg` | the scenario runner with its dependency gates, and the bus file with its polling readers |
| `RunService.tla`, `MCRunService.tla`, `RunService.cfg`, `RunServiceProofs.tla` | one run from its directory to `os.Exit`: executor, status writers, monitor, signal handler, workspace, persistence; the proofs are about `RunService`, about `Scenario`, and about what the second assumes of the first |
| `ImageStore.tla`, `MCImageStore.tla`, `ImageStore.cfg`, `ImageStoreProofs.tla` | the Library images several runs share under a lock file |
| `StorageHelper.tla`, `StorageHelper.cfg`, `StorageHelperProofs.tla` | the storage helper process over the copy-on-write backend of macOS and Linux |
| `RefsWorkers.tla`, `MCRefsWorkers.tla`, `RefsWorkers.cfg`, `RefsWorkersProofs.tla` | baselines and workers of a managed ReFS pool |
| `RefsPool.tla`, `RefsPool.cfg`, `RefsPoolProofs.tla` | the pool itself: setup, commands, recoveries, and the three drivers that use it |
| `PROJECT.json` | components, runs, mutants, source map, findings, hazards, theorems |

## Inventory

For each component: the state it keeps, its operations, whom it talks to, what
is hard about it, and what makes it correct.

**VHDX broker, child leases** (`internal/vhdxworkspace/broker.go`). State:
`leases/<id>.json`, `children/<id>.vhdx`, `retained/<run>.json`, the workspace
directory with its owner marker and its `Library` mount point, and in memory the
map `Broker.children` of attached sessions. Operations: acquire, heartbeat,
release (destroy or retain), attach-retained, remove-retained, Recover.
Called by `testplay` processes through a named pipe; calls the native layer.
Hard: every request runs in its own goroutine and no lock covers a journal's
read-change-write; Recover decides on copies read when its pass began; broker,
client, Unity and machine die independently of each other. Correct when a lease
in use is never reclaimed, one that nobody uses is, nothing that is attached or
retained is ever forgotten, and a live Unity process keeps its disk.

**VHDX broker, parent store and garbage collection** (`store.go`, and
`beginParent` ... `ensureCapacityWithLimits` in `broker.go`). State:
`pending/<key>/`, `parents/<key>/`, `quarantine/`, and the map `Broker.parents`.
Operations: begin, commit and abort of a parent, RecoverPending, collection.
Hard: publication is a sequence of file operations with a rollback, and anything
may run between two of them. Correct when only a whole, verified build resolves,
one client builds at a time, and a parent in use is not collected.

**VHDX client in the run service** (`internal/runsvc/vhdx_workspace.go`). One
lease and at most one parent transaction per run, a heartbeat goroutine, and
release by the run's outcome; asks for the parent every 250 ms while another
client builds it. Correct when it always releases or leaves something recoverable.

**Native VHDX layer** (`internal/vhdxstorage`). virtdisk and volume calls with
undo; `PrepareDetachedStaleMount` removes the mount point a dead broker left.

**Broker request deduplication and pipe** (`Broker.Handle`, `pipe_windows.go`).
One cached response per request id, and a channel on which a concurrent duplicate
waits. Correct when a request has its effect once and every copy gets its answer.

**Editor bridge, Go side** (`internal/bridge`, `internal/unity/bridge_executor.go`)
and **Unity side** (`unity/com.testplay.bridge/Editor`). Requests, responses,
tombstones, cancel markers and pending responses are files; the editor's phase of
the active run survives a domain reload but not an editor restart. Hard: a reload
or restart in the middle of a run, cancellation that races completion, writes that
fail. Correct when a warm request executes at most once, and is executed again
cold only if it certainly did not start.

**Scenario runner** (`internal/scenario/runner.go`) and **IPC bus**
(`internal/ipc`). Goroutine per instance, ready and done channels per dependency,
a timeout; an append-only NDJSON file that polling readers follow by offset. Hard:
several channels become ready at once; a line that is half written when it is
read. Correct when no instance runs after a failed dependency, none waits for
ever, and no message is lost or read twice.

**Run service, status writer, Unity executor** (`internal/runsvc/service.go`,
`internal/status`, `internal/unity`). Execute, release, save, summarise, each of
which may override the exit code; a heartbeat and a signal handler that write the
same status file. Correct when the reported exit code is the stored one, the event
log tells how the run ended, and no workspace is left behind in silence.

**Library image store** (`internal/libraryimage`). Lock file with stale
takeover, staging directory and rename, quarantine, Clear. Correct when one
process builds an image and no image in use is removed.

**Storage helper** (`internal/storagehelper`). A child process with one lease, a
journal per lease and a scan for orphans before it acquires. Correct when its lease
ends with it or a journal tells the next helper, nothing of another program is
deleted, and what it answers is so.

**ReFS baselines and workers** (`internal/refsworkspace/worker.go`, `baseline.go`,
`coordination.go`). Creation lock, coordination lock, mutation and use markers,
worker reservation and a release that is resumed from milestones. Correct when a
baseline is not mutated in use, the budget holds, a worker that is handed out is
whole, and a release can go on wherever it was interrupted.

**ReFS pool** (`pool*.go`, `*recovery.go`, `release_diagnosis.go`, `residual.go`) and its
drivers (`unity_phase2.go`, `unity_parallel.go`, `gnf_unity.go`). State: two owner
records and a VHDX on the host, layout, `pool.json`, markers, journals and workers in
the volume. Setup and every command may fail or die at any call, and what was not
flushed may come back. Correct when an owned pool is a proven one, only an empty pool
is deleted, and the cleanup state that is reported is the true one.

**Shadow workspace, history, list cache, artifacts** (`internal/shadow`,
`history`, `listcache`, `artifacts`): what is copied, cached, stored and pruned.

**Storage install** (`cmd/testplay/storage_windows.go`): service-control calls.
**Command line, configuration, parser, keys, file helpers**: argument handling
and pure functions. **Probes, benchmarks, fixtures**: harnesses outside the system.

`PROJECT.json` lists the hazards of this code at their lines.

## Plan

In order of importance. All modules are written, and each has proofs.

1. `LeaseBroker`, `ParentStore`, `Bridge` (refining `WarmRequest`). *Checked and proved.*
2. `RunService`, `Scenario` (with the IPC bus), and that the runs of the first are those
   the second counts with. *Checked and proved.*
3. `RefsWorkers`, `RefsPool`, `ImageStore`, `StorageHelper`. *Checked and proved.*
4. Left: the hazards of `PROJECT.json` without a property; proofs that the answers the
   other modules take as free choices are those of the module that gives them, as is done
   for `Scenario` and `RunService`; shorter proofs where a step repeats another's.

The modules are not composed with each other by INSTANCE, except `Bridge` with
`WarmRequest`: they meet in answers, and each takes the answers of the others as free
choices among those the other module allows (`RunService` those of the broker and of
the bridge, `Scenario` the phases and exit codes of a run, `RefsPool` whether a worker
was acquired and released, which `RefsWorkers` takes apart). For `Scenario` and `RunService`
that the choices are the right ones is proved (`PhasesAsExpected`, `ReturnsAsExpected`).

Abstract specifications: the at-most-once request is a module of its own (`WarmRequest`),
which `Bridge` refines; a lease as exclusive ownership (`LeaseIsExclusive`), a parent as a
publish-once register (`PublishedIsVerified`, `PublishedStays`) and the dependency gate
(`GateRespected`) are stated over the state of their modules. No module uses RECURSIVE
operators or folds.

## LeaseBroker and the code

A lease is named by its run: the run id, the workspace id and the one lease of a
run coincide in `vhdx_workspace.go`.

| variable | code |
| --- | --- |
| `journal` | `leases/<id>.json`: state, retained flag, whether `UpdatedAt` is within the grace period, whether a Unity PID and a file identity are recorded, whether `BootSessionID` is the running boot |
| `child`, `record`, `space`, `library` | `children/<id>.vhdx`, `retained/<run>.json`, workspace directory with or without owner marker, mount point |
| `att`, `gen` | the native attachment and the number of the session that holds it |
| `children` | the entry of `Broker.children` |
| `task` | one program counter, journal copy and session per request handler at work on the lease: the owner's acquire or release, the monitor's heartbeat, the heartbeat with the Unity PID, a retained-workspace command |
| `rec` | the Recover pass: the journals `ListLeases` read, the entry in hand |
| `up`, `client`, `unity` | the service, the `testplay` process, its Unity process |
| `kept`, `pidKnown` | history: what was answered OK |

| actions | code |
| --- | --- |
| `AcquireRefused` ... `AcquireUnlink` | `Broker.acquire` with `AcquireChild` of the native layer, step by step, failures included |
| `HeartbeatRead`, `HeartbeatWrite` | `Broker.heartbeat` |
| `ReleaseBegin` ... `ReleaseForget` | `Broker.release` |
| `AttachBegin` ... `AttachPublish` | `Broker.attachRetained` |
| `RemoveBegin` ... `RemoveRecord` | `Broker.removeRetained` |
| `RecoverTick`, `RecoverPick` ... `RecoverDone` | `Broker.Recover`, at start and from the ticker |
| `Client*`, `Unity*` | the run service around `prepareVHDXWorkspace` |
| `GraceElapses`, `PassOutlastsGrace` | time against the grace period |
| `BrokerCrash`, `Reboot`, `BrokerStart` | the environment |

A step reaches up to the next durable write or native call of a handler, because
between two such points handlers share nothing. Any write, removal, verification
or native call may fail (`Fault`) as long as `MaxFaults` allows.

Abstractions. Opening, attaching and mounting in `AcquireChild`/`AttachChild` are
one step with its failure outcomes. A failed native release leaves the attachment
as it was. `ListLeases` reads all journals at once. The write of a `quarantined`
journal does not fail. PIDs are not reused and the boot id is known. A heartbeat
with the Unity PID is sent once per Unity process. Quota arithmetic is an
admission that may be refused. RecoverPending, which the same pass begins with,
is in `ParentStore`. Defined but unreachable cases of journals with foreign names
or versions are left out.

## ParentStore and the code

| variable | code |
| --- | --- |
| `pending`, `staging` | `pending/<key>/` with `pending.json` and `parent.staging.vhdx` |
| `parent` | `parents/<key>/`: directory, VHDX, `metadata.json`, `COMPLETE`, age of `LastUsedAt` |
| `quarantine` | the directories in `quarantine/` |
| `session` | the entry of `Broker.parents` |
| `lease` | the life of a child lease as far as collection looks at it |
| `task`, `client`, `gc`, `rec`, `up` | handlers, `testplay` processes, the collection, the RecoverPending pass, the service |
| `late` | history: leases journaled after the collection read what is protected |

`Begin*`, `Commit*`, `Abort*` are `beginParent`, `commitParent`, `abortParent` over
`Store.BeginParent`, `CommitParent`, `AbortParent`; `Acquire*`, `Release`,
`RecoverLease` stand for the lease module; `Gc*` is `ensureCapacityWithLimits` with
`RemoveParentIfUnused`; `Recover*` is `RecoverPending`; `Build` is the Unity import
between begin and commit. File operations follow Windows: a file that is open
cannot be removed, nor a directory that holds one be renamed. `Finalize` is split
into detaching and verifying. The collection reads attached children, protected
keys and the parent list in one step; splitting that would only widen the race
of a late lease told below.

## Bridge and the code

| variable | code |
| --- | --- |
| `request`, `response`, `tombstone`, `marker`, `pending`, `xml` | the files of a run: `.req.json`, `.resp.json`, `.tombstone.json`, `.cancel`, the private pending response, `results.xml` |
| `hand` | the handshake file: whose session, and whether it says idle |
| `client` | where `Client.Run` is, and what `ExecuteBridge` made of its outcome |
| `session`, `sessions` | the Editor process; a number stands for its `bridge_session_id`, workspace and PID |
| `slot` | the claimed run, its phase, and the cancellation keys in `SessionState`: they survive a domain reload, not a restart |
| `observer` | `s_controller`: none or sealed, no `RunStarted` seen, one seen, `RunFinished` seen |
| `job`, `foreign`, `restoring` | the Test Framework: the job of the run, one that somebody else started, a registry not yet restored after a reload |
| `executed`, `failed` | history: how often `Execute` accepted the run, whether an error was reported |

| actions | code |
| --- | --- |
| `Submit`, `Poll`, `Cancel` | `Probe`, `Client.Run`, `readResponse`, `readTombstone`, `writeCancel`, `ExecuteBridge` |
| `SealUnclaimed`, `RejectUnclaimed`, `Claim` | `ClaimNextRequest` |
| `CancelMarked`, `CancelUnread`, `Cancelling` | the heads of `Advance`, and `AdvanceCancelling` with `CancellationStateMachine` |
| `RefuseNew`, `Refresh`, `RefuseRefreshed`, `StartRun` | `AdvanceNew`, `AdvanceRefreshing`, `StartRun` |
| `ObserveCompletion`, `Publish` | `AdvanceCompleting`, `PublishCompletedResponse` |
| `Job*`, `Foreign*` with `OnRunStarted`, `OnRunFinished`, `OnError` | the Test Framework (external) and the callbacks of `TestRunController` |
| `DomainReload`, `GraceElapses` | `BridgeServer.Start` after a reload, `KeyCancelNotBefore` |
| `Restored`, `EditorEnds`, `EditorStarts`, `HandshakeExpires`, `ClientKilled` | the environment |

The Editor runs the bridge on one thread, so that an update, or a callback, is one
step; with it go the helpers it calls (`BeginCancellation`, `FinishTerminal`,
`TryWriteTerminal`, `WriteTombstone` ...), each of whose writes may fail. Files are
written by rename, so a reader sees a whole file or none.

Abstractions. Only protocol 3 and the warm-test capability. The Pristine Gate,
compilation and Play Mode are a free choice between going on and each refusal the
code has; the deadline may pass at any time. One update deals with one unclaimed
request where `ClaimNextRequest` walks over all that are sealed or rejected.
`TryCancel` has no effect of its own: a job may end, with or without callbacks, at
any time. Probes are not spaced by `CancelProbeIntervalMs`. An observer that
`Execute` calls back before it returns is one that is called right after. What the
Test Framework does is taken from comments of the bridge: `RunFinished` may be
omitted (`RunActivityMonitor.cs:6`), its cleanup takes a frame after `RunFinished`
and may report errors, which are late by no more than that frame (`FrameOver`), and
after a reload it has its registry back within the grace of 500 ms. Branches for a
request that is answered while claimed, a lost pending response, a completing run
without GUID or a changed identity have no cause in the model.

## Scenario and the code

| variable | code |
| --- | --- |
| `scenario`, `command`, `exitCode` | the scenario file, where `runScenario` is, the exit code it reports |
| `stage`, `log`, `verdict`, `results`, `ready`, `done` | the goroutine of each instance, the phases it has written, the outcome it is about to record, `InstanceResult`, its two channels |
| `cancelled` | the context of the scenario is done |
| `ipc` | whether the bus directory and file could be made (`BusOutcomes`); without them the scenario runs without a bus |
| `orchErrs` | the orchestration errors: a fast fail with what it quoted, or a timeout |
| `bus`, `offset`, `reader`, `ipcEvents`, `skipped` | `bus.ndjson`, and for each polling reader its offset, whether it runs, what it delivered and what it met half-written |

`Load` is `scenario.Load` with its validation (`Acyclic`, `PhasesAgree`,
`ValidSignalPhases`); `SeesReady`, `SeesDone`, `SeesTimeout`, `SeesCancel` are the arms of
the `select` in `RunScenario`, any of which may be chosen when several are ready, with the
second look at the ready channel in `SeesDone`; `Write` is `readyNotifier.Write`;
`Send`, `SendRest`, `Poll`, `StopReader` are `BusWriter.Append` and `PollingReader`. The
files considered are every pair of phases between an instance and a dependent, chains,
dependents that share a dependency, and files that must be refused. A bus line may be
written in two parts, and a poll between them skips it. The run of an instance is the
phases it writes and one of four exit codes whose order by severity is not that of the
numbers; which phases can follow (`PhasesAfter`) and which outcomes (`OutcomesAfter`) is the
contract with `RunService`. A line longer than the scanner's megabyte is left out. The names
are those that let the module be extended together with `RunService`.

## RunService and the code

| variable | code |
| --- | --- |
| `req`, `pc`, `phase` | the request, where `Service.Run` is, the invocation of Unity |
| `ctx`, `cut`, `handler`, `strikes` | what ended the context of the run and that of Unity, the goroutine of `setupSignals`, failed heartbeats in a row |
| `mgr`, `write`, `beat`, `file`, `events` | `Manager.last`, the writes between the mutex and the file of the main goroutine and of the heartbeat, `status.json`, `events.ndjson` |
| `kind`, `shell`, `child`, `lease`, `answer`, `pending` | the backend chosen, the workspace directory, the child, the lease, the cached answer of the broker, `workspaceCleanupPending` |
| `raw`, `exit`, `infra`, `saved`, `summary`, `manifest`, `warnings` | the exit code of the execution and of the process, a returned error, the codes on disk, what the response warns of |

Its actions follow `Service.Run` from the artifact directory over the bridge, the
backend with the fallback of `auto`, execution in one or two phases with the
classification of every ending (`executor.go`), the write-back of the Library cache,
release, result, summary, manifest and the deferred retry of a failed release, to
`os.Exit`. Beside it run the heartbeat of the status file, the monitor of the child, the
signal handler and the deadline. A call fails for a reason of its own at most
`MaxFaults` times, and whenever its context has ended. The broker is its answers: a
repeated release with the same request id gets the first answer again. Metrics, path
remapping, the comparison with an earlier run and the list cache are left out.

## ImageStore and the code

| variable | code |
| --- | --- |
| `image`, `stage`, `lock` | `images/<digest>`, `images/.<digest>.tmp-*`, `locks/<digest>.lock`, which may be empty, and older than `staleLockAge` |
| `pc`, `ok`, `seen`, `tries` | where `prepareImageWorkspace` is, whether Ensure succeeded, the lock contents read, the attempts of `acquireLock` |
| `meta`, `from`, `work` | the metadata of the image a run was given, who built it, the Library in its workspace |
| `raced`, `hit` | history: a lock was removed by one who had not read it; runs that lost files to a Clear |

A Library is two halves that name their builder, so that a removal takes files one at a
time and a copy reads them one at a time. `TryLock` ... `RemoveStale` are `acquireLock`,
`LockedResolve` ... `Commit` are `Ensure` with `createLocked`, `ReadToken` and `Unlink` the
release, `Verify` ... `Compare` the materialization. One key is modelled; the staging
directories and locks of other keys are separate files. The liveness check is that of
Unix; on Windows every pid counts as alive, so that a lock is never taken over.

## StorageHelper and the code

| variable | code |
| --- | --- |
| `journal` | `leases/<id>.json` of each lease |
| `child`, `grave`, `mount` | what lies at the child path, at its `.testplay-delete-*` name and at the mount path: nothing, ours, ours without its marker, or another program's |
| `pc`, `cur` | where the helper is, and the request it serves |
| `active`, `lease`, `next`, `records`, `released`, `interrupted` | its memory |
| `granted`, `freed`, `exit` | history: leases handed out and answered as released; the exit code |

`Acquire*` are `Server.acquire` and `unixBackend.Acquire`, `Fail*` its closure `fail`,
`Remove*` is `removeOwnedChild`, `Release*` are `releaseActive` and `unixLease.Release`. A
process may die at any step, be interrupted, and another one is then started on the same
store; other programs may replace what lies at the two paths (`Tamper`). Repeated
request ids and `hello`, which change nothing, are left out, and so are two helpers at
once on one mount path.

## RefsWorkers and the code

| variable | code |
| --- | --- |
| `pc`, `used`, `names`, `gen`, `done`, `reported`, `content` | a request in `Acquire` or `Release`: what it measured, listed and resolved, the milestones it counts, whether it was told of a failed cleanup, what its clone holds |
| `journal`, `staging`, `quarantine`, `worker`, `junction`, `marker`, `bytes` | the files of a worker |
| `reservation`, `coord`, `creation`, `mutation` | lock directories and the mutation marker, which nobody breaks |
| `base`, `discarded`, `kpc` ... | the baseline, what was quarantined, the keeper that ensures or clears it |

Every request is a process of its own, which includes the goroutines of one process. A
worker never writes more than its reserve, which is 1: the code measures, it does not
enforce. Release is one call with six milestones that may fail at each, between the
effect and its journal too, and is called again.

## RefsPool and the code

| variable | code |
| --- | --- |
| `host` | directories, pending record, owner record, VHDX |
| `mount`, `disk` | the attachment, and each entry of the volume: flushed, new, deleted but not flushed, or a journal torn by that |
| `svc` | the command that runs: its place, who called it, `cleanupSafe`, its error |
| `drv`, `acq`, `lease` | the locals of a driver, its acquiring goroutines, the leases it holds |
| `rec`, `diag`, `told` | the receipt of a recovery, the diagnosis, whether manual recovery was reported |

`Setup*` is `Service.Setup` with its deferred rollback; `Command*` are status, probe,
remove, recover-incomplete-setup, the two recoveries of a released worker and the
diagnosis, which share check, attach, read, flush and detach; the driver actions are
`RunUnityPhase2`, `RunUnityParallel` and `RunGNFUnity` with their deferred cleanup. After a
driver, or instead of one, an operator calls up to three commands. A worker inside the
volume is its marker, its journal and its tree; how it gets there is in `RefsWorkers`. A
synthetic probe makes its directory and deletes it again, so that a detach without a flush may
bring it back (`Probed`). A pool has no identity: the checks that compare one are passed, and
a removal forgets the diagnosis (`diag`), which names the pool it has seen.

`CleanupStateIsTrue` asks of every command and every driver that what it reports is so.
`Released` and `Preserved` say what the two words claim and each names the one report of the
code that is not true. `NoSilentDeadEnd` asks, while nobody was told of a recovery by hand and
no process died, that whatever is on the host is a pool that a command takes away, with the
checks of the host (`OwnedPool`) and those of the volume (`Ready`, and what `Residual` holds:
nothing for remove, a marker, or a marker and a torn journal, for the two recoveries), or one
of the cases of `DeadEnd`, which no command takes. The two lists of exceptions are
disagreements between code and documentation, or weaknesses, and are described below.

## What each run checks

| run | shows |
| --- | --- |
| `lease_any_timing` | Without any assumption on timing, under one injected failure and one crash or reboot: the types, `RunningLeaseMounted` (a lease in use keeps child, journal, workspace and mount), its inductive form `LeaseIsExclusive`, and `MountIsAccountedFor` (what is attached can be found again) |
| `lease_orderly` | Under the timing assumption, two failures and two crashes or reboots: `ChildIsJournaled`, `RetainedKept`, and the liveness property `LeaseSettles` |
| `lease_lost_unity_pid` | violation of `LiveUnityKeepsChild` |
| `parent_store` | Two clients of one key, two failures, two kills, one crash or reboot: types, `PublishedIsVerified`, `OneBuilder`, `PublishedStays`, and the liveness property `WaitingEnds` |
| `bridge` | One run, two Editor processes, two domain reloads, one foreign run, two failures: types, `CompletedIsClean` (two inactive observations cover the cleanup frame), the refinement `ExecutedOnce`, and the liveness property `EditorFrees` |
| `bridge_foreign` | violation of `ForeignNeverCompletes` |
| `scenario` | Over all those files, cancellation, timeouts and half-written lines: types, `GateIsTrue` (dependents run only after their phase; a fast fail has a reason and quotes the final result and the last message), `EventsComplete` (no whole line is lost or doubled), and the liveness property `Terminates` with the most severe exit code |
| `run_service` | Eight requests, two failures anywhere, a deadline, a signal and an unsafe volume at any time: types, `ExitTellsPersisted`, `WorkspaceIsAccountedFor`, and the liveness property `RunEnds` with a true event log |
| `image_store` | Three runs, one Clear, one death: `HandedOutIsWhole`, `BuildIsNeeded`, `PublishedStays` |
| `storage_helper` | Two helpers one after the other, two failures, one crash, one replacement: `ForeignIsPreserved`, `NothingUnjournaled`, `AnswerIsTrue` |
| `refs_workers` | Two requests and a keeper, two failures, a corruption, a crash: types, `WithinBudget`, `HandedOutIsWhole` (with `BaselineHeld`), `NothingLeftSilently`, `ReleaseCanGoOn` |
| `refs_pool` | Every driver with two workers, three commands, two failures, a crash: types, `OwnerIsProven`, `RemovedOnlyWhenEmpty`, `CleanupStateIsTrue`, `NoSilentDeadEnd` |

Deadlock is not checked in these runs: a system whose clients are all gone and whose
leases are settled, a scenario that has reported, a process that has exited and a pool
that nobody uses rightly stop.

### Where code and documentation part

- `lease_lost_unity_pid`. `heartbeat` (`broker.go:549`) reads, changes and writes
  the journal without a lock. A monitor heartbeat that overlaps the one with the
  Unity PID writes the journal back without it; no later heartbeat repeats it, and
  when the client dies Recover deletes the child under the live Unity process.
- `bridge_foreign`. `TestRunController` counts `RunStarted` callbacks and never looks
  at the GUID it keeps (`TestRunController.cs:100`). When the Test Framework drops
  the owned job without `RunFinished`, the next run that a person starts is taken
  for it and its results are reported as those of the request.

The quoted documentation is in the findings of `PROJECT.json`. Other disagreements, and
weaknesses the properties had to make room for, are in the models but have no
run of their own:

- A lease admitted between the reading of what is protected (`broker.go:710`) and the
  removal loses its parent; `docs/differencing-vhdx-workspace-provider.md:117` says an
  active parent is never deleted (`late` in `ParentStore`).
- After a broker crash the mount point of an attached retained child makes
  `attachRetained` refuse the workspace (`broker.go:303`) before
  `PrepareDetachedStaleMount` could remove it.
- After a crash between moving the VHDX and writing `COMPLETE` (`store.go:217`) nothing
  moves the partial parent to quarantine, and every later commit of the key fails.
- A heartbeat that was preempted between mutex and file puts an older phase into
  `status.json` (`status/manager.go:58`). The event log is not affected.
- A bus line met half-written is counted as read, and lost to that reader
  (`ipc/reader.go:138`).
- Two runs may take over one stale image lock: the comment at `libraryimage/lock.go:73`
  says a live lock is never deleted, but the name may have a new lock between the
  re-read and `os.Remove` (`raced`). An empty lock file, left by a death between
  create and write, is a conflict for good.
- A Clear that listed the locks before a build began takes files of its staging
  directory; when that happens before the hash is taken, the image is valid and not whole
  (`hit`).
- A release of the storage helper that failed after it had removed the link can never
  succeed: the next one finds no link. An acquire that failed and was taken back in full
  leaves a quarantined journal that stops every later one. `Acquire` removes whatever
  single file has replaced the empty mount directory since it looked
  (`lifecycle_unix.go:184`). After an interrupt every request fails, but the cleanup at
  the end of input has a new context and works.
- A release of a ReFS worker whose owner file was renamed and not read again, or deleted
  before the rest, can never go on (`OwnerUnread`).
- A ReFS setup that dies after `pool.json` and before the commit leaves a pool that
  recover-incomplete-setup refuses ("normal remove is required",
  `refsworkspace/recovery.go:137`) and that remove refuses, because its owner is pending;
  `docs/managed-refs-library-pool-probe.md:294-298` offers no third command.
- A ReFS setup that fails after its commit reports `released`, with the whole pool there
  (`refsworkspace/pool.go:179-183`, `378`; `RunUnityPhase2` copies the word into its summary);
  `docs/managed-refs-library-pool-probe.md:322` has `preserved` for a pool that is kept
  (`Released`).
- The recovery of a corrupt journal that cannot write its last receipt, `pool-removed`
  (`corrupt_release_recovery.go:255`), reports `preserved` with the path of a VHDX that it has
  deleted: its deferred function (`127-129`) overrides every code but that of a failed cleanup
  (`Preserved`).
- ReFS pools that no command takes although nobody was told (`DeadEnd`): directories and at
  most a bare record of a setup that failed early, which setup (unless it finds no more than the
  first directory) and the recovery both refuse (`pool.go:109`, `128`); both records after two failures in `commitPendingOwner`
  (`pool_transaction.go:101`); the directory of a synthetic probe that came back because the
  probe failed before its flush; and the staging, creation lock or quarantine of a baseline that
  failed (`baseline.go:123`, `156`) or what a failed acquire or release of a worker left, which
  remove refuses for good (`pool.go:586-632`) while the driver says `preserved` with
  `manualRecoveryRequired` false.
- `RunGNFUnity` returns at the first failed acquire while others go on
  (`gnf_unity.go:548`, `Abandoned`).
- The recovery of a corrupt journal asks for an error text (`verify-worker-release-residual`)
  that no present driver writes; the model takes a run that released its worker and
  failed for one that does (`Evidence`).

### Bounds

- `LeaseBroker` runs have one lease. Handlers of different leases share no
  variable; only the Recover pass walks over several, and what it does to one
  depends on its copy of that one. The proofs cover any set of leases.
- `ParentStore` runs have one key and two clients: different keys share only the
  quarantine and the collection, and two clients suffice for a builder and a
  waiter, or a lease and a collection.
- `Bridge` runs have one run: the Editor claims one at a time, and what an earlier
  one leaves behind in the Test Framework, a job that still runs, is what `foreign`
  is to a later one. `MaxSessions` 2 and `MaxReloads` 2: a restart, and a reload
  inside the recovery from a reload. `MaxFaults` 2: a response and the tombstone
  that replaces it both fail. `MaxForeign` 1 makes a callback stream ambiguous.
- `LeaseBroker`: `MaxSessions` 6: an acquire, two recoveries and several attachments of the
  retained child. `MaxFaults`, `MaxOutages`, `MaxKills` 1 or 2: enough for a
  failure inside the handling of an earlier one.

- `Scenario`: three instances make a chain and a fork; more only repeat them. One bus line
  has a writer and two readers, and an offset inside it is enough to lose it.
- `RunService`: eight requests reach every backend, phase and bridge mode; two failures are
  a failing release and the failing of its retry, or of what is saved after it. One tick of
  the heartbeat suffices to overlap a write.
- `ImageStore`: a holder that dies and two that take over; symmetry over the runs, whose
  identities no property tells apart.
- `StorageHelper`: three request ids for each of two helpers are an acquire and two
  releases; two failures are one in the operation and one in its cleanup.
- `RefsWorkers`: two requests for the same lease, for two with room for one, for two with
  room for both, and after a keeper that died.
- `RefsPool`: two workers are a first and a last one, which the drivers treat differently.
  Two failures and a crash: an operation, its cleanup, and what comes after.

### Timing and fairness

`Orderly` says that a heartbeat gap, a handler and a Recover pass end within the
grace period, and that a retained-workspace command comes after the run's own
release has ended. `Prompt` says the same of a handler against a Unity build and the pending
grace period. `lease_any_timing` does without, and so do all theorems but three:
`PublishedVerified` assumes `Prompt`, `ChildJournaled` and `RetainedStays` assume `Orderly`.

Weak fairness is assumed of the handlers (goroutines are scheduled), of the
Recover pass and its ticker (five seconds, `service_windows.go:61-72`), of the
grace period (time passes), and of `BrokerStart`: the service is installed to
start automatically (`storage_windows.go:113`), and has no recovery actions, so a
crashed broker waits for an operator or the next boot. In `ParentStore` also of
clients: they poll (`vhdx_workspace.go:211`) and their Unity builds end. In `Bridge`
of the update (`EditorApplication.update` runs in every frame), of jobs and foreign
runs (tests end), of the grace and the registry, and of the context of a client,
which times out (`timeout.total_ms`); a restart of the Editor is not assumed. Nothing is
assumed of clients, Unity or commands in `LeaseBroker`. In `Scenario` weak fairness is assumed
of the command, of every instance (a run ends, by `RunEnds`) and of the stopping of its
reader, but not of the timeout of a wait. In `RunService` of the main goroutine, of the
deadline (`timeout.total_ms` bounds every run) and of the end of a Unity process that was
told to stop (`runner.go:45-88` kills it); not of the heartbeat, the monitor or the
handler. `ImageStore`, `StorageHelper`, `RefsWorkers` and `RefsPool` state safety only and
assume no fairness: nothing there waits for another process, a conflict is an error.

## What is proved

Each theorem holds for every value of the constants that the one ASSUME of its module
allows: any set of leases, clients, keys, runs or workers (a finite one where the code
counts them), and any bound on failures, crashes, restarts and commands. The ASSUMEs give
the constants their types and say that `None` is nothing else; TLC evaluates them on every
run. Beyond them only three theorems assume anything, `Prompt` or `Orderly`.

An invariant that a run checks is seldom inductive. For each module the proofs define a
stronger one, which was checked with TLC as an invariant of the module's run before it was
proved, and show that the initial states have it, that every step keeps it and that it
implies what is claimed. Where a module has many records the step of an action is proved
in two parts: what the action does to each record (`<2>b`), and then, from that alone, each
conjunct of the invariant.

| module | theorems | inductive invariant |
| --- | --- | --- |
| `LeaseBrokerProofs` | `TypeCorrect`, `LeaseExclusive`, `RunningStaysMounted`, `MountAccounted`, `ChildJournaled`, `RetainedStays` | `TypeOK`; `LeaseIsExclusive`; `MountIsSafe`; `OrderIsKept` |
| `ParentStoreProofs` | `TypeCorrect`, `BuilderAlone`, `ParentStays`, `PublishedVerified` | `StoreInv`; `PromptInv` |
| `BridgeProofs` | `TypeCorrect`, `CompletedClean`, `BridgeImplementsWarmRequest` | `BridgeInv` |
| `RunServiceProofs` | `TypeCorrect`, `CodesPersisted`, `WorkspaceAccounted`, `EventsTrue` | `RunInv` |
| | of `Scenario`: `ScenarioTypeCorrect`, `GateHolds`, `EventsHold`, `WorstReported` | `ScenarioInv`; `ReportInv` |
| | of both: `PhasesAsExpected`, `ReturnsAsExpected` | `ContractInv` |
| `ImageStoreProofs` | `HandedOutWhole`, `BuildNeeded`, `PublishedRemains` | `StoreInv` |
| `StorageHelperProofs` | `NothingIsUnjournaled`, `AnswersAreTrue`, `ForeignStays` | `HelperInv` |
| `RefsWorkersProofs` | `TypeCorrect`, `HandedOutWhole`, `NothingLeft`, `ReleaseGoesOn`, `BudgetHolds` | `PoolInv`; `RoomInv` |
| `RefsPoolProofs` | `TypeCorrect`, `OwnerProven`, `RemovedEmpty`, `CleanupTrue`, `NoDeadEnd` | `PoolInv` |

**LeaseBroker.** `RunningLeaseMounted` is not inductive: nothing in it keeps a Recover
pass or a retained command from holding the lease already. `LeaseIsExclusive` adds that
as long as a client claims its lease every copy of its journal, on disk, in a handler or in
the pass, is of this boot, no pass or command holds it (`Unseized`), that a prepared client
has no handlers (`Untouched`), and what an acquire has built at each of its program
counters (`Building`). `MountIsAccountedFor` needs to know that nothing identifies a child
before its acquire has committed it (`Unidentified`), that what identifies one, on disk or
in a copy, is in an owned workspace with a journal until that workspace is removed
(`InWorkspace`), and that an acquire that gave up holds nothing attached; with that it
holds for any timing. `ChildIsJournaled` and `RetainedKept` do not: a late heartbeat or
release can outlive the pass that removed its lease. Under `Orderly`, what Recover will not
preserve nobody is at work on (`Abandoned`), no handler writes a doomed journal
(`Current`), a release has the session of its lease and then what it kept (`Released`), and
whoever holds a session holds the one that is attached (`Attached`).

**ParentStore.** One builder per key follows from which handler a client waits for and
which directory a commit writes (`TaskInv`, `WriterInv`), and a collection that has begun
to remove meets no writer (`GcInv`). That a published parent stays, but for a collection
which found it unused, is an action property: each step that changes a parent directory
is named (`ParentStep`). `PublishedIsVerified` needs `Prompt`, because a pending record
that is swept while its build goes on lets two builds share one staging file; with it,
that a commit is alone with its VHDX (`AloneInv`) and moves the one it verified (`OwnInv`).
The attempt to prove `OneBuilder` found an error of the model (`pending.json` is
written exclusively and its directory is removed only when empty, `store.go:128-131`; the
model let the write replace the record of another client) that only three clients of one
key could reach: the run has two.

**Bridge.** `BridgeInv` says which session a request, a handshake and an editor belong to,
that the claimed run is unanswered and its phase tells whether its tests were executed
(`SlotInv`), that what testplay can read agrees with it (`RunInv`), and that an answer, once
written, is the last word (`AnswerInv`). The refinement is shown step by step: under the
mapping each action is a step of `WarmRequest` or a stutter.

**RunService.** `RunInv` follows one run through `Service.Run`: which codes are already
stored at which place (`CodesInv`), what the backend, the child, the lease and the cached
answer are there (`WorkspaceInv`), what ended which context (`ContextInv`), and that the
status writers between mutex and file agree with the event log (`EventsInv`). `EventsTrue`
is the safety part of the liveness property `RunEnds`, in every state.

**Scenario.** `GateIsTrue` speaks of the phases an instance has written, and the code of
channels: `ScenarioInv` says that a ready channel is closed exactly when the signal phase
was written and a done channel when the goroutine is through (`SignalInv`), and that who
runs has seen the one and who gave up has seen the other without the first (`GateInv`).
That both ends of a gate derive the same phase from the file is a lemma about the
validation (`SignalIsAsked`). `EventsComplete` needs what a reader has emitted (`EmittedInv`),
and what a reader that its owner stopped has read, all that the owner sent and all that a
dependency sent whose end the owner saw (`StoppedInv`), so that the message a fast fail
quotes is the last one (`ErrorInv`). What an error quotes about a dependency was final when
it was read, because a done channel is closed after the result is written. `WorstReported`
is the safety part of `Terminates`: the exit code says 0 only when every instance passed,
and no step changes it after the report.

Three points came out of the proofs. The type of the exit code did not follow: a file without
instances has no most severe code, and the model let it load (`spec.go:144` refuses it; no
file of the run was empty). The outcomes of a run were a CASE whose arms overlapped on the
empty log, where the meaning of `Last` is open; they are nested conditions now. And the
order of the emitted lines and the last message heard were operators of the community
modules that the proof system cannot look into; `InOrder` and `LastReceivedFrom` now say the
same in terms of sets of positions, and the lemma that lines read later come after those read before
(`OrderAppends`) rests on the order of the numbers, with a least counterexample in the
place of an induction.

**RunService as an instance of Scenario.** `Scenario` lets an instance write the phases of
`PhasesAfter` and return the outcomes of `OutcomesAfter`. The last part of `RunServiceProofs`
takes a run of `RunService` with the bridge disabled, as `runScenario` starts its instances
(`cmd/testplay/run.go:316`), and counts what it has written as `Scenario` does (`Written`,
which does not distinguish the ways of being cut short). `ContractInv` says which phase is
the last one in each part of a run and which codes it comes with. Then no step of a run
writes a phase that `Scenario` would not expect next, and what it returns is an outcome
`Scenario` knows. Both theorems hold with all failures, deadlines and signals of `RunService`.

**ImageStore.** Until a lock is removed unjudged (`raced`), who is between the lock and its
release holds it; who makes an image found none that is valid; what is staged is its
maker's; and a copy that counts right was not disturbed.

**StorageHelper.** What is at the paths at each place of an acquire, a removal and a release
(`InPlace`), what the journals and the memory of the helper say of it (`OneActive`,
`Owned`), and what was handed out and answered (`Granted`). `ForeignIsPreserved` is an
action property of every step but the one removal that the code does by path alone.

**RefsWorkers.** `PoolInv` says which locks each place holds, that journal, marker and tree
are in place as far as a request got or a release has come, and that what a failed call
left was reported. The budget needs `RoomInv`: what a request measured is still an upper
bound when it reserves, because only the holder of the coordination lock adds. The
reserved bytes are the cardinality of a set of journals, as every reserve is 1; a sum over
them would need induction.

**RefsPool.** `PoolInv` has a part for each thing that a command relies on: who called it
(`CallInv`), where the volume is attached (`MountInv`), that a detached volume is settled
(`VolumeInv`), how far a setup has come (`SetupInv`), what is on the host while a command
runs and when it has returned (`CommandInv`, `ResultInv`), that without a crash or a report
what is on the host is a whole pool or the little that an early setup has made (`WholeInv`),
that a driver that keeps its pool stands for everything it has left in the volume (`LeftInv`),
what a driver knows of its pool and of its workers (`DriverInv`, `LeaseInv`), and that what
remove has measured stays so (`EmptyInv`). `NoDeadEnd` puts `WholeInv`, `LeftInv` and
`OwnerIsProven` together: an owned pool has its layout, and either nothing beside a probe
directory in its volume or a driver that has kept it. `RemovedEmpty` names the two actions
that delete a VHDX.

Only model-checked: liveness and fairness (`LeaseSettles`, `WaitingEnds`, `EditorFrees`,
`Terminates`, `RunEnds`), which are outside what the proof system does, and the two runs that
find a violation. Every invariant and every safety property of a step that a run checks has
its theorem.

## Not modelled

- Broker request deduplication beyond the repeated release, and the named pipe: two maps
  behind one mutex.
- Usage accounting and the quota arithmetic, and what a copy, a clone of blocks or a hash
  does; formats of files, metrics and wording.
- The Library cache of the shadow workspace, the pruning of history and artifacts by other
  runs, the list cache.
- Progress streaming, protocol 2 and the compile capability of the bridge.
- Installation, argument handling, configuration and result parsing, which have no
  concurrent state of their own; the probes, benchmarks and fixtures that measure the
  system from outside, apart from the ReFS drivers.
