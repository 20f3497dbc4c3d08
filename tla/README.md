# Verification of the AI Studio server

TLA+ models of the server under `src/server/src` (paths below are relative to
it), TLC runs over small instances, and TLAPS proofs. `PROJECT.json` lists the
runs, the mutants, the hazards and the source lines of every definition.

    tlc -workers 2 -config GLSweeps.cfg MCGenerationLifecycle.tla
    tlapm GenerationLifecycleClaims.tla

## 1. The system

The server turns a project's blueprint into a generated game. It may run as
several processes over one PostgreSQL table, `kv_store(collection, id, data)`.

| component | state it keeps | operations | hard because |
|---|---|---|---|
| **Durable storage** `platform/storage` | rows of `kv_store`; per process a read cache, a write queue, a connected flag | get/set, setDurable, deleteDurable, applyDurableBatch (one transaction, requireAbsent), refresh, flush, healthCheck | caches of other processes are stale; a refresh races the writes queued behind it; commits whose acknowledgement is lost |
| **Generation lifecycle** `platform/projects`, `projects/services/game-generation.service.ts`, `socket/pipelineEventBridge.ts`, `execution/executionQueue.ts` | executions, history, active claims, start requests, recovery claims, projects; per process a worker queue and project locks | start (with Idempotency-Key), replay, run, outcome, boot and shutdown sweeps, edit, erase | several processes, crashes, retries, decisions taken from a cache before a transaction |
| **Studio export** `studio/v2` | evidence per command and project, version claims; per process clients, sessions, queues | queue, poll, acknowledge, report, reconcile | lost and repeated polls, superseded commands, several processes |
| **Autonomous sessions** `orchestrator` | session records, execution and recovery claims; per process running phases and abort controllers | start, pause, resume, cancel, recover, checkpoints | every operation is refresh, read, save: others write in between |
| **Pipeline engine** `pipeline/v2` | pipeline states and checkpoints, recovery claims; which projects are active | start, run, pause, resume, cancel, retry, recovery | executors go on after pause and cancel, with a copy of the record |
| **Artifact store** `pipeline/v2/ArtifactStore.ts`, `studio/artifacts`, `repair`, `studio/v2/sync` | artifacts, package markers, repair history | record, repair, edit, deliver | a package is many writes; edits and repairs come between them |
| **Job engine** `jobs` | job table, priority queue, slots, metrics | submit, cancel, timeout, retry, history | timeouts do not stop the work; bounded queue |
| **Execution pool** `distributed/execution` | job queue, dead letters, workers | submit, poll, time out, revive, scale | timing out and scaling race the running job |
| **Generation queue** `platform/queue` | job table and list | enqueue, dequeue, complete, fail, cancel | any order of calls |
| **Plans** `planning` | one task graph per plan, shared by its executions | validate, select, execute | two requests walk one graph; failures skip tasks |
| Accounts, agents and content, HTTP surface, plugin and client | - | - | section 6 |

How they interact: routes call the coordinators; the coordinators read the
storage cache and commit batches; a committed start enqueues the run on its own
process; the run emits pipeline events, whose bridge writes project and history
rows before the outcome coordinator does; boot and shutdown sweep what is left
`running`. A session, a pipeline, a generation and a plan are different ways to
run agents, each with its own records and its own recovery; none reads another's.
What a generation made is recorded as a package of artifacts, which Studio
exports deliver, Studio edits change and repairs derive further packages from.
Everything that outlives a process is in `kv_store`.

What makes each part correct: at most one run per project and one run per
idempotency key, whichever process is asked (lifecycle); nothing published that
was not committed, and nothing committed that stays invisible (storage); each
export delivered and concluded once (studio); a paused or cancelled session
stays so and loses no checkpoint (sessions); stages done in order, whatever
writes over what, and no project held for ever (pipelines); a package delivered
whole or not at all (artifacts); every accepted job ends, within its slots (job
engine, pool); no task before what it builds on, none forgotten (plans).

## 2. Modules

| module | what it holds |
|---|---|
| `GenerationLifecycle` | the lifecycle: state, actions, `Spec`, `FairSpec`, properties |
| `MCGenerationLifecycle` | its TLC workloads: which attempt uses which project, key, caller |
| `GenerationLifecycleTypes` | proof of `Spec => []TypeOK` and the type lemmas |
| `GenerationLifecycleClaims` | inductive invariant `ClaimInv`, proofs of `RunningHoldsClaim`, `WorkersAreRecorded` and `TerminalStands` |
| `GenerationLifecycleRows` | `KeyInv` and `HistoryInv`, proofs of `OneExecutionPerKey`, `SameRequestSameExecution`, `ReplayAnswersOwnRequest` and `HistoryAgrees` |
| `GenerationLifecycleRelease` | inductive invariant `ReleaseInv`, proof of `ClaimReleasedWithRun` |
| `OrderedStore` | what the storage layer promises: the abstract specification |
| `DurableStore` | the PostgreSQL provider of each process, shown to implement `OrderedStore` |
| `StudioExport` | exports to Studio clients over the evidence rows |
| `StudioExportProofs` | proof of its `Spec => []TypeOK`; `EvidenceInv`, `VerdictInv` and `HandInv`, proofs of `TransitionsChain`, `EndedStands`, `VerdictsAgree` and `HandedOverOnce` |
| `AutonomousSession` | one session over its row, with its executions and requests |
| `PipelineEngine` | the pipelines of a project, their executors and their writes |
| `PipelineEngineProofs` | `PipelineInv` and what it is strengthened with, proofs of the types, of `StagesInOrder`, `CompletedStagesExact` and `NothingRunsAlone` |
| `JobEngine`, `GenerationQueue` | the two in-memory job queues |
| `ExecutionPool` | coordinator, workers and queue of `/api/distributed` |
| `PipelinePlanner` | validation of a pipeline definition (cycles) and selection |
| `PlanExecution` | executions of one plan over one shared graph |
| `ArtifactStore` | the packages of a project: recorded, repaired, edited, delivered |
| `MCDurableStore`, `MCStudioExport`, `MCAutonomousSession` | TLC instances |
| `MCStorage` | `DurableStore` on two processes and `ArtifactStore`, one per behaviour |
| `StorageProofs` | of `DurableStore`: `QueueInv`, `CacheInv` and `ShownInv`, proofs of its types, of `CloseCutsOnlyLateWrites`, `AtRestCacheIsExact` and of the refinement of `OrderedStore`; of `ArtifactStore`: `PackageInv`, proof of `DeliveredIsCoherent`; of both: `StorageTypeOK` |
| `MCServices` | the services that share no state, one per behaviour |
| `ServicesProofs` | an invariant for each of them, proofs of the types and of all safety properties of `services`; `WalkInv`, the correctness of the walk for cycles |

### GenerationLifecycle

*State.* `db` is the six collections of `kv_store` the lifecycle uses
(`projects`, blueprints, `generation_active_claims`, `generation_executions`,
`generation_history`, `generation_start_requests`), `recovered` is
`generation_recovery_claims`, `cache[i]` the read cache of process `i`,
`proc[i]` its mode, its sweep, its deletion and edit in flight and its write
queue (`writeTail`), `task[e]` the request and then the run of attempt `e`,
`answer[e]` what its client was told. An attempt and the execution id it mints
share a name. `started`, `deleted`, `taken` and `unacked` are history variables
that no guard reads.

*Actions.* One per turn of the event loop between two awaits:

| code | actions |
|---|---|
| `ProjectGenerationStartCoordinator.start` | `StartRequest`, `StartSelect`, then `StartReplay`, `StartPrepare` or `StartRefused`; `StartCommit`, `StartConflict` with `ClaimSelect`, `ClaimPublish`; `StartFault` |
| `GameGenerationService.enqueueGeneration` | `RunNext`, `DagSucceeds`, `DagFails` |
| `pipelineEventBridge` (`pipeline.failed`) | `BridgeProject`, `BridgeHist`, `BridgeFault` |
| `GenerationOutcomeCoordinator.commit` | `OutcomeBegin`, `OutcomeSelect`, `OutcomePublish`, `OutcomeCommit`, `OutcomeFault` |
| PUT and DELETE `/projects/:id` | `EditRequest`, `EditCommit`, `DeleteRequest`, `DeleteCommit`, `RequestFault` |
| `reconcileInterruptedGenerations`, bootstrap, shutdown | `Boot`, `Drain`, `SweepCommit`, `SweepFault`, `Serve`, `Stop` |

*A refresh* (`PostgresStorageProvider.refresh`) waits for the writes queued
before it (`behind` counts them), reads its rows in one step and replaces the
cached collections in a later one; the code up to the next await runs in that
later turn. *A write* runs when it is at the head of its process's queue.

*Abstractions.*
- A committed batch and its publication in the writer's cache are one step.
  The requests of the same process in between see the old rows either way, as
  they may be served just before the step. `DurableStore` has that window.
- Payloads, artifacts and timestamps are left out. `equivalentOutcome`
  (ProjectLifecycleCoordinator.ts:140) compares records with timestamps taken
  at the call, so two outcomes of one execution never compare equal; the model
  writes the second one too.
- One edit and one deletion are in flight per process. Waiting for the project
  lock or the worker is first come first served in the code, any order here.
- An unhandled rejection (`fatal`) ends the process, as Node does by default.
- `prepare` awaits only resolved promises, so it ends in the turn it begins.
- `SweepFault` and kills share the bound `MaxStops`.

### DurableStore

*State.* `rows` is `kv_store`; a row holds the number of the call that wrote it,
so data is who wrote it. Per process: `cache` (what `get` answers), `version`
(`compatibilityMutationVersions`), `queue` (`writeTail`) with the `stage` of its
head, `connected`, the `refresh` in flight, `awaited` (what `close` waits for).
`past` and `stale` are history variables.

| code (`PostgresStorageProvider`) | actions |
|---|---|
| `set`, `delete` | `SetLocal`, `DeleteLocal`: the cache changes at the call |
| `setDurable`, `deleteDurable`, `applyDurableBatch` | `SetDurable`, `DeleteDurable`, `ApplyDurableBatch`, then `WriteTurn`, `Commit` or `Conflict`, `Acknowledge`; `WriteRefused`, `WriteFault` |
| `refresh`, `loadCache` | `RefreshCall`, `RefreshSelect`, `RefreshPublish`; `RefreshRefused`, `RefreshFault` |
| `healthCheck`, probe after a failed mutation | `ProbeAnswer` |
| `initialize`, `close`, death of the process | `Boot`, `CloseBegin`, `CloseEnd`, `Kill` |

*Abstractions.* A transaction is one step. The strict `initialize` is one step,
since nothing is served before it ends. A probe may be answered at any time. A
process has one refresh in flight. A statement whose error is reported took
effect before or never; one of a killed process that had not taken effect never
does. A batch names each row once. `Compatibility` says whether some caller uses
`set` and `delete`: in the server only tests do.

`OrderedStore` is refined by taking the writes not yet executed as `pending`,
the calls as `made` and the cache as `view`: writes take effect one by one in
the order of the calls, each entirely or not at all, and a read shows only what
the store holds or held, or a compatibility write of the process itself.

### StudioExport

*State.* One project. `latest` and `filed` are its evidence rows, `claims` the
version claims; a command is named by the version that queued it. In the memory
of the process a client is connected to: `client`, `session`, `queued`
(`commandQueue`), `signature` (`exportSignatureByClient`). `request[r]` is an
HTTP request with what it read and the transition it waits for; `writes[p]` the
transitions of process `p`. `log`, `handed` and `told` are history variables.

| code | actions |
|---|---|
| connect, `reconcileClient`; disconnect; `checkTimeouts` | `Connect`, `Reconcile`; `Disconnect`; `Expire` |
| `queueProjectExport` | `ExportRequest`, `ExportQueue` or `ExportUnchanged` or `ExportRefused`, `ExportSaved` or `ExportLost` |
| `drainCommands` | `PollRequest`, per command `PollDeliver`, `PollSaved` or `PollPass` |
| `acknowledgeProjectExport` | `AcknowledgeRequest`, `Acknowledge`, `AcknowledgeSaved` or `AcknowledgeEnd` |
| `reportProjectExport` | `ReportRequest`, `Report`, `ReportSaved`, `ReportRefused` or `ReportLost` |
| `saveTransition`, `refresh` | `Save`, `Commit`, `Conflict`, `SaveFault`; `Select`, `RefreshFault` |

*Abstractions.* The cache of the evidence is not a variable: every read of it is
in the turn a refresh of the same request ended, so it is what that refresh
read. A command queue is a set looked at oldest version first: the commits of
one process, and what follows them, come in order. An execution and its
artifacts are one `content`, chosen by the request (the latest execution or an
explicit rollback); a report comes to one of two verdicts. A client always talks
to its own process, because the routes look it up in that process's memory. A
restarted process knows no client, and clients come back under new ids.

### AutonomousSession

*State.* `row` is the record in `autonomous_sessions`, `claimed` and `taken` the
two kinds of claims. Per process `cache` (what `get` answers), `control` (the
abort controller), `tail` (`mutationTails`, the writes in order) with the row
`seen` for the one at its head, `exec` (an execution of `executePhases` with the
record it works on). `call[h]` is a request with the record it read.

| code (`AutonomousOrchestrator`) | actions |
|---|---|
| `run` | `Run` |
| `executePhases`, `failPhase`, `checkpoint` | `PhaseEnds`, then `WriteExecution` |
| `settleInterruptedExecution` | `SettleSelect`, `SettleApply` |
| `pause`, `cancel` | `Ask`, `Stop` or `Refuse`, `WriteCall` |
| `resume`, `recover` | `Ask`, then `Claim` or `NoClaim` |
| `persistAndPublish` | `SelectForWrite`, then `WriteExecution` or `WriteCall` |
| `markInterrupted`, bootstrap, death | `MarkInterrupted`, `Boot`, `Crash` |

*Abstractions.* The phases are numbers; a checkpoint is the phase it is of. The
read model (`sessions`, `contexts`) is left out, and so are storage faults. The
decision of a write and its commit are one step.

### PipelineEngine

*State.* `pipelineRow` is `PIPELINE_STATES`, `claims` and `recovered` the
recovery claims and snapshots, `saves` the writes not made yet, in order,
`executor[e]` an execution with its own copy of the record, `active` and
`starting` whether the project is in `activeExecutions` and `pendingStarts`.

`PipelineEngine.start`, `run`, `resume`, `retry`, `retryStage`, `pause`,
`resumePaused`, `cancel` are requests; `PipelineExecutor.execute` begins and ends
stages and saves a checkpoint at each; `SaveMade` and `SaveRejected` are the
storage; `Kill`, `Restart`, `Recover`, `Ready` the boot. The file store and the
deletion of a record are left out; stages are numbers, agents succeed or fail.

### Jobs

`JobEngine`: everything but the work is synchronous, so submit, cancel, poll and
the end of the work (with retry and eviction) are one action each. `JobManager`
and `GenerationQueue` have no caller in the server but its exports; they are
modelled from their code alone. `ExecutionPool`: `Take`, `Complete`, `Fail`
(timeout included), `Revive` (dead letters), `HealthCheck` and `Scale`. A plan
that outlived its timeout goes on unseen: `currentContext` is null then, so the
abort check (ExecutionWorker.ts:211) never stops it. Shutdown ends the process
and is left out.

### Plans

`PipelinePlanner` walks a definition as `findCycleMembers` does (Tarjan with a
work list), step by step; `Reaches` defines cycles independently. What it hands
out is closed, as `PlanExecution` assumes of its `Plans`, and has no cycle.
`PlanExecution` is `PlanExecutor.execute` as POST `/plan/execute` uses it: the
graph stays with the router, and any number of executions go over it at once,
each overtaken wherever it awaits. The choice of agents, traces and events are
left out. Callers with a graph per execution are the case of one execution.

### ArtifactStore

*State.* `artifacts` and `markers` are the two collections, `writer[w]` what a
generation or a repair is doing (what is left to store, what it holds),
`attempts` the parents in the repair session's history, `active` the package
last exported to Studio. Content is who made it, whether it was edited, and the
runtime mode it declares; equal contents have equal hashes. Execution ids are
sequences: a generation `<<g>>`, its second repair `<<g, 2>>`.

| code | actions |
|---|---|
| `GenerationArtifactRecorder.record` | `Record`, a `Store` per stage, `Publish` |
| `RepairEngine.run`, `persistRepairedExecution` | `Ask`, `NothingToRepair` or `Take`, a `Store` per stage, `Publish` |
| a rejected write | `Fail` |
| exports; `ProjectSyncManager.processSyncRequest` | `Export`; `Edit` |
| death of the process | `Restart` |

*Abstractions.* One project. `PipelineEngine`, `StudioRuntime`, the generation
service and the repair route each have an `ArtifactStore` over one storage; the
hash check of a binding reads the writer's own instance and so never refuses.
Stages that are stored, carried and bound as `GAME_DESIGN` is are left out, and
so are reviews, which no route calls, and packages of before the marker. The
conflict check of an edit compares `createdAt` only (ProjectSyncManager.ts:201),
so an edit never conflicts with an earlier edit.

## 3. Runs

| run (module) | instance | asks | states |
|---|---|---|---|
| `admission` (lifecycle) | 2 processes, 1 project that is edited, 2 attempts with one key, storage faults, 1 kill | `TypeOK`, `OneExecutionPerKey`, `SameRequestSameExecution` | 3.1M |
| `sweeps` | 2 processes, 1 project, 2 attempts with own keys, 1 kill | `RunningHoldsClaim`, `ClaimReleasedWithRun`, `HistoryAgrees`, `TerminalStands` | 462k |
| `erasure` | 1 process, 2 projects, one of them erased, one key on both, storage faults, 1 kill, `FairSpec` | `WorkersAreRecorded`, `ReplayAnswersOwnRequest`, `RunsEnd`, `AttemptsEnd` | 487k |
| `cache_faults` (storage) | 1 process, 2 rows, 2 calls, any faults, kills and closes, `FairSpec` | `AtRestCacheIsExact`, `CloseCutsOnlyLateWrites`, `EveryCallSettles` | 191k |
| `storage` (MCStorage) | caches: 2 processes, 1 row, 2 calls, kills and closes; or packages: 1 generation, 2 repairs, 2 edits, any rejected writes and restarts | `StorageTypeOK`, `AtRestCacheIsExact`, `ImplementsOrderedStore`; `DeliveredIsCoherent` | 2.3M |
| `studio_shared` (studio) | 2 processes with a client each, 2 requests at a time, 2 exports, 1 mishap (fault, departure or kill) | `TypeOK`, `TransitionsChain`, `HandedOverOnce`, `VerdictsAgree`, `EndedStands` | 2.1M |
| `studio_progress` | 1 client, 2 contents, 2 requests at a time, 2 exports, 1 departure, `FairSpec` | `ExportIsHandedOver` | 766k |
| `services` (MCServices) | seven parts, see below | 16 properties, see below | 1.25M |
| `two_runs` | 2 processes, 3 attempts with own keys | violates `OneRunPerProject` | 136k |
| `resurrection` | 1 process, 1 attempt, one deletion | violates `ErasureIsFinal` | 85 |
| `wrong_execution` | 1 process, 2 clients, 2 contents, 3 exports, 1 request at a time | violates `VerifiedIsWhatWasSent` | 50k |
| `session_generation` | 1 process, 1 phase, a pause and a resume | violates `GenerationKept` | small |

`services` runs one service per behaviour, which is why its parts add up:

| part | instance | asks | states |
|---|---|---|---|
| sessions | 1 process, 2 phases (1 with an adapter), 3 requests, 2 at a time, 2 kills | `StoppedStaysStopped`, `CheckpointsKept`, `RestartLeavesNoneRunning`, `StopUnwinds` | 587k |
| pipelines | 2 pipelines, 2 executions, 2 stages, 3 requests, 2 rejected writes or kills | `StagesInOrder`, `CompletedStagesExact`, `NothingRunsAlone`, `ProjectReleased` | 512k |
| jobs | 3 jobs of 2 priorities, 1 slot, a queue of 2, 1 retry | `SlotsAreExecutions`, `QueuesAreExact`, `AllWorkEnds` | 52k |
| pool | 3 jobs, 3 workers of which 1 or 2 at a time, 2 attempts, 1 revival, 1 rescaling | `EveryJobHasItsPlace`, `AllWorkEnds` | 18k |
| generations | 3 jobs, 1 retry | `QueuesAreExact` | 2k |
| planner | every definition of 2 or 3 agents, 5-edge ones of 4 | `CyclesExact` | 55k |
| plans | 1 plan (three branches that meet), 2 executions | `PlanInOrder`, `PlanAccountsForAll`, `AllWorkEnds` | 29k |

`ServicesTypeOK` is the types of all of them.

*Bounds.* Two processes are the fewest with a stale cache, and the code treats
all others alike. Two attempts make every conflict between a run and another
run, retry or sweep; three are needed only where one run must end, one run and
one be admitted (`two_runs`). One kill gives a crash between any two steps, and
a process restarts after it; clean exits and deaths by an unhandled rejection
are not counted. Two storage calls give every pair of kinds on one row, in one
process or two; faults, probes, kills and boots are not bounded there. Two
studio requests in flight give every race of two operations, and two exports a
superseded command; `MaxMishaps` bounds faults, disconnections, expiries and
kills together. `MaxVersions` is the last version that can queue a
command (four for each earlier export, and one), so it stops nothing. Three
session requests are a pause, a resume and one that races them, and two kills
make a restart that finds the claims of the one before; a phase without an
adapter is skipped. Two pipelines share the project, and two executions are the
fewest that write over each other; `MaxMishaps` bounds rejected writes and
kills. Three jobs for one slot and a queue of two make the queue refuse a retry.
Four agents are the fewest where a component is reached over two branches. Two
repairs are one after another, one of a repair, or one that reuses the execution
id of one that failed; two edits are one that is taken back. Symmetry
is used on processes, on requests and on the two sides of the studio (a client
with its process), in safety runs only.
Only `cache_faults` checks deadlock. In the others the system may stop: when
every request, kill or job of the bounds was used and all work has ended (a
lifecycle process or a studio that has nobody left, a plan that is over).

*Fairness.* The lifecycle's `FairSpec` assumes weak fairness of every step of an
admitted attempt (an await is answered, one way or another), of writes, boot and
sweep steps, and of the exit of a process that has to exit. Nothing is assumed
of clients, users, storage faults or kills. The code justifies it: its loops are
promise chains on one event loop, `enqueueWrite` goes on after a rejected write
(`operation.catch`), and a deployment restarts a process that exited. The
storage's `FairSpec` assumes that each query is answered (the write at the head,
the refresh) and that the pool ends; the studio's that awaits are answered and
that a connected plugin polls again and again (`SyncManager.start`), strongly
fair because the bound on requests may leave no slot for a poll for a while. The
services': awaited steps of an execution, a write, and a boot with its recovery
(AutonomousOrchestrator.ts:869); polling timers of the schedulers and
workers; that work ends or times out. Nothing is assumed of requests, cancels,
kills and operators. `StopUnwinds`, `ProjectReleased` and `AllWorkEnds` have the
form `[]<>`: since the bounds end the requests, it says that all comes to rest
and stays there.

*Properties and their exceptions.* `Disturbed` projects are those erased, or one
of whose live runs a sweep listed as stranded (`taken`). The sweeps are unable
to tell a dead worker from a live one on another process, so for such projects
one-run-at-a-time does not hold: `two_runs` is the trace. `TerminalStands` also
leaves out `unacked` executions, whose outcome committed but was reported
failed, since the catch block then writes a failed outcome.

`AtRestCacheIsExact` leaves out rows in `stale`, until the next refresh or boot:
rows another process wrote; rows of a call that failed (its effect is unknown,
or its compatibility value stays); rows committed between the SELECT and the
publication of a refresh; rows with a compatibility write or a durable delete
pending when a refresh publishes; rows with a compatibility write made over a
waiting batch or a pending durable delete; and rows a refresh read before the
process's own executed write was acknowledged, whose late publication brings the
older value back (found by `storage`).

`CompletedStagesExact` and `NothingRunsAlone` hold while the storage rejects
nothing: a save rejected at the end of a stage leaves that stage both completed
and failed, and a rejected save of the end leaves the record running.
`QueueIsExact` and `JobsEnd` leave out the jobs whose retry a full queue refused
(`dropped`, JobManager.ts:252). `PlanAccountsForAll` says why a task is skipped
only while the executions of a plan do not overlap. `StoppedStaysStopped`,
`CheckpointsKept` and `RestartLeavesNoneRunning` are checked, and proved, with
one process.

`DeliveredIsCoherent` is about packages with a marker: whatever was edited,
retried or cut short, such a package is delivered whole, every stage once, what
was derived bound to the contents delivered beside it, or not at all.

`ExportIsHandedOver` excludes database faults: when the acknowledgement of a
queueing or of a delivery is lost, the command is in the evidence but in no
answer. That a poll's answer itself may be lost is outside the model; the server
never repeats it.

## 4. What the violations show

- `two_runs` (GenerationRecovery.ts:116-137): process 2 boots while `e1` runs on
  process 1 and lists it; `e1` completes; `e2` is started; the sweep of `e1`,
  decided from process 2's cache, deletes the claim, which is `e2`'s by then;
  `e3` is admitted while `e2` runs. ProjectLifecycleCoordinator.ts:31-34 says
  durable storage keeps the invariant across instances.
- `resurrection` (ProjectLifecycleCoordinator.ts:421-446): a start has read the
  project, a deletion commits, the start batch then writes the project row, an
  execution and a claim. The doc of `generationClaimProjectDeletion`
  (line 523-525) says the project is gone for good.
- `wrong_execution` (StudioRuntime.ts:312-317): client 1 exports A, client 2
  exports B, client 1 asks for A again and is answered "no changes"; that
  transition saves client 2's evidence under execution A; client 2 imports B and
  reports it, and the evidence says that A is verified.
- `session_generation` (AutonomousOrchestrator.ts:906-949): a phase ends and its
  write waits behind the pause of the session; a resume claims the next
  generation; the waiting write then finds the session running, compares the
  statuses only, and stores its record with the old generation. No later resume
  can claim the overwritten one. The test AutonomousOrchestrator.test.ts:319 says
  that an old paused executor does not overwrite a resumed generation.

### Observations

Found while modelling or with TLC; each is in the models, none has a run.

- GenerationRecovery.ts:58 says a terminal execution is not touched at all, but a
  booting sweep overwrites an outcome committed after it took its list.
- A replay on a process that did not run the start answers an error
  (ProjectLifecycleCoordinator.ts:387 says all processes answer alike), because
  `generation_executions` is not refreshed.
- `applyDurableBatch` captures the compatibility versions when its queued write
  runs (PostgresStorageProvider.ts:153), so a `set` made after the call and
  before that turn is overwritten in the cache by the older batch value; the test
  PostgresStorageProvider.test.ts:482 says a newer compatibility write is kept.
- A repair whose parent is half-written, or was edited while the model was asked,
  takes no world; it stores Lua without one and writes no marker. As no artifact
  of it declares a mode, the path for packages of before the marker delivers that
  Lua alone (ArtifactStore.ts:436-454), though RepairEngine.ts:436-438 says a
  repaired execution is publishable only with its world. For this reason
  `DeliveredIsCoherent` speaks of packages with a marker.
- An edited artifact keeps its whole package from delivery until it is edited
  back, since the marker names the hash of before. A repair that failed half-way
  is not in the history, so the next attempt writes under its execution id; the
  marker, which names ids, keeps the two apart.
- A cancelled pipeline may be saved as running or completed by its executor, and
  a project may have two executions, since the end of the earlier one removes it
  from `activeExecutions`. A kill between the write of `recovering` and the run
  leaves a pipeline that no request and no restart takes up.
- A session that is settled with rows selected before a second resume may be
  left running without an execution.
- A job engine with a full queue keeps a job to be retried as QUEUED in no queue;
  a cancelled job is recorded in the metrics twice. In the pool, an operator may
  scale to no worker, and then nothing runs until the queue is long; the
  replacement of stopped workers in `healthCheck` cannot be reached.
- Two requests for one plan share its graph: the later one marks skipped what the
  earlier has yet to run, and tasks on its list may run twice.

## 5. What is proved

For every value of the constants that satisfies `ConstantsOK` (which projects,
keys and callers the attempts have; any number of processes, faults, kills).

- `TypeCorrect`: `Spec => []TypeOK`. One lemma per action. Most is bookkeeping;
  `behind \in Nat` is where `Settled` must not count below zero.
- `RunningHoldsClaimAlways`: `Spec => []RunningHoldsClaim`. The property is not
  inductive: whether a batch may drop a claim was decided earlier, from a cache
  or a snapshot. `ClaimInv` adds, for undisturbed projects, what those decisions
  still say of the store when the batch commits:
  - an outcome in flight that read a claim still holds that claim
    (`ReadClaimStands`), so the claim it drops is its own;
  - what a sweep has listed is dead or disturbed (`SweptIsStranded`), so the
    claim it drops is no live run's;
  - a cached running execution belongs to this process or to no live worker
    (`CachedRunIsHomeOrDead`), so a drain lists only those and marks the others
    disturbed, and a stop loses only its own workers;
  - a deletion in flight removes only rows of its project (`RemovalIsOwn`),
    which it disturbs.

  A start needs `~ClaimTaken`, hence no undisturbed run of the project, and
  writes claim and execution together. Steps that change no execution, claim,
  cache or sweep are handled once, as quiet steps.
- `WorkersAreRecordedAlways` and `TerminalStandsAlways`: from the same invariant,
  of which `LiveIsRunning` (an undisturbed worker that has not ended is recorded
  running) and `Untaken` (an attempt that no start committed has no row anywhere)
  are parts. `ExecChange` says in what ways a step changes the stored executions
  at all: kept, one started, one ended by whoever holds it, all that a sweep
  listed closed, those of a deletion removed.
- `OneExecutionPerKeyAlways`, `SameRequestSameExecutionAlways` and
  `ReplayAnswersOwnRequestAlways`: `KeyInv` says that a request row under a key,
  in the store, a cache or what an attempt read, names an execution started with
  that key (`EveryCopyNamesStarted`), that a deletion removes only keys used on
  its project (`RemovedKeysAreOwn`), that the row of a started execution stays
  while no project of its key is erased (`StartedIsRecorded`), and that whoever
  was told an execution was told one of its own key (`ToldStarted`).
- `HistoryAgreesAlways`: a sweep closes an execution with the history row its own
  cache shows, so what caches and sweeps know counts, not the store alone.
  `HistoryInv` adds that cached rows show a history for every execution they show
  (`Told`), that whatever a sweep has yet to close has its history closed with it
  (`ListedHasHistory`), and that only a sweep closes a run before its worker has
  an outcome (`EarlyIsRunningOrFailed`).
- `ClaimReleasedWithRunAlways`: whoever ends a run drops its claim only if it
  knows of it, from what it read or from a cache at the time its batch was
  prepared. `ReleaseInv` says for outcomes that a claim they did not find is not
  theirs later (`LostClaimStaysLost`), since claims are gained by starts only
  (`ClaimGained`). For sweeps it follows a process from boot to exit: it has no
  task before it serves (`NoTasksBefore`), so while it boots nothing is published
  over its claims and what it closes with them they hold (`BootReleases`); all it
  shows running is still to close (`BootListsAll`), so once it serves it shows
  none but its own runs (`ServingShowsOwn`), and what it lists when it drains was
  taken from a live worker (`DrainTakes`), which disturbs the project. `Phase`
  lists how a step takes a process through this.

These eight theorems and `TypeCorrect` cover every safety property the lifecycle's
passing runs check.

For every value of the constants that satisfies `StudioConstantsOK` (where the
clients connect; any number of requests, exports, faults and kills), every
safety property of `StudioExport` that `studio_shared` checks:

- `StudioTypeCorrect`: `Spec => []TypeOK`, with `Proper` requests (of a client,
  of a command if their kind has one), on which the types of a transition rest.
- `TransitionsChainAlways`: what the rows hold is not enough, because a
  transition is decided from what its request read earlier. `EvidenceInv` adds
  that the claims are the versions of the log (`Committed`), that what a request
  read is the end of a prefix of the log (`ReadRows`) and that what it sends
  follows it (`Sending`). If the version it sends is unclaimed, the prefix is the
  whole log (`CommitContinues`). Steps are of four kinds (`StepKinds`): a request
  reads, proposes, commits, or leaves rows and readings alone.
- `EndedStandsAlways`: from the same invariant; a commit files a command that
  was never filed, or the next stage of the latest one (`CommitFiles`).
- `VerdictsAgreeAlways`: verdicts in the store are final, so those told, saved
  and read agree with it (`VerdictInv`).
- `HandedOverOnceAlways`: a command that was handed over, or that a poll holds,
  is delivered in the store, and one poll at most holds it (`HandInv`); a
  delivery commits only for a command that is not delivered.

For every value of the constants of `DurableStore` (any rows, collections,
processes and calls; any faults, probes, kills and boots):

- `StoreTypes` and `CloseFlushes` rest on `QueueInv`: a queue holds the unsettled
  writes of its process, each once, every unsettled write is in its queue
  (`PendingQueued`), and what `close` waits for covers every write that is not
  late (`CloseWaits`).
- `CachesAreExact`: that a cache at rest is exact is not inductive, so `CacheInv`
  says what the cache of a process will be while writes are queued. With no
  compatibility write of the row to come, the cache has the row, or the
  acknowledgement to come publishes it (`CacheExact`); else it has what the last
  compatibility write will leave, and no durable write before it will publish
  (`CacheAhead`). Whether one publishes is decided by the versions the code
  captures (`VersionsSound`) and, for a delete, by whether its collection was
  reloaded (`DeadDeletes`); what a refresh has read is what the rows are, unless
  `stale` names them (`SnapsExact`).
- `StoreKeepsItsPromise`: `Spec => ImplementsOrderedStore`, the refinement, step by
  step: a call is a call or a stutter, `Commit` is the head of `pending` taking
  effect, a write that fails or is dropped leaves `pending`, an acknowledgement or
  the end of a refresh moves the view to what was stored once (`ShownInv`).

For every value of the constants of `ArtifactStore` (any number of generations,
repairs, edits, rejected writes and restarts):

- `PublishedAreCoherent`: `ArtifactSpec => []DeliveredIsCoherent`. The property
  speaks of what a marker names once it is there, so the invariant `PackageInv`
  follows the writer up to it. What a writer holds it stored in its package, as
  the latest of its stage (`WriterSound`). If it is going to publish, what it
  made is bound to what it still holds, and what it has still to make comes after
  all it is derived from and before none of it (`BindsLater`), so nothing held is
  replaced once something was bound to it; a repair carries only what it may
  deliver and holds Lua of its parent (`RepairSound`). The marker then names what
  is held (`MarkerSound`). Contents say by whom they were made, and nothing is
  there by a writer that has not begun (`ContentsBegun`): what a repair carries is
  never taken for its own. Edits and later writers leave stages, packages and
  bindings as they are (`Keeps`), and an edited content is no longer the one the
  marker names.
- `StorageTypesCorrect`, with `StoreTypes` and `EachPartIsItself`: the types of
  the composition.

For every value of the constants of `PipelineEngine` (any number of pipelines,
executions, stages, requests, rejected writes and kills):

- `PipelineTypeCorrect` and `StagesKeepOrder`: `PipelineSpec => []StagesInOrder`.
  Order alone is not inductive: marking a stage keeps it only if no later stage
  was begun in the record the execution holds. `PipelineInv` says so of every
  execution at a stage (`AtFront`), and states the order for rows, recovery
  snapshots, queued writes and held records alike, because each of them may
  become the next row. One lemma for each way to change a record (`StageBegun`,
  `StageDone`, `StageFailed`, ...), then one per action.
- `CompletedStagesAreExact`: the completed stages of each of these records are the
  first so many, and `completedStages` lists them (`Counted`); the stage an
  execution is at is marked running in the record it holds (`StageRuns`).
- `NoneRunsAlone`: a record that says the pipeline runs has an execution that
  leads it, or a write queued behind it that settles it (`LedInv`, `Settles`): the
  last write of each pipeline decides what the row comes to.

For every value of the constants of each service (any jobs, workers, agents,
priorities and limits; every set of finite plans and any number of executions).
`ServicesSpec` implies the specification of each (`EachServiceIsItself`), so what
holds of one holds in the composition, its types as well (`ServicesTypesCorrect`).

- `JobsKeepTheirPlace`: `PoolInv` adds that a worker outside the pool holds no job
  (`AtWork`) and that attempts fit the place of a job (`AttemptsFit`).
- `PlanOrderIsKept`: a skipped dependency counts as satisfied, so the property
  rests on `SkippedAtOnce`: once a task is skipped none is pending. What an
  execution has listed for its round can be started whenever its turn comes
  (`ListsAreMade`).
- `PlansAccountForAll`: a task that runs is with an execution that works on it
  (`RunningIsAtWork`), after an end nothing is pending (`NoneLeft`), and while no
  execution was overtaken only one is under way (`OneAtATime`).
- `SlotsStayExecutions` and `QueuesStayExact`: where a job may be while its work
  goes on (EXECUTING, or CANCELLED meanwhile) fixes what slots and queue hold; a
  job the queue refused is out of both for good (`JobInv`). What the worker of the
  generation queue has was enqueued (`GenInv`). The lemmas `Inserted`,
  `InsertionAddsOne` and those on taking out a place say what a queue without
  repetition becomes; `sort` and `filter` are treated as choices of places.
- `CyclesAreExact`: that Tarjan's walk with a work list finds what it should, for
  every definition over any agents. `WalkInv` relates stack, frames and lowlinks at
  every step. What is walked reaches all that was opened after it and stands on the
  stack (`ReachesUp`), and all that stands there leads back to something walked
  that was opened no later (`LeadsBack`). A lowlink is the number of an agent on
  the stack that is reached (`LowReached`), and no edge seen so far from what stands
  above the frame leads lower (`LowBounds`). So of an agent left with its own number
  the component is what stands above it, each of it reaches each other, and its
  edges lead into it or to what is closed (`LeavePops`); any other leads back to
  a frame that remains (`LeaveKeeps`). `Reaches` is the closure of the edges,
  stated without the walk, and needs `ReachesEdge`, `ReachesOn` and
  `ReachesWithin` only. When the walk is over nothing is on the stack, which
  gives the property (`WalkOver`); a plan then has no cycle (`PlanSound`).
- `SessionTypeCorrect`, for any number of processes, on `SessionShape`: what an
  execution or a request holds at each of its points, and what lines up in the
  queue of writes.
- `StopsHold`, `NoCheckpointIsLost` and `RestartFindsAll`, for one process, any
  number of requests and of crashes. `Alone` says how what the process holds
  stands to the row: its records are of claimed generations (`KnownFit`), the row
  a write or `settle` has selected is the row unless a claim came between
  (`SeenLags`, `RowsLag`), the execution has every checkpoint of its generation
  (`Ahead`), nothing but a stop comes between a claim and the end it writes
  (`Closes`), and a restart finds a recovery count no earlier one has taken
  (`KnownFit` again). One process is the hypothesis, not a bound of the proof: the
  writes of two processes are not in one queue, and the code does not keep this.

The proofs use no more than the named assumptions on constants. Their fairness
conjuncts play no part.

Every safety property a passing run checks is thus proved. Only model-checked:
liveness and `ENABLED` (beyond the prover), and that the four runs that show a
violation find one.

## 6. Not modelled

Most of the repository is not a system of interacting steps, and its lines are
not in the map for that reason: the studio plugin in Lua and the web client
(clients, whose requests are nondeterministic here), scripts and acceptance
harnesses, documents, design prototypes. In the server:

- Agents, prompts, content generation, Lua and world validators are data
  transformations; the models see whether they succeed.
- Accounts, keys and access checks are decided request by request.
- Of the HTTP and socket surface only the handlers named above; request parsing
  and read-only routes are not modelled.
- Of storage, the in-memory provider (tests and development) and the availability
  status of `postgres/index.ts`, which no operation reads back.
- Of sessions, the read model kept for subscribers, storage failures and erasure;
  of pipelines, the file store, deletion and the artifacts they store; of the
  pool, shutdown; of the artifact store, reviews and packages of before the
  marker other than as the path that delivers without one; several processes in
  the services and in the artifact store.
- `SaaSProjectRepository.updateDurable` (line 77) spreads the cached project, so
  an edit on one process undoes `generationCount` or `status` that another
  committed. It is in the model, without a property: no doc denies it.

## 7. Plan

Done: lifecycle, storage, studio, sessions, pipelines, queues, pool, plans and
packages. What is left, in order:

1. Sessions on two processes (`HomeOf` is a constant for that): what a pause on
   one process promises while the execution is on another.
2. A run for the repair that delivers Lua without its world, and the artifacts of
   pipelines in `ArtifactStore`.
3. Proofs about what these add.

