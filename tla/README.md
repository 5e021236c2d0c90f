# Background work of the server: a TLA+ verification project

This project specifies and checks the parts of the Go server that do work in the
background and have to get it right although processes crash, messages repeat
and requests interleave: the ingestion of documents, the synchronisation of
external data sources, the knowledge compiler, the Wiki refresh and the memory
tasks. TLC checks small instances, TLAPS proves the main safety properties for
every size.

Paths below are relative to `src/internal/`.

## 1. The system

### Components, their state and operations

| Component | State | Operations |
|---|---|---|
| **Task service** `service/ingestion_task_service.go`, `dao/ingestion.go` | one `ingestion_task` row per document (unique index): status, `pipeline_log_id`; Redis key `{id}-cancel` | create and enqueue, retry, mark scheduled, roll back, request stop, start running, mark completed / stopped / failed, remove, publish CREATED tasks at startup |
| **Pipeline log** `dao/pipeline_operation_log.go`, `ingestion/task/pipeline_executor.go` | `pipeline_operation_log` rows of the document | open (transaction with the task row locked), guarded advance, guarded delete, adopt an unowned open row, close, insert a closed row |
| **Parse entry points** `service/document/document_parse.go`, `document_ingest.go` | a per-process lock per document; otherwise what they read earlier | parse, re-parse with deletion, cancel, remove, delete only |
| **Ingestor** `ingestion/service/ingestion_service.go` | worker pool, claim set `currentTasks`, process context, per-task context, the delivered message | start, dispatch, claim, run, cancel polling, complete with retries, stop, fail, recover a panic, settle the message, graceful stop |
| **Lease heartbeat** `ingestion/service/heartbeat.go` | ticker goroutine of a delivered message | start, renew, stop |
| **Work queue** `engine/nats/nats.go` | JetStream work-queue stream: message, ack deadline, delivery count | publish, fetch, ack, nack, in-progress, redelivery |
| **Connector lock** `syncer/connector_lock.go`, `engine/redis/redis.go` | a table of locked keys per process, a Redis key with the process's holder id | try lock, unlock, expiry |
| **Job executor** `syncer/job_executor.go` | registered task queues, their order and the cursor, the job in hand, the job channel | register, submit, dispatch in turn, work, unregister, close |
| **Sync runner** `syncer/sync_runner.go`, `checkpoint_store.go` | the window's checkpoint in a KV bucket, statistics, results in flight | prepare, open, read, collect in order, commit, restart, complete |
| **Scheduler timers** `syncer/scheduler.go` | a timer per task id | schedule after, fire, publish, re-arm, stop |
| **Sync tasks** `dao/sync_task.go`, `dao/connector.go`, `service/connector.go`, `syncer/task_worker.go` | `sync_logs` rows, connector status, links, wake-up messages | link, unlink, schedule, cancel, rebuild, resume, reconfigure; claim, run, retry, complete, recover, publish at startup |
| **Knowledge compile** `ingestion/knowledge_compile/` | one scheduling row per dataset (backlog, in-flight entries, claim token, lease, state), merged products, contribution snapshots | publish, claim, touch, reclaim, merge, acknowledge, cancel, rebuild |
| **Wiki refresh** `knowledge_compile/wiki_dirty.go`, `ingestion/task/knowledge_compiler_wiring.go` | a dirty row per document (revision, owner, lease) | mark, claim, compile, check, replace, finish, fail |
| **Memory tasks** `service/memory_message_service.go`, `memory_extractor.go`, `dao/memory_task.go` | `memory_task` row (state, lease, attempts, extraction), the message store, the generic task row | queue, claim, extract, store, complete, retry, fail, reconcile |
| **Agent harness / canvas** `harness/`, `agent/canvas/` | channels, checkpoints, run tracker | step, interrupt, cancel, resume |
| Handlers, admin, CLI, parsers, tokenizer, drivers, Python services, web UI | — | request decoding, data transformation, drivers |

`PROJECT.json` lists the same parts with their source files and status.

### How they interact

A request reads the row, writes it with a compare-and-set, opens the log row,
publishes a message and only then marks the row SCHEDULED. An ingestor process
first republishes the CREATED tasks it finds, then hands each delivered message
to an idle worker. The worker compare-and-sets the row to RUNNING, claims the
task in its process, runs the pipeline, writes the log row and then the row,
re-reads the row and acknowledges the message if the row is terminal, else gives
it back. A stop writes STOPPED on a queued task; on a running one it writes
STOPPING and then the Redis key, which the worker polls. The API servers and
the ingestors share nothing but MySQL, Redis and the stream.

The syncer is a process of its own. The API writes `sync_logs` rows and publishes
their ids; a task worker claims the row, takes the connector lock, and lets the
runner read the source and feed batches to the executor that all tasks of the
process share. The transaction that completes a row creates its successor, and
the scheduler's timer wakes that one when it is due.

The parse pipeline ends by appending an event to the backlog of the dataset's
compile row, from which the compile workers of all ingestors claim batches
under a lease and a token. Changes of single chunks mark a dirty row instead. A
chat that saves to a memory inserts a durable task, stores the raw message and
publishes a wake-up; an ingestor worker extracts, and a reconciler publishes
again what nobody has picked up.

### What is hard

* Every caller works on a copy of the row it read some statements ago.
* The broker redelivers: after a crash, a lost acknowledgement, a late
  heartbeat, and because a stop in the queue leaves the message there.
* The publish, the row and the log row are three writes in three places; each
  can fail alone, and a publish that reports an error may have been stored.
* The claim that keeps two copies of a task apart is per process.
* Shutdown cancels the contexts of calls that are under way.
* Leases in MySQL and Redis expire under workers that are slow, not dead.
* Wake-ups are best effort: a lost one has to be made good by a timer, a startup
  pass or a reconciler that reads the rows.
* Batches run in parallel and end in any order, and what is saved for a resumed
  run must not be ahead of them.
* Goroutines wait for each other on bounded channels while contexts end.
* A retry re-uses the id of the task, so an old run and a new one look alike
  (ABA) to a compare-and-set on the status.

`PROJECT.json` "hazards" lists them at their lines, with the property that would
notice each going wrong.

### What makes each component correct

* Task row: at most one per document; moves only along the state machine;
  nobody deletes it under a worker (`TaskLifecycle`, `LifecycleSpec`).
* Log: one open row per document, rows only move forward, closed rows are
  history (`OneOpenLog`, `LogsMoveForward`).
* Claim: one run of a task per process, no leaked claim (`ClaimExclusive`,
  `ClaimsHaveOwners`).
* Settlement: a task that waits for or has a worker has a message behind it, and
  it ends (`RunsAreBacked`, `RunsEnd`).
* Connector lock: one holder per process, one holder between processes that have
  one worker, no key taken from a holder (`LocalExclusion`, `LoneWorkersExclude`,
  `KeyLostToOwnRelease`).
* Executor: a job has one place and one result, tasks take turns, nobody waits
  for ever (`SettledOnce`, `BoundedWait`, `CollectEnds`, `StopReturns`).
* Runner: a saved cursor covers stored batches only, a completed window is whole
  (`CheckpointCovers`, `CompleteIsWhole`, `ImplementsWindow`, `RunEnds`).
* Timers: a wake-up that was asked for comes (`WakeupKept`, `WakeupComes`).
* Sync rows: one running row per dataset, polling goes on, a cancel is final
  (`OneRunning`, `PollingGoesOn`, `CancelIsFinal`).
* Compiler: no event is lost, all are settled, the last event about a document
  decides what is merged of it, a rebuild leaves nothing old (`NothingLost`,
  `EventsSettle`, `LastEventDecides`, `RebuiltIsFresh`).
* Wiki refresh: a mark goes only with a refresh that saw the change, and it goes
  (`MarkKept`, `MarkAnswered`).
* Memory tasks: one extraction is stored, a stored task has its messages, a lease
  protects, attempts are bounded, every task ends (`OneExtraction`,
  `StoredIsStored`, `LeaseProtects`, `AttemptLimit`, `TasksSettle`).

## 2. The modules

| Module | Models |
|---|---|
| `PipelineLog` | the DAO statements on the log rows of one document, as operators on a table |
| `IngestionTaskService` | requests on the API servers, one statement per step; the publish; the stop protocol that workers call as well |
| `Ingestor` | processes, workers, broker; extends `IngestionTaskService`, so this is the composed system; fairness and all properties |
| `TaskLifecycle` | the abstract specification: what the row of a document promises |
| `MCIngestor` | instances for TLC: which worker is in which process, symmetry |
| `ConnectorLock` | the connector lock of all processes, for one key |
| `JobExecutor` | the executor and the coordinators that feed it |
| `WindowSync` | the abstract specification of a checkpointed sync window |
| `SyncRunner` | the runs of one sync task over its checkpoint |
| `SchedulerTimers` | the wake-up timers of one process |
| `Syncer` | rows, API, workers, processes of one connector; the parts above enter it by what they promise |
| `KnowledgeCompile` | scheduling row, workers, products, rebuild of one dataset |
| `WikiDirty` | the dirty row of one document and the workers that answer it |
| `MemoryTask` | memory tasks from the request to the end |
| `MC...` | an instance module for each of these: home processes, kinds of rows, symmetry |
| `IngestorProofs` | the composed ingestion system: type correctness, claims, log rows, the refinement of `TaskLifecycle` |
| `SchedulerProofs` | the connector lock and the wake-up timers |
| `ExecutorProofs`, `RunnerProofs`, `SyncerProofs` | the module they are named after; `RunnerProofs` holds the refinement of `WindowSync` |
| `MemoryProofs`, `WikiProofs`, `CompileProofs` | `MemoryTask`, `WikiDirty`, `KnowledgeCompile` |

### State and steps: ingestion

One document is followed. The unique index on `document_id` makes documents
independent; `Tasks` are the ids its successive rows may get. `status`, `bound`,
`logs` and `flag` are the database columns and the Redis key. `mstate`, `mtask`
are the stream. Each actor (request, process, worker) has a program counter
`pc` naming the next statement, the task `job` it works on, `snap`, the
`pipeline_log_id` in its in-memory copy of the task, and `mode`, why it is where
it is (which status a rollback restores, whether a stop comes from a cancelled
run or from `completeTask`). `held`, `owned`, `cancelled`, `term`, `tries` are
the locals of a worker, `claimed`, `proc`, `todo` those of a process.

An action is one SQL statement, Redis command or broker call with the code up to
the next one. Where a step holds more, it is because nothing else can tell:

* `transition` is read, check and compare-and-set in one step. Success means that
  nothing changed in between; a lost compare-and-set is an error that leaves the
  row alone, as a refused transition or a `Fault` does.
* The re-read that ends `transitionFrom` and the log write it feeds are one step
  (`StartReread`, `StopQueuedLog`, `ScheduledLog`). The compare-and-set before it
  is a step of its own, so whatever happens in between is there.
* `StartStopLog` does the Redis clear and the log write together.
* `Ack` and `Nack` include the deferred `releaseTask`.
* The reads that open a request are part of `AskReparse`, `AskStop`, `AskRemove`,
  `AskDelete`.
* Chunk, counter and image clean-up after the deletion of a re-parse changes no
  modelled state; an error there ends the request, which `ClientCrash` covers.

External code is modelled by what it gives the callers. The broker keeps a
message until it is acknowledged; it may become deliverable again when nobody
holds it (`Expire`) or although somebody does (`Lapse`, a late heartbeat or the
time between `Heartbeat.Stop` and settlement). `Stop` that gives up at its
deadline abandons its leases, which is `Crash`. The delivery limit of 16 is
taken as never reached. Log rows have ids that grow with `create_time`.

`Fault` is any error or lost answer; `MaxFaults` bounds how many there are,
`MaxLapses` the late heartbeats and `MaxAsks` the requests. Two clients are two
API servers, or two entry points of one: `lockDocumentParse` serialises
`StartParseDocuments` within a process only.

### State and steps: the other modules

**`ConnectorLock`.** What happens under one hold of the mutex is a step, each
Redis command is one, and it may fail with or without its effect. Keys do not
interact, so the module is one key. A process that restarts is another one, as its
holder id is new. `Expire` takes the key of whoever no longer executes: the
deadline of a task lies inside the TTL (`taskExecutionDeadline`), so a key never
expires under a run.

**`JobExecutor`.** Channel operations are the steps; the job in the dispatcher's
hand is `pending`. `over` are the runs whose context has ended. A run may be given
up at every batch and leaves its jobs where they are. `waited` counts how often a
task with a queued job was passed over since a task last left the order.

**`SyncRunner`.** The source lists N batches in a stable order, as the connector
contract asks; `Marked` are those that carry a checkpoint. `mem` is the in-memory
checkpoint state, `store` the saved one. Statistics are counters per batch, so that
"counted once" can be said. Document conversion is one bit, the result of the job.

**`SchedulerTimers`.** A timer is armed, in its callback before the publish, or
after it; the map entry is separate from the timer, because the callback and the
map disagree at times. Timer ids are re-used when nothing refers to them.

**`Syncer`.** A transaction is one step; in particular the two requests of
`scheduleConnectorTask` are serial here. Messages of one row that wait together are
one. The in-process queue is part of the delivery. The lock is ideal, the runner
ends with a result, timers are the set of rows a process will wake. Which rows are
due at startup is left open. `Reschedule` is the sequence `CancelTasks`,
`CancelConnector`, `ScheduleConnectorTasks`. The delivery limit and the deletion of
a connector are left out.

**`KnowledgeCompile`.** An event is its position in the order of publication. What is
compiled from a document is a set of `Items` (names of entities and relations, or the
content of a Wiki page), and `merged[d]` holds the items of the dataset-level rows that
name `d` among their sources. A parse is two steps, between which the document may be
disabled or deleted; its end publishes "completed" whatever the status is by then, as
`processOutput` does, unless the document had and has no products. A batch is the
sequence prepare, delete, strip, load, merge structure, delete missing, write, project,
commit, acknowledge, each under the lock where the code takes it, and a token check
where the code makes one. Structure rows are only added to (`WriteMergedStructure`
upserts) and leave with a retracted document; Wiki pages are replaced or dropped.
`Refresh` is `WikiDirty` in one step.

* Each instance has templates of one `Variant`. In a dataset with both, a batch merges
  the products of the variants its winning event names, so the completed event of a
  Wiki refresh that wins over a parse's or an enabling says nothing of the structure
  products; this is not modelled.
* The navigation tree is not a variable: `upsertNavLocked` and `removeNavLocked` are
  locked sections of their own next to the structure merge and the strip, and the
  former is skipped, with a warning, when there is no navigation service. No property
  is about the tree.
* `Strip` is one step for `StripMergedSources`, `DeleteStructureForDocs` and
  `removeNavLocked`, which take the lock one after the other; all of them only remove
  the same documents' share.
* The publication of an event is best-effort in the code; one that fails is the loss of
  the event and is not modelled.
* `deleteDocumentFull` is refused while the document's task is running; that is no guard
  here, because the delete-only request can remove the task's row first.
* Merging by an LLM, progress, tombstones (written, never read) and the dataset log row
  are left out. `RebuildDataset` has no caller in production code yet; it is modelled
  as the function it is. A document that was deleted does not come back under its id.

**`WikiDirty`.** The content of the document is the number of changes made to it.
The lease may expire under a worker at any time, as nothing renews it.

**`MemoryTask`.** An extraction is the number of the attempt that asked the model,
or empty. A lease is live or not, a retry due or not. The branch for rows created
before the durable task table existed (`failTaskMissingDurableState`) is left out.

### Simplifications

Error paths and batching details that a module merges or leaves out. None of them is
what a property is about; a reader who extends a module along one of them adds it.

* `AskDelete`: where the read finds no task the code still issues the delete by
  document (`service/document/document_ingest.go:138`), which can hit a row created in
  between; the model's request ends.
* `StopQueuedLog`: a failed re-read after the stop is an error to the caller
  (`service/ingestion_task_service.go:415`); the model closes the log row it knows.
* `StopFlag`: writing and clearing the cancel key do not fail, and its one-hour TTL
  does not run out (`service/ingestion_task_service.go:283`, `:590`).
* `recordPipelineLog`: an update that fails falls through to an insert of a closed row
  (`ingestion/task/pipeline_executor.go:873`); the model leaves the rows alone. The
  adoption of an open row (`:922`) is one step.
* `Crash` stands for a `Stop` that gives up at its deadline too. The abandoned worker
  of the code may still write FAILED with its detached context.
* `ConnectorLock`, `Expire`: the margin between a task's deadline and the key's TTL is
  five seconds (`syncer/task_coordinator.go:28`); that a run ends within it is assumed.
* `CompleteSync`: where recovery has put the row back to SCHEDULE under the run, the
  completion changes no row and the checkpoint is deleted all the same
  (`dao/sync_task.go:367`, `syncer/sync_runner.go:172`); `SyncRunner` has no such
  recovery, and `Syncer` no checkpoint.
* `SchedulerTimers`: a delay of zero or less publishes at once
  (`syncer/scheduler.go:171`); that branch is in `Syncer`, which has the publish.
* `HasNext` reads the connector's current `sync_deleted_files`, the code the value
  loaded before the run (`dao/sync_task.go:398`).
* `Fails`: where the rescheduling fails too, the row stays RUNNING and the message is
  given back (`syncer/task_worker.go:104`); here it succeeds. A row left RUNNING by
  an error after the claim is modelled.
* `RecoverRunning` is one step, while the code reads the rows before it opens the
  transaction (`dao/sync_task.go:415`).
* `Reconcile` may take any due row; the limit and the order of `ListDue`
  (`dao/memory_task.go:303`) are left out.
* `MemoryTask`, `Lapse`: the lease of a run expires or not. `RenewLease` is not an
  action, so its own guard (`dao/memory_task.go:132`) is not checked.

## 3. What TLC checks

`CHECK_DEADLOCK FALSE` in each run: requests are bounded and a system without
requests rightly comes to rest.

| Run | Module, instance | Shows |
|---|---|---|
| `requests` | `MCIngestor`: two requests at a time, two workers of one process, two task ids; parse, re-parse, stop, remove, delete; 2 requests | `ClaimExclusive`, `ClaimsHaveOwners`, `OneOpenLog`, `LogsMoveForward`, `LifecycleSpec` |
| `runs_end` | `MCIngestor`: one request at a time, one worker; parse, stop; 2 requests, 1 fault, 1 late heartbeat; fairness | `TypeOK`, `RunsAreBacked`, `RunsEnd` |
| `lock` | `MCConnectorLock`: three processes, one of them with two workers | `LocalExclusion`, `LoneWorkersExclude`, `KeyLostToOwnRelease` |
| `executor` | `MCJobExecutor`: two tasks of two batches, one job worker, queues of one; fairness | `TypeOK`, `SettledOnce`, `BoundedWait`, `CollectEnds`, `StopReturns` |
| `checkpoints` | `MCSyncRunner`: three batches of which two carry a checkpoint, two restarts; fairness | `CheckpointCovers`, `CompleteIsWhole`, `ImplementsWindow`, `RunEnds` |
| `wakeups` | `MCSchedulerTimers`: one task, four timers, five calls; fairness | `WakeupKept`, `WakeupComes` |
| `rows` | `MCSyncer`: two processes of one worker, two sync rows and a prune row of one dataset, a connector with or without prune tasks; the whole API; 2 requests, 1 fault | `OneRunning`, `PollingGoesOn`, `CancelIsFinal` |
| `compile_settles` | `MCKnowledgeCompile`: structure products of one document of up to two items, two workers, three events in batches of two, one lapse or failure; fairness | `LastEventDecides`, `EventsSettle` |
| `compile_faults` | `MCKnowledgeCompile`: wiki products, two events, three claims, two lapses or failures, one rebuild | `NothingLost`, `RebuiltIsFresh` |
| `marks` | `MCWikiDirty`: two ingestors, four changes, three expiries, two failures; fairness | `MarkKept`, `MarkAnswered` |
| `memory` | `MCMemoryTask`: one task, two workers, two attempts, two errors, two faults; fairness | `OneExtraction`, `StoredIsStored`, `LeaseProtects`, `AttemptLimit`, `TasksSettle` |
| `stranded_stop` | `MCIngestor`: one request at a time, one worker; parse, stop; 2 requests | `StopsAreBacked` is violated |

Bounds. In the ingestion runs two requests reach the interleavings that matter to
their properties: a run, and the request that stops, retries, removes or replaces
it with the first one's leftovers (message, flag, log row) still about. One fault
reaches every error path, and a crash or a shutdown counts as one. Two workers
are enough to contend for a claim, two clients for a stale copy. There are as many
message ids as requests, startups and faults can publish, and five log rows, which
no run exhausts. Message, timer and row ids of the other modules are as many as
the budgets can use. Keys, datasets and documents do not share state. A queue of
one is full and empty at once. Three events are a change, its withdrawal and a
change again, and a batch of two splits them in every way. Two attempts are a
first and a last one.
Symmetry is used in `requests` and `rows`, where actors are interchangeable, never
with liveness.

What the bounds leave out:

* `requests` has one process and no faults; the theorems of section 4 are about any
  number of processes and any budget for all five of its properties.
* `RunsAreBacked` is about one request at a time and one ingestor process; with two of
  either it is false (below), and so it is with two workers and a late heartbeat.
* `executor` has one run of each task, so a registration is never refused there.
  `SettledOnce` and `BoundedWait` are proved for any number of runs.
* `rows` gives a task one attempt, so a failed run fails the row at once.
  All three properties are proved for every number of attempts.
* `RebuiltIsFresh` speaks of states before a lease lapsed, `LastEventDecides` of
  structure products while every batch has run through (no lapse, no failure, no
  rebuild). Beyond that the code does not keep them, as the table below says;
  `NothingLost` and `EventsSettle` hold throughout. All three invariants are
  proved for any number of documents, workers, events, items and claims and any batch
  size. `LastEventDecides` says that the present products of an included document are
  merged, not that nothing else is: rows of an earlier parse stay. And it follows the
  last event, which is not always the document's status (both in the table below).
* `memory`, `marks` and `wakeups` have budgets of a few steps; their invariants are
  proved for all budgets.

### Fairness

In `Ingestor`, `FairSpec` is weak fairness for every step of a request that has begun, of a
process (started again by its supervisor), of a worker and of its cancel
poller, and for the expiry of an unheld lease; strong fairness for the delivery
of each message, because JetStream offers a message again and again while a
worker may be busy with another one in between. Faults, crashes, shutdowns and
new requests are never owed. The pipeline has a timeout, so a worker in `Exec`
leaves it, which is what weak fairness of `Work` says.

`JobExecutor`: every goroutine that can run does; that a context ends, a batch is
given up or the process stops is never owed. `SyncRunner`: the run goes on, jobs
return (they have a deadline), and a run of a canceled task notices. That a cursor
is found invalid is not owed, and neither is that it is found valid.
`SchedulerTimers`: timers fire and callbacks run; strong fairness of `Publish` says
that the broker does not fail for ever. `KnowledgeCompile`,
`WikiDirty`: worker loops go on, leases and debounce times run out. `MemoryTask`:
the reconciler's ticker, retry and lease times, and workers; a claim is strong
because a wake-up is published again while other workers come and go.

### Disagreements with comments and tests

The modules also state what a comment, a document or a test of the repository says
and the code does not do. The first is the run that expects a violation, and
`PROJECT.json` "findings" quotes its lines. TLC refutes the others in the same way:
put the definition in place of the properties of the named instance.

| Statement | The code does | Instance |
|---|---|---|
| `Ingestor`: `StopsAreBacked` | a stop between the compare-and-set to RUNNING and the re-read makes the worker acknowledge a STOPPING task: no message, no worker, every re-parse refused | run `stranded_stop` |
| `Ingestor`: `OneExecutor` | after a stop in the queue and a retry, two processes execute one task (`engine/nats/nats.go:121` says the claim and the CAS prevent it) | as `stranded_stop`, `TwoProcesses` with two workers, 3 requests |
| `Ingestor`: `NoRowLeftOpen` | a task is published before its creator opened its log row, and a row stays queued (`service/ingestion_task_service.go:498`) | as `stranded_stop`, 3 requests |
| `Ingestor`: `CancelIsRequested` | a cancel key of the previous run, written after the retry cleared it, cancels the new run (`service/ingestion_task_service.go:471`) | as `stranded_stop`, two clients, 3 requests |
| `Ingestor`: `PanicIsRedelivered` | the message of a panicked task is acknowledged, not given back (`ingestion/service/ingestion_service.go:954`) | as `stranded_stop`, parse only, 1 request, 1 fault |
| `Ingestor`: `OneWriter` | the delete-only branch removes the row of a RUNNING task and a second worker writes beside the first (`dao/ingestion.go:295` says why that must not be) | as `stranded_stop`, two workers, two task ids, parse and delete, 3 requests |
| `Ingestor`: `RunsAreBacked` | an overtaken publisher marks the next run SCHEDULED before that is published; if the publish fails the task is stranded (`engine/nats/nats.go:118`) | two clients, parse and stop, 3 requests, no fault; or two processes, one of them booting; or two workers of a process, 1 late heartbeat, 1 fault |
| `ConnectorLock`: `MutualExclusion` | the Redis key is deleted after the local lock is free: a late delete takes the key of the next holder, and a second process gets in (`syncer/README.md:76`) | the constants of `lock` |
| `JobExecutor`: `QueueHasRun` | a registration abandoned after its command was sent leaves a queue without a run (`syncer/job_executor.go:158`) | the constants of `executor` |
| `JobExecutor`: `OneRunWrites` | a job of a run that was given up writes beside the next run (`syncer/README.md:76`) | one task, two runs of one batch, two workers |
| `SchedulerTimers`: `OneTimer` | a fired callback removes its replacement from the map, and a third timer is armed beside that (`syncer/README.md:144`) | the constants of `wakeups` |
| `Syncer`: `RecoversOrphansOnly` | a starting process puts the row of a live worker back to SCHEDULE (`syncer/README.md:125`) | the constants of `rows` |
| `Syncer`: `RestartWakes` | the startup pass lists rows of connectors in status SCHEDULE only, which a freshly linked one is not (`syncer/README.md:130`) | as `rows`, `QuietStart` FALSE, link only |
| `Syncer`: `NextIsWoken` | another dataset's run makes the connector RUNNING, and the successor's look-up finds nothing (`syncer/README.md:156`) | two datasets with two sync rows each, one process with two workers, 2 links, no fault |
| `Syncer`: `RefusedIsOwned` | an error after the claim leaves the row RUNNING without an owner, and the redelivery is acknowledged (`syncer/README.md:152`) | the constants of `rows` |
| `Syncer`: `BudgetIsSpent` | a resumed row keeps its old retry count (`syncer/README.md:482`) | one sync row, two attempts, link and resume |
| `KnowledgeCompile`: `Quiet => Current` | a document that is disabled or deleted while it is being parsed is published as completed when the parse ends, and stays merged (`ingestion/task/pipeline_executor.go:268` reloads the status, for the chunks only) | structure, one item, parse and toggle, batches of two, 3 events, 4 claims, no fault |
| `KnowledgeCompile`: `Quiet => Current` | structure rows of an earlier parse stay, for rows are only added to (`ingestion/task/pipeline_executor.go:310` says the consumer retracts the stale ones when a template is removed) | the same with two items, parse only |
| `KnowledgeCompile`: `LastEventDecides without Undisturbed` | entries of an expired claim are applied after newer ones (`knowledge_compile/scheduler.go:58`) | the constants of `compile_settles` |
| `KnowledgeCompile`: `Quiet => Current` | the contribution snapshot and the merged pages are of different parses, and a later diff sees no change (`knowledge_compile/consumer.go:639`) | wiki, two items, parse only, batches of two, 4 events, 5 claims, no fault |
| `KnowledgeCompile`: `SnapshotsAreFenced` | the snapshot is written without lock and token check (`knowledge_compile/scheduler.go:136`) | the same with one fault |
| `KnowledgeCompile`: `CompletedIsDrained` | the dataset is completed with entries still in flight (`knowledge_compile/scheduler.go:422`) | the constants of `compile_settles` |
| `KnowledgeCompile`: `RebuiltIsFresh without its condition` | a claim whose lease expired keeps its token through `CancelInflight` (`knowledge_compile/consumer.go:310`) | the constants of `compile_faults` |
| `MemoryTask`: `ProgressProjected` | a worker without lease overwrites the progress of a completed task (`dao/memory_task.go:258`) | the constants of `memory` |
| `MemoryTask`: `SourceIsStored` | a task is woken before its raw message is stored, and the request's rollback is refused (`service/memory_extractor.go:25`) | the constants of `memory` |

Other things met on the way that no
property covers yet: `RequestStop` may close the log row of the replacement run
its re-read found; `rollbackCreatedTask` deletes a task another caller has
published meanwhile; DONE is written to the log before COMPLETED to the row, so
a racing stop leaves a STOPPED task with a DONE row; a panic leaves the log row
open; `StartRunning` finishes a STOPPING task while its first worker is still
executing.

## 4. What is proved

For all sets of clients, processes, workers, tasks, messages and log rows, all
request kinds and all budgets (but for `RunsStayBacked`, whose hypothesis restricts
them), from the assumptions `LogIdsAssumption` (row ids
are positive), `ServiceAssumption` (actors of different kinds are different, ids
are positive, budgets are natural numbers) and `IngestorAssumption` (each worker
has a process), and in the other modules from `LockAssumption`,
`ExecutorAssumption`, `NoneAssumption`, `RunnerAssumption`, `NoStateAssumption`,
`SyncerAssumption`, `MemoryAssumption` (the attempt limit is positive; in the code it
is 10), `DirtyAssumption` (the empty string is no ingestor's name: an empty
`claim_owner` means that nobody owns the row), and `CompileAssumption` (the batch size is
positive), which say what the constants are:

| Theorem | Statement |
|---|---|
| `TypeCorrect` | `Spec => []TypeOK` |
| `ClaimsExclude` | `Spec => []ClaimExclusive` |
| `ClaimsAreReleased` | `Spec => []ClaimsHaveOwners` |
| `OpenLogIsUnique` | `Spec => []OneOpenLog` |
| `LogsAreHistory` | `Spec => LogsMoveForward` |
| `ImplementsLifecycle` | `Spec => LifecycleSpec` |
| `RunsStayBacked` | `OneAtATime => (Spec => []RunsAreBacked)` |
| `LocalLockExcludes` | `ConnectorLock!Spec => [](TypeOK /\ LocalExclusion)` |
| `KeyIsOwn` | `Spec => KeyLostToOwnRelease` |
| `LockExcludes` | `Spec => []LoneWorkersExclude` |
| `WakeupsAreKept` | `TimersSpec => []WakeupKept` |
| `JobSettledOnce` | `JobExecutor!Spec => []SettledOnce` |
| `ExecutorTypes` | `Spec => []TypeOK` |
| `DispatchIsFair` | `Spec => []BoundedWait` |
| `CheckpointsAreSafe` | `SyncRunner!Spec => []CheckpointCovers` |
| `CompletedIsWhole` | `Spec => []CompleteIsWhole` |
| `RunsImplementWindow` | `Spec => ImplementsWindow` |
| `RowsAreSafe` | `Syncer!Spec => []OneRunning` |
| `PollingIsKept` | `Spec => []PollingGoesOn` |
| `CanceledStays` | `Spec => CancelIsFinal` |
| `OneAnswerIsStored` | `MemoryTask!Spec => []OneExtraction` |
| `StoredTasksAreStored` | `Spec => []StoredIsStored` |
| `LeasesProtectRuns` | `Spec => []LeaseProtects` |
| `AttemptsAreLimited` | `Spec => []AttemptLimit` |
| `MarksAreKept` | `WikiDirty!Spec => []MarkKept` |
| `EventsAreKept` | `KnowledgeCompile!Spec => []NothingLost` |
| `RebuildsAreFinal` | `Spec => []RebuiltIsFresh` |
| `LastEventsDecide` | `Spec => []LastEventDecides` |

**Types.** `TypeOK` is not inductive: an actor's statement is applied to `job`,
which is a task only where the actor has one, and a rollback writes `mode` into
the row. `TypeInv` adds `Known` (messages carry tasks, actors at a working label
have one, a rollback knows what it undoes) and `Published` (a held message was
published). One step per action.

**Claims.** A claim is given up by the name of the task, so it must be shown to
be the worker's own. `ClaimInv` says that workers in a run have a claim, that a
worker with a claim is in a run or settling and its task is in the claim set,
that two such workers of a process have different tasks, and
`ClaimsHaveOwners`. All steps but claim, settlement, delivery and crash keep the
claims and move one worker inside its part of the code (`Moves`) or none.

**Logs.** Every step satisfies `LogStep`: each row is left alone, inserted,
moved forward or closed, and a new open row is the only open one. The
transaction that opens a row drops only the newest open one, so the second part
needs `OneOpenLog` itself, which makes it inductive. Both theorems follow.

**Lifecycle.** Every statement that writes `status` is a move of
`TaskLifecycle`. Deletes by document need `OneRow`, which the moves preserve;
the unguarded delete needs that only such a request gets there
(`DeletesAreAsked`); rollbacks need `Known`.

**Backed runs.** The hypothesis `OneAtATime` is a condition on the constants: at most
one client, at most one ingestor process, and either heartbeats that keep the ack
deadline (`MaxLapses = 0`, any number of workers) or one worker. Each part is needed:
without any one of them TLC finds a run with no message (section 3). Faults, crashes,
restarts and the number of requests are not restricted. `RunsAreBacked` is not
inductive, since a worker that has seen its task end acknowledges the message later,
when a retry may have made the task live again. Such a worker is `Spent`, and
`CoverInv` asks for a message that no spent worker holds (`Covered`), for every
SCHEDULED or RUNNING task and for every publisher that is about to mark its task.
`HeldInv` says that a message has one holder, whose task it carries, and that a booting
process has no worker at work. A worker becomes spent only where its task is neither
CREATED, SCHEDULED nor RUNNING (`Proceeds`), and a run that starts is covered by the
message of the worker that starts it.

**Lock.** `LocalInv` ties the local table to the labels of the workers: a worker
that tries, holds or gives up has its process's entry, and two workers of a process
never both have it. `KeyIsOwn` is an action property from the same invariant. For
`LockExcludes` one adds (`KeyInv`) that the process of a holder has the key if the
holder is its only worker (`Lone`); with two workers in a process that is false,
which is how `MutualExclusion` fails.

**Executor.** A job's places (queue, hand, channel, worker, result) are disjoint
and each sequence has no duplicates; both are needed together, since a step moves a
job from one place to the next. For `BoundedWait` the invariant bounds `waited` by
the distance of the task from the cursor, which each dispatch shortens and a
registration at the end of the order does not change.

**Runner.** The saved anchor and the in-memory one are ordered, both cover written
batches, the statistics are those of the collected prefix, and results are "ok"
only for written batches. The refinement maps the resume position to the saved
anchor and the budget to what is left of the restarts.

**Syncer.** `OneRunning` is kept by the check under the lock of the link row.
`PollingGoesOn` needs to know which worker holds a row that a completion would
replace. `CancelIsFinal` is a property of the guards of all statements that write
a status.

**Timers.** Every owed wake-up has a timer in its map entry or a callback that has
not published yet; a callback that removes the entry of its replacement is harmless
because the replacement is armed whether or not the map knows it.

**Memory tasks.** Four facts make the properties inductive. Nothing happens to a task
before its row exists (`NotYet`). Every run that has an extraction past
`PersistExtraction` has the row's, and the row's is never overwritten
(`OneAnswer`): this is why a worker without a lease stores the right messages. A run
about to mark its row stored has stored (`MarkedIsStored`). Attempts are paid for by
runs that are still going to count them, or by faults (`Counted`), which gives
`AttemptLimit`.

**Wiki refresh.** The revision alone does not tell one dirty row from the next, as it
starts again at 1. The invariant is about the owner: a mark takes the row away from
it, and whoever owns the row and has read has read the latest change
(`OwnerIsCurrent`).

**Compiler, scheduling row.** Entries are positions of published events (`InRange`).
A worker holds a token that was given out, and whatever is inflight under it was
published before its claim (`Covering`): this is what lets an acknowledgement, which
matches by document and event type and so may remove an entry of an older claim,
count as processing it. For rebuilds, while no lease has lapsed a worker whose token
is the row's has a live lease, and its token is newer than the last cancellation
(`HoldersAreFresh`); so a `CancelInflight` that does nothing found no holder.

**Compiler, merged products.** While every batch runs through (`Smooth`), at most one
worker has a batch and it is exactly what is inflight (`OneBatch`), and inflight and
backlog are the latest events, in order (`InOrder`). From these two, the batch's last
event of a document that has none waiting is the last of all (`BatchDecides`), which is
what `processBatch` relies on. A user's change that leaves no event behind leaves the
products as they are (`UserEffect`), so a document whose products changed under a batch
has an event waiting. A batch touches only its own documents (`ReadsItsOwn`), and the
rest of the invariant follows a document through the batch: what has been read, loaded
and merged at each step (`Underway`, `MergesAsked`). `RemoveEntries` is
written with the ranks of the kept positions, for `SelectSeq` is beyond the provers;
the lemma `Ranks` (through cardinalities) shows that each rank is taken once.

Every inductive invariant above was an invariant of a TLC run of its module before it
was proved.

Only model-checked: all liveness, which is out of the prover's reach. Every invariant
and action property of the runs is stated by a theorem.

## 5. What is not modelled, and the plan

Left out for good: request decoding, listings, parsing, chunking, embedding,
retrieval, storage drivers, Python services, web interface. They transform data
or read state whose changes are modelled elsewhere.

Also left out: the prune runner's listing, connectors (clients of external
sources), the admin views of the queues, and the LLM calls of the compiler and the
extractor.

Next, in this order:

1. `Ingestor`: a bounded delivery limit, and a property that ties each log row to
   the run that opened it.
2. `Heartbeat`: the start/stop race of the ticker.
3. The harness's and the canvas's checkpoints, interrupts and resumption.

## 6. Running it

    tlc -workers 2 -config RunsEnd.cfg MCIngestor
    tlapm IngestorProofs.tla
