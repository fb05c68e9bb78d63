# Verification of the kernel optimisation agent

TLA+ modules, TLC runs and TLAPS proofs about the Python program under
`src/kernel_opt_agent`: a local web service that connects to a GPU machine over
SSH, measures a kernel there, rewrites its source in small authorised steps,
measures every rewrite strictly, and publishes the best version it could verify.
The user can cancel a task at any moment, the machine can fail at any moment,
and the source on the machine must be the user's again when the task is over.

## 1. The system

### 1.1 Components

| Component | Code | State it keeps | Operations |
|---|---|---|---|
| Source optimisation engine | `source_optimizer/engine.py` | parent version, tried targets and hashes, trials, accepted chain, published kernel and config files, result file | baseline, plan, rewrite, execute, restore, gate, parent recheck, publish, roll back |
| Planner, gate, rounds | `source_optimizer/planner.py`, `performance.py`, `rounds.py` | none | choose the next target, decide on samples |
| Analyzer and rewriting | `source_optimizer/analyzer.py`, `load_schedule.py` | none | find targets, rewrite one |
| SSH runner | `runner/ssh_runner.py` | the client and its channels, the remote workspace, timeout, device and environment | connect, upload, run, run_cancellable, download |
| Local runner | `runner/local_runner.py` | one directory per version | run |
| SSH session store | `server/ssh_sessions.py` | sessions with reference count, expiry, revocation, timer, operation lock | create, acquire, release, delete, expire |
| Log redaction | `redaction.py` | secrets in use, counted | register, unregister, redact |
| Task records | `server/task_manager.py` | status, cancel flag, progress events | create, set_status, request_cancel |
| Job worker | `server/job_worker.py` | one daemon thread per task, the global slot `WORKER_LOCK` | queue, prepare, run, record failure, release |
| HTTP API | `server/app.py` | none of its own | create and cancel tasks, sessions, detection, uploads, results |
| Baseline and search loop | `main.py` | the best configuration so far | run a trial, keep the best |
| Profiler collection | `profiler/mcprofiler/collector.py` | remote report directories, their local copies, the evidence files and the collection record | check tools, collect, fetch, verify, parse, record |
| Sample uploads | `server/sample_uploads.py`, `sample_security.py` | staged and published uploads, the sample of a task | receive, create, load the manifest, materialize, copy a local directory |
| Attribution of counters | `profiler/mcprofiler/attribution_validation.py`, `profiler/attribution.py`, `profiler/identity.py` | receipts of this process, rows of observations | validate a collection, annotate a row, decide its eligibility |
| Host keys | `runner/host_keys.py` | remembered fingerprints in a file | verify, remember |
| Preflight and file tasks | `server/task_preflight.py`, `file_task.py`, `run_request.py` | none | validate, check dependencies |
| Hardware detection | `hardware/` | none | query, parse, select a device |
| Storage and reports | `storage/` | append-only records | append, write |
| Patcher, template agent, diagnosis | `patcher/`, `agent/`, `diagnosis/` | none across calls | one controlled patch; rules over metrics |
| Legacy API, web page, samples | `api/`, `frontend/`, `samples/` | none | browse results; display; example workloads |

### 1.2 How they interact

An HTTP thread of `create_task` validates the request, may open an SSH session of
its own, takes a lease on the session, selects a device under the session's
operation lock and submits the task.  `JobWorker.submit` starts a daemon thread
which takes `WORKER_LOCK`, then the operation lock, redirects the session's one
`SSHRunner` to the task's workspace (`prepare_task`), runs the preflight, the
search of `main.run` and then `run_source_optimization`, records a status and
gives everything back.  Meanwhile other HTTP threads cancel the task
(`TaskManager.request_cancel` sets a flag, nothing more), run detections on the
same session, delete it, or poll the result.  A `threading.Timer` per session
closes it when it expires.  The engine polls the flag; while a remote command
runs, `run_cancellable` polls it too and stops the remote process group.

### 1.3 What is hard about it

* The flag is read at some twenty places, and the user may set it between any
  two.  The engine has four different clean-ups for the four stages of a trial.
* A rewrite is executed in the one directory every other version uses.  Uploading
  clears it first, so a failed upload leaves neither version behind.
* A command that could not be stopped may still be writing.
* A publication is four effects with failures in between.
* A connection is shared by detections, several tasks and the expiry timer; its
  reference count, its revocation and its expiry decide together who closes it.
* The wall clock that decides expiry and the monotonic clock of the timer differ.
* A report is hashed on the remote host, downloaded and compared in three steps,
  while a process that outlived its command may still rewrite it.
* Artifacts are downloaded first and searched for secrets afterwards.
* Failures of `prepare_task` happen after the slot is taken and before the task's
  own error handling.
* A load is moved across statements by what names they mention; a statement that
  reads, writes, synchronises or renames must stop it.
* The engine builds a chain of accepted trials over the rounds, and the server
  checks the same chain from the file: samples, gates and hashes have two readers.
* A row of counters is evidence only as long as the files behind it are the ones
  that were validated, and only in the process that validated them.
* An upload is searched for keys in chunks, published by a rename, and copied into a
  workspace when the worker slot is free, however much later that is.

Each of these is a hazard of `PROJECT.json`, at its line, with the properties that
would catch it going wrong.

### 1.4 What makes each part correct

* **Engine**: only a version that was measured, rechecked and cleanly undone is
  ever published; the result file, the kernel file, the config file and the
  workspace agree; a failure or a cancel the engine handles leaves the baseline; a cancel starts at
  most one further command; every run ends.
* **Session store**: a lease keeps its connection; a connection is closed once
  nobody can use it; secrets are redacted as long as somebody uses them.
* **Service**: the shared runner carries the settings of the task that uses it; a
  terminal status is final and agrees with the result file; an acknowledged
  cancel is honoured; whatever a request opened for itself is closed; nobody waits
  for ever.
* **Search**: the best configuration was measured and, on a shared workspace, not
  replaced by another trial's files; every trial that began has its record.
* **Managed command**: a result that calls a stop verified means the whole process
  group is gone.
* **Rewriting**: a rewritten kernel computes what the original computes, and the
  rewriting ends.
* **Rounds**: what the engine calls completed the server can verify; a gain that is
  shown was measured against the original baseline and a repeated parent; a plan
  attempts what is open, on evidence of its own parent.
* **Attribution**: a counter that plans is backed by files that still prove it, and
  an honest one is not lost on the way.
* **Uploads**: what is published is whole and free of keys; a failure that
  can be cleaned up leaves nothing; a task works on the bytes that were sent.
* **Profiler collection**: no copy with a configured secret stays; what is
  recorded as collected is the report that was on the remote host; a collection
  that was asked to stop is not collected; every call has one record.

## 2. Modules

| Module | Models |
|---|---|
| `ManagedCommand` | `run_cancellable`: the calling thread, the remote supervisor, the command's process group, the stop shell |
| `CommandContract` | what a caller of `run_cancellable` may rely on |
| `VersionExecution` | one strict execution of one version, the collection after it, and the restore |
| `Publication` | the abstract promise of a run: its best kernel and its result |
| `SourceOptimizer` | the whole of `run_source_optimization`; EXTENDS `VersionExecution` |
| `MCSourceOptimizer` | its instances: a lattice of versions and all request switches |
| `SourceOptimizerProofs` | its types, its invariants, `StopBlocksRewrite` and that it implements `Publication`, for all constants |
| `LeasedConnections` | the abstract promise of a store of shared connections |
| `SSHSessions` | `SSHSessionStore` with the redaction registry and two clocks |
| `MCSSHSessions` | its instances |
| `TaskLife` | the abstract promise of the service to its clients: the life of a task |
| `TaskService` | HTTP threads, task records and workers; EXTENDS `SSHSessions` |
| `MCTaskService` | its instances |
| `TaskServiceProofs` | the store: types, registry, leases, that it implements `LeasedConnections`; the service: its safety properties, that it implements `TaskLife`, and that it drives the store through the store's steps only |
| `SearchLoop` | `run` and `run_trial` of `main.py` with the controlled patch trial and the final report |
| `MCSearchLoop` | its instances |
| `SearchLoopProofs` | its types and its three safety properties for all constants |
| `ProfilerCollection` | `collect_remote_mcprofiler_case`, its callers' record, and the remote directory |
| `MCProfilerCollection` | its instance |
| `ProfilerCollectionProofs` | types and the four properties for all constants; of the command it runs: types, `VerifiedStopClearsGroup`, `NoStalePidFile`, and that `ManagedCommand` implements `CommandContract` |
| `KernelLanguage` | the part of TileLang the rewriting reads, and what its statements do (external) |
| `KernelRewriting` | `analyzer.py` and `load_schedule.py`: effects, targets, rewrites, and the repeated analysis |
| `MCKernelRewriting` | its kernels |
| `KernelRewritingProofs` | `MeaningKept` for all functions without a second name that matters |
| `SourceRounds` | the planner, the gate, the advancing parent, the result file, and `_source_best_verification` of the server |
| `MCSourceRounds` | its instance |
| `SourceRoundsProofs` | its three properties for all constants |
| `AttributionReceipts` | validation of a collection, its receipt, the row, and the row's use as evidence |
| `MCAttributionReceipts` | its instance |
| `AttributionReceiptsProofs` | both properties for all constants; with the shipped table of definitions no counter plans |
| `SampleUploads` | create, manifest, materialize, local directories, inline texts, the contract over the sample |
| `MCSampleUploads` | its instance |
| `SampleUploadsProofs` | its three properties for all constants |

### 2.1 ManagedCommand and CommandContract

Four parties act on one remote command: the thread in `run_cancellable` (`thread`),
the shell that was sent with the command and supervises it (`supervisor`), the process
group of the command (`leader`, `helpers`), and the second shell that is sent to stop it
(`stopper`).  They communicate through the exit status of a channel, a pid file, and
signals.  A wait of the code is one step each way: it ends because what it waits for
happened, or because it gave up where the code gives up.  `link` is the connection as the
local side knows it, `silent` says that nothing gets through it any more, `heard` which
exit status has arrived: a connection that breaks is noticed, one that falls silent is
not, and `recv_exit_status` (ssh_runner.py:554) then waits on.  `flooding` is a command
that writes faster than the two reading loops read.  Three facts of the machine
are assumed: `setsid` makes the command lead a group of its own before
its environment can be read, a pid is not reused while the stop shell looks at it,
and nobody but the stop shell kills the supervisor, except that it may receive a
hang-up once its channel is gone.

`CommandContract` has the view of the caller: the command may run, a result is
returned, and a result that calls the stop verified, or that is an exit code of
the command itself, comes after the group is gone.  A broken connection is the
one result that says nothing: exit code -1 without the mark of an unverified stop.
`VersionExecution` takes its results from this contract; `CommandLost` is the
broken connection.

### 2.2 VersionExecution and SourceOptimizer

`exec` is the `_ExecutionOutcome` under construction together with the place the
thread has reached (`stage`).  `workspace` is the content of the remote directory:
a version, or `Unknown` for bytes that are no version.  `Checked(next)` is the
idiom of the code: test the flag, return `cancelled` if it is set, go on
otherwise; an action that starts a command without such a test calls `CountStart`
only.  `task` holds the switches that change control flow: the entry source,
whether it is a file task, whether a build and a profiler are configured.

In `SourceOptimizer`, `pc` names the places between which the flag or the outside
world can change; a handler's straight-line code between two such places is one
action.  The pairs of flag reads at engine.py:957/964 and 1064/1068 are one read
each: between the two nothing else happens that the second one could see.

| Code | Actions |
|---|---|
| engine.py 626-760, before the loop | `BeginUnavailable`, `BeginBaseline`, `BaselineFails`, `BaselineVerified` |
| 762-871, planning and rewriting | `RoundBegins`, `BudgetExhausted`, `PlanStops`, `RewriteRejected`, `CandidateStarts` |
| 872-995, one trial | `CandidateRestored`, `GateRejects`, `GateRechecks`, `GateSkipped`, `RecheckRestored`, `TrialSettles` |
| 996-1110, publication | `Final...`, `Publish...`, `DeployedChecked`, `Undeployed`, `KernelCop...`, `ConfigUpdate...`, `Unpublished`, `Announced...` |
| 1113-1134 | `StatusDecided`, `ResultWritten`, `WriteRaises` |
| 423, 894, 906, 918, 932, 1002, 1025 and other unguarded file access | `EngineRaises` |
| 1092-1093 and 1108-1109, the undo of a publication | `Reverted` in `Unpublished` and `AnnouncedCancelled`, or `UndoRaises` |

Samples and evidence are not modelled: the gate may decide either way, the planner
may choose any open target or stop, which covers every statistic.  Faults of the
environment are the constant `Faults`: an upload or build_runner that raises
(`deploy`), an audit that finds other bytes (`audit`), a restore that fails
(`restore`), a stop that cannot be verified (`stop`), a connection that breaks under
a command (`link`), and local file errors (`local`).  `verified` and `lateCommands` are history variables; no action reads
them.

Three actions are exceptions that leave the engine, all of the fault `local`.
`EngineRaises` is any file access outside a `try`, with the workspace, the runner and the
published files as they are; that includes the record of a failed collection (engine.py:423),
at which a candidate is deployed.  `UndoRaises` is an undo of a publication that cannot
write either: the handler's own write raises, and `best_kernel.py` keeps the candidate or
damaged bytes.  `WriteRaises` is behind the decision about the status.  In each of them
the job worker marks what the result file holds as failed, and a file that was left in
pieces reads as a failed result without a best kernel (`Unreadable`).  One raise between
two such places has the effect of the raise at the place before it.

`Publication` is what a client may assume of a run, without rounds, trials, commands or a
machine: there is no kernel before the user's own source was measured; a source is accepted
only with a complete proof, and not after a cancel; only the source accepted last is ever
published.  A completed run has published it, a failed run that returns has taken everything
back; a cancelled one shows either, since a cancel can come behind the publication (finding 2).
The result is written once, with what the kernel file holds at that time.  A run that an
exception breaks off promises that its result says failed and that the kernel file holds no
unproven source: it may hold the latest one, or be damaged.
`ImplementsPublication` maps `latest` to the source of the last
accepted trial, `outcome` to the status once it is decided, `report` to the file on disk.

With the local runner every version has its own directory, so the statements
about the shared `workspace` concern SSH tasks.

### 2.3 SSHSessions, LeasedConnections and TaskService

Every method body under the store's lock is an action of `SSHSessions`.  `create`
has three steps, since the lock is taken only for the last: the password is
registered and the connection attempted, the connection succeeds or fails, the
session is put into the dictionary and its timer started.  `now` is the monotonic
clock, `now - lag` is `time.time()`; `SetBack` sets the wall clock back.
`StoreSpec` leaves it alone, `AnyClockSpec` does not.

`LeasedConnections` is what a borrower is entitled to: a connection opens once, is
lent while it is open, and closes when no holder has it.  `ImplementsConnections`
maps its `open` to the sessions whose connection works, `borrowed` to the leases.

`TaskService` adds one thread per request.  `step` is where that thread stands:
first the HTTP thread, then, for a task, its worker.  `workerLock` and `operation`
are the two locks in the order the code takes them, `runner` is whose settings
the session's one `SSHRunner` carries.  The engine's part is `EngineReturns` with
the results `run_source_optimization` can have, or `Raises`.

`TaskLife` is what a client sees of all this: the status and the result file of every
task, which cancels came in time, whose turn it is on the machine, and who holds a
connection.  Tasks have one turn each and one at a time; a status has its successors
only, and the last one is final; a cancel in time excludes a completed task, and one that
met a waiting task excludes a running one; a connection is taken before there is a task
and stays until the task is over and its turn has passed.  `ImplementsTaskLife` maps a turn
to `WORKER_LOCK`, a connection to the lease, and leaves out the cancels that came too late.
A task whose preparation raised ends its turn first and is `failed` afterwards, since
job_worker.py:69 stands behind both locks; the abstract task may do so too.

### 2.4 SearchLoop

One record `trial` holds the locals of `run_trial`, `pc` the place in `run`,
`run_trial` or `run_patch_trial`.  `files` is the local kernel file of every
configuration: as rendered, patched, or changed by a command of its own; `remote`
names the trial whose files the shared remote workspace holds; `stray` says that a
command nobody waits for may still run.  `TrialRaises` is an exception behind the
`try` block: it leaves the runner open, and `db.append` may already have kept the
record.  The policy of `OptimizerPolicy.propose` may propose any few configurations
that are new, in any order; its second test for `tried` in `run` can never be true
and has no action.  `measured` is a history variable.

| Code | Actions |
|---|---|
| main.py 586-646, `run` | `Baseline...`, `IterationStarts`, `CandidateStarts`, `BatchEnds`, `SearchEnds`, `Failure...`, `Report...` |
| 284-410, runner and commands | `Deployed`, `DeployFails`, `Command...`, `BenchmarkPasses`, `StopUnverified`, `LinkBreaks`, `AuditFails` |
| 412-421, cancel and restore | `Settles`, `Restore...` |
| 423-543, collection and end | `Collects`, `Closes`, `Recorded`, `TrialRaises` |
| patch_runner.py, patch_generator.py, rollback.py | `Patch...`, `SyntaxFails`, `CompileRaises`, `RollsBack`, `RollbackFails` |

### 2.5 ProfilerCollection

`call` holds the locals of one collection, `pending` the arguments `finish()` was
called with, `remote` the collection directories that exist and the one at hand,
`cases` and `partials` the local copies.  A tree is a record of what the
collector can tell apart in it: how many reports, which text the first one has,
the same for the reports of the named kernel, whether a secret is in it, whether
the counters are numbers.  The digest of a text is the text.  `Rewrites` is a
process of the profiled command that left its process group and writes on.

`finish()` stands inside two `try` blocks whose handlers call it again:
`PersistFails` follows the handler that is around that call.  An exception that
leaves the function ends in `CallerRecords`, the record `run_trial` and the engine
write for it; `broken` is a history variable with the calls that ended so.
`NextTrialUploads` is the upload that clears the remote workspace between two calls.

| Code (collector.py) | Actions |
|---|---|
| 361-419, before the command | `Begins`, `Refused`, `ToolFails`, `ToolsAreThere`, `Prepare...` |
| 421-457, the command and its answer | `Command...`, `StopUnverified`, `LinkBreaks`, `LogsFail`, `NotExecuted`, `Execution...` |
| 321-348, partial artifacts | `PartialKept`, `PartialDropped`, `PartialStays` |
| 459-502, discovery, download, search, hash | `DiscoveryFails`, `ReportsMiscounted`, `ReportHashed`, `CaseExists`, `Download...`, `SecretFound`, `ScanRaises`, `Report...` |
| 504-598, the named kernel and the import | `Kernel...`, `CountersMissing`, `ParseFails`, `Imported` |
| 149-157, 364-370, the record | `Persisted`, `PersistFails`, `CallerRecords`, `CallerRaises` |

### 2.6 KernelLanguage and KernelRewriting

A function is a table of statements, its first one the body; a statement is a record:
its kind, its target, value or call, the numbers of the statements in its lists, which
are further down in the table, and whether it shares its source line with the one before
(`glued`).  An expression is a constant, a name, an element or a slice, whose indices are
elements of atoms at most.  So everything that descends into a function is a recursive
function over its table, and nothing is a RECURSIVE operator.

`KernelLanguage` says what a function does.  Given the outcome of every `if`, `Code` is
the sequence of acts of a statement (a call, an assignment, a test, a turn of a loop),
`Do` carries out one act, `After` a sequence of them, and `Meaning` is the memory and the
trace at the end for all outcomes.  Contents are symbolic: every cell holds the term that
was stored there, so that two functions agree exactly when they compute the same terms; an
opaque call makes a term of all it was given.  That module stands for the TileLang the
rewriter assumes and is external.

`KernelRewriting` is what the code makes of it: `CallEffects`, `OwnEffects` and, with the
statements below, `StatementEffects`
(names read and written, unknown, synchronising, unsupported), `HasBufferAliasing`,
`IsGlobalToSharedCopy`, `IsIsolated`, the insertion point behind the earlier loads and
behind the definitions a load depends on, `MayCross`, and the copy loops that become
`T.copy`.  `RewriteCopyLoop` and `RewritePrefetchSharedLoad` apply any one target to
the current kernel, as the rounds of the engine do.  Left out: columns, hashes and
identifiers of targets, an extent name that is bound again between an allocation and
a loop, and an `if` that decides differently in two iterations of one run.
`Unaliased` is no part of the code: it says what the code takes for granted, that the
indices of a load and the names of a copy loop have one name each.

| Code | Definitions |
|---|---|
| load_schedule.py 61-414, effects | `NoEffects`, `Merged`, `Read...`, `Write...`, `CallEffects`, `OwnEffects`, `WithBelow`, `StatementEffects` |
| 186-279, buffers and aliases | `TrackedBuffers`, `BareBuffer`, `KnownBufferCalls`, `HasBufferAliasing` |
| 417-545, targets | `IsGlobalToSharedCopy`, `PriorCopies`, `Dependencies`, `InsertionIndex`, `MayCross`, `PrefetchTargets` |
| 117-191, 548-593, scopes | `IsPrimFunc`, `BindsDsl`, `DslActive`, `FindPrefetchLoads` |
| 436-451, 596-620 and analyzer.py 160-320 | `Searched`, `MoveLines`, `Elementwise`, `IsCopyLoop`, `BulkCopy`, `Rewrite...` |

### 2.7 SourceRounds

The decisions that `SourceOptimizer` leaves open, and both readers of the result.
`AssessPerformance` and `SavedGateIsAccepted` are `performance.py`; a latency is an
integer and the median is doubled, which no comparison notices.  `WellFounded` and
`ValidatedPlan` are `_validate_plan`; `PlannerAnswers` takes every well founded answer,
and `PlannerFallsBack` is the rule that is used after two others.  `parent` is what a
round builds on: version, samples and code generation evidence, which `Adopt` advances
together.  `result` is `source_optimization.json`, `bestKernel` the published file.
`SourceBestVerified` and `SourceGain` are the server's, which reads these two and
nothing else: `ParentOf` finds in the trials what a trial was built on, `FollowsParent`
judges one trial by it, and `SourceBestVerified` asks that of every accepted trial up
to the one that is shown.  Commands, restores and their faults are reduced to success and
failure, since `SourceOptimizer` has them one by one; samples are positive and the
baseline has targets, which the engine checks before the first round.  `EngineRaises`
is an exception at any effect, the undo of a publication included: the worker marks the
file as failed, if it can write it, and `best_kernel.py` may keep the candidate.

### 2.8 AttributionReceipts

A file of `version` moves from one of its contents to the next and never back, so a
hash names a version (`VersionsAssumption`).  `validation` goes through the four parts of
`validate_mma_collection` (`ArtifactsHashed`, `NativeRead`, `CalibrationEvaluated`,
`ReceiptIssued`), and a file may change between any two; so it may between
`RowAnnotated`, `RowJudged` and `RowTaken`, the three calls a round makes for one row.
`receipts` is the bounded dictionary of this process, `process` its key: a restart
changes it, and a row that was written before carries a claim nobody can check.  The
store can also drop a receipt and issue the same one again between two of the three
calls; `known`, which no action reads, notes whether the receipt was there at each.  A
row has two containers, its own fields and its collection scope, and may claim
anything.  Fields of the identity that the code treats alike are one field.

### 2.9 SampleUploads

A path is the sequence of its components, a file the sequence of its bytes, its
digest the bytes themselves; what a client sends is a form with its length, its entry,
its files and how many other parts it has.  `request` is one call of `create`: `Receive` is the
parser with its limits, `ChunkWritten` one read of one file with the search for a key
in the chunk and the window before it, `Published` the rename.  `task` goes from
`CreateTask` (the admission over the manifest) to `MaterializeBegins`, which reads it
again, `FileChecked`, `FileSearched` and `FileCopied` (the three times a file is opened),
`AuditStaged`, `SamplePublished`, `AuditReplaced`, or over a local
directory through `CollectionBegins` and `LocalCopied`, and ends in the contract over
the files that are there.  `CreateFails` and `MaterializeFails` stand for a failure of
any operation with the clean-up of the handler; `Abandoned` and `UndoRaises` for one without
it, because the read was cancelled, which `except Exception` does not catch, or because the
removal itself failed.  `raced`, which no action reads, names the files that changed
between their own check and their copy.  `Decays` is what may become of a
published upload (a manifest that still loads lists what it listed: nobody rewrites
one into another valid manifest), `LocalEdited` a user at work in the local directory, `Restart` the
server: requests and tasks are gone, directories stay.

## 3. Runs

| Run | Instance | Shows |
|---|---|---|
| `optimizer` | 5 versions, 2 targets, 3 rounds, 2 repeats, all faults, 16 requests; 2.4 M states | seven safety properties, refinement of `Publication`, termination |
| `managed_command` | one command, all faults; 43 k states | what a result says of the machine, refinement, and what alone can keep the call |
| `sessions` | 3 sessions, 2 threads, TTL 2, clock to 4; 182 k states | redaction, leases, refinement |
| `service` | 2 requests of 3 kinds, 2 sessions, clock set back; 2.1 M states | four properties of the composed service, refinement of `TaskLife` |
| `service_live` | 2 requests of 4 kinds, 1 session; 203 k states | every request ends, every connection closes |
| `search` | 3 configurations, 2 iterations of 2, 5 requests, all faults; 2.4 M states | three safety properties and termination |
| `collection` | 2 calls of 3 kinds, 2 identifiers (symmetric), 6 trees, all faults; 3.3 M states | four safety properties of the collector |
| `rewriting` | some 7 000 kernels, every order of rewrites; 10 859 states | the meaning is kept, the rewriting ends |
| `attribution` | 5 collections, 3 imported rows, 2 parents, one change, one restart, a store of one receipt; 349 k states | what is eligible is proven, what is honest, untouched and known is usable |
| `rounds` | 4 versions, 5 sets of samples, 4 kinds of evidence, 2 rounds; 1.3 M states | two readers of one result agree, a gain is earned, plans are authorised |
| `uploads` | one upload of 13 forms, 2 tasks (symmetric), 7 kinds of decay; 1.8 M states | uploads are whole, failures leave nothing, tasks work on what was sent |
| `rewriting_aliased_index` | kernels with a second name of an index buffer | counterexample: a load that moves above the write it depends on |

**Bounds and why they are enough.**  Two targets on four versions give every
relation between rewrites the engine distinguishes: a new version, one already
tried by another path, and the baseline again; a fifth version without targets
takes the paths for an unavailable optimisation.  Three rounds allow an accepted
chain of two, a failure after an acceptance, and a round that ends the budget.
Two repeats separate the first, the last and neither.  In the store, a TTL of two
inside a clock of four leaves room for an acquire before, at and after expiry, and
two sessions share a password while one has none.  In the service, two requests
are enough for every pair of threads that can meet at a lock.  In the search, two
candidates besides the baseline are a batch that a cancel can interrupt, a second
iteration with something or nothing left, and a best that is not the last; two
values are better and worse.  In the collector, two calls meet an identifier that
was drawn before, with a local case, a partial copy or neither left over, and
every tree differs from the usual one in one thing; a third call meets nothing
else.  In the rewriting, every pair of interfering statements stands between two
loads, and shorter bodies repeat them under every kind of shadowing; a third statement
between them would be crossed by the same test.  In the rounds, a second round is the
first whose parent was accepted before; samples are far apart, close, and overlapping,
and one version is reached by two ways.  In the attribution, a store of one receipt is
full with the second one, and every defective collection has one defect.  In the
uploads, chunks are of two bytes and the key of two, so that it lies in one chunk, in
two, or at the seam of two files; every form is at a limit or one beyond it; two tasks
copy the same upload, since two uploads share nothing.  `MaxCalls`, `MaxTime`,
`MaxLag`, `Budget`, `Repeats`, `MaxReceipts`, `MaxChanges`, `MaxRestarts`, `MaxRows`,
`Attempts` and `MaxLate` (where the counter of late commands saturates) are the only
bounds; `MaxTime` and `MaxLag` stop the clocks.

**Deadlock.**  The engine's run is checked for deadlock; its end is a stuttering
action.  The store's and the service's runs switch the check off: when every
session is gone and the clock stands at its bound, an idle server really stops,
and `RequestsEnd` is what says that no thread is stuck.  The runs of the
rewriting, the attribution, the rounds and the uploads switch it off as well: a
kernel with nothing left to change, a receipt with its changes used up, a result that
is read and an upload that was copied or refused are ends of sequential work.

**Fairness.**  `WF_vars(Engine)`: the worker is a Python thread nobody abandons.
Every remote command has a timeout, and connecting has one; what a timeout is not enough
for is said below and stays away in `Terminates`, `RequestsEnd` and `RunEnds`.  `TaskService` has
weak fairness for every request's thread, the timers and the clock: locks are
released by threads that run on, and a thread that waits for a lock is granted it
when the lock stays free.  Nobody is obliged to cancel, delete or ask.
`ManagedCommand` has weak fairness for the thread, the two shells and time, and none for the
command, its output or the connection.  `CallReturns` then says that the call comes back
unless one of two things keeps it: output that floods the reading loops over and over
(ssh_runner.py:562-565 and 581-584), so that neither the cancel nor the timeout is looked
at; or an answer awaited from a connection that died unnoticed (554).  connect() sets
keepalives (127), so that a peer which no longer acknowledges becomes a broken connection
after a while; one that acknowledges and never answers does not.
`SearchLoop` has weak fairness for the worker.  `KernelRewriting` asks for fairness of
its steps only to say that they come to an end (`Settles`).

## 4. Where the code and its documents differ

One violation run, `rewriting_aliased_index`, with its finding in `PROJECT.json`:

1. `_has_buffer_aliasing` is asked about global and shared buffers; a fragment that
   holds indices may have a second name, through which a write passes the comparison
   of names.  The load moves above that write and reads another row.

The other disagreements that the models show have no run of their own; each is a
predicate that one line states and the run named here then violates:

2. (`optimizer`) A cancel between engine.py:1100 and engine.py:1118 ends as `cancelled`
   with the reason that the baseline was retained, while the candidate is published
   (tests/test_optimization_rounds.py:344-345 asserts the opposite); one between
   engine.py:1000 and engine.py:1016 leaves the candidate deployed.
3. (`optimizer`) A cancel that keeps the recheck from building a runner (engine.py:925),
   or that arrives inside the local publication (engine.py:1089), makes the run `failed`.
4. (`optimizer`) The restore after a recheck does not look at `restore_allowed`
   (engine.py:925), which engine.py:165 calls "workspace rewrite withheld";
   `StopBlocksRewrite` therefore speaks of baseline and candidate commands only.
5. (`sessions`) A wall clock set back lends a closed connection: the timer closes it by
   the monotonic clock, `acquire` decides by the wall clock.  Section 5 says where the
   proofs need the assumption.
6. (`managed_command`) A cancel that is seen before the supervisor wrote its pid file,
   or after the command ended, finds nothing to stop (ssh_runner.py:537): the result is
   that the stop could not be verified.
7. (`search`) Over SSH a patch trial is validated and measured on files that were never
   patched (patch_runner.py:120-156): the patch is written to the local copy.
8. (`optimizer`) The undo of a publication is two writes outside any `try`
   (engine.py:1092-1093, 1108-1109).  On a full disk the copy at 1074 truncates
   `best_kernel.py`, the undo raises for the same reason, and the task is `failed` while the
   file keeps the candidate or damaged bytes.
9. (`optimizer`) The record of a failed collection is written in the handler of that
   failure (engine.py:423); when it raises, the run ends with the candidate on the machine
   and its runner open.
10. (`uploads`) `materialize` reads each file three times (sample_uploads.py:384, 386, 391);
   what changes in between reaches the sample unchecked, while the audit lists the digest
   that was sent.
11. (`managed_command`) Two things keep a call for ever, timeout or not: see section 3,
   fairness.

Met while modelling and left without a run: a rollback after the publication that
cannot be confirmed does not make the run `failed` (engine.py:1100); main.py builds
before it checks correctness, the other way round than
docs/technical-architecture.md:183 says; a trial whose runner could not be built
while the user cancelled counts as `cancelled` with a rollback that is called
verified (main.py:416).

## 5. Proofs

Every safety invariant of the runs, their two action properties and the four refinements are
theorems of their specification, for every value of the constants that the modules'
named ASSUMEs admit: all budgets, repeats, limits, numbers of requests, sessions and
calls, sets of rows, forms and trees, and every set of faults.  The bounds of section 3 belong to the runs; `MaxCalls`, `MaxTime`, `MaxLag`,
`MaxRows` and the like are arbitrary in the proofs.

Hardly one of the properties is inductive.  Each proof names the invariant that is,
`Init => I` and `I /\ [Next]_vars => I'` are proved of it with one step per action, and
the property follows.

**SourceOptimizerProofs.**  Five layers, each resting on the one before it.

* `TypeCorrect` and `PublicationSafe` (`PublishedIsVerified`) from
  `IInv == TypeOK /\ Provenance`: that the copied file is verified rests on the accepted
  list, which rests on what happened at the recheck several steps before.  `Provenance`
  says that every accepted trial's version is in `verified`, that the list of candidates
  points at such trials, and that the verdict about to be given is backed by the recheck.
* `LateCommandsBounded` (`CancelBoundsWork`) from `LateIsLast`: no place at which a command
  starts without reading the flag follows a late command.  `NothingTriedTwice`
  (`NoVersionTriedTwice`): `attempted` covers every trial, the failed ones too.
* `FailurePublishesNothing` (`FailedPublishesNothing`, which no run repeats, since the
  refinement implies it but for the number of the trial) from `FilesInv`: the best files and
  the result at every place of a run that has not raised.  The undo may fail like the copy
  before it; what a run that raised leaves is in `IInv` and in the refinement.
* `RoundsStartVerified`, `RunsEndVerified` (`EndsOnVerified`) and `ReportsAreOnDisk`
  (`ReportedBestIsOnDisk`), the latter two of runs that return, and the action property `NothingRewrittenUnderCommand`
  (`StopBlocksRewrite`) from `WorkInv`: what the remote directory holds at every place,
  also when the last restore could not be verified or a command outlived its stop.
* `EngineKeepsPromise` (`Spec => ImplementsPublication`) from `PromiseInv`, with `IInv`,
  `FilesInv` and what was tried: an execution ends as cancelled only when the flag was read
  (`AskedBefore`), a result names the trial accepted last and no other (`NamedIsLatest`), and
  a run that may still become completed has published it (`NothingHeldBack`).  Each action is
  then one step of `Publication` or none; `Unseen` and `MiddleUnseen` are the many that are none.

**TaskServiceProofs, the store.**  For `AnyClockSpec`, however the wall clock is set,
`StoreTypeCorrect` and `RegistryBalanced` (`RedactionBalanced`) come from `StoreInv`:
besides the two properties it needs `RefsCounted` (a reference count is the number of
leases) and `EarlySecrets` (what a session under construction has registered).  For
`StoreSpec`, where the wall clock is not set back, `LeaseSafe` (`LeaseKeepsConnection`)
and `StoreImplements` (`ImplementsConnections`) come from `LeaseInv`, which adds that a
session that can still be acquired is open unless it has expired.  They need that
assumption: with `SetBack` the timer closes a connection that `acquire` then still calls
unexpired.

**TaskServiceProofs, the service.**  `ServiceUsesStore` (`Spec => AnyClockSpec`): every
step of the service is a step of the store under some clock, or leaves the store alone.
What is proved of the store is thereby true inside the service (`RedactionInService`);
so is not what needs `StoreSpec`, since nothing keeps a user from setting the clock.
`RunnerIsServing`, `CancelIsHonoured`, `ResultIsInAgreement`, `OwnConnectionIsClosed` and
`StatusIsFinal` (`TerminalIsFinal`, which the refinement implies and no run repeats) come from `TaskInv`, the store's invariant with `ServiceInv`.  The latter
says what every thread holds at its step: its request and lease, the status and result
of its task, where a cancel can still meet it (`ThreadInv`), and whose the slot, the
operation lock and the runner are (`LockInv`).  That the runner serves the task which
uses it needs all of these, since another thread takes the runner away only by holding
the operation lock of the same session.  `OwnConnectionIsClosed` adds `ClosingOrder` (a
session out of the dictionary is closed by its last lease) and `OwnAt` (the session a
request opened for itself is out of it once the task is submitted).

`ServiceKeepsTaskLife` (`Spec => ImplementsTaskLife`) from `LifeInv`: `TaskInv` with what it
leaves open about one thread's client.  `SlotAt` says at which steps the thread has the
slot, `PlainAt` that a task which is not optimised has no result file, `InTime` that a
cancel is late only behind the last check.  Each action of a thread is then one abstract
step of its task or none; the store's own steps are none; and what one thread does is
invisible in the lives of the others (`OthersLive`).

**ProfilerCollectionProofs, the command.**  `CommandTypeCorrect`, `StopClearsGroup`, `PidFileRemoved` and
`CommandImplements` (`CommandSpec => ImplementsContract`) from `MInv`, the types with what each
party knows: where the supervisor stands when the pid file exists (`ShellInv`), what the
stop shell may have seen (`StopperInv`), and what the thread's result rests on
(`ThreadInv`).

**SearchLoopProofs.**  `SearchTypes`, `BestMeasured`, `TrialsRecorded` and `TaskSettled`
from `SearchInv`.  The stage of a trial decides its status, its files and its patch
(`PhaseInv`); a file task has one trial, and nothing of it runs behind a verified stop
(`StopInv`); what was tried is what was recorded and the current trial (`TriedInv`); a
second record and an open runner each belong to a trial that broke off (`RecordInv`);
the file of a measured configuration is as measured, unless the record says that the
rollback of its patch was not verified (`MeasuredInv`).  The best record is a `CHOOSE`;
that there is a least value in a finite set is proved by well-founded descent.

**ProfilerCollectionProofs, the collection.**  `Types`, `OneRecord` and `StoppedIsNotCollected` from
`CallInv`: types, that a call which was asked to stop gets past the judgement of its
command only towards another outcome (`AskedInv`), and that a step that looks at a tree
has one (`TreeInv`).  `NoSecretStays` adds `SecretInv`: a local tree with a secret belongs
to the call that is about to search it, or to one that raised.  `CollectedIsReported`
adds `BoundInv`: from the download on, no collected record names the directory the call
uses, at the import the call's hash is that of the report it imports, and only the
import ends as collected.

**AttributionReceiptsProofs.**  `CitedIsProven` (`EligibleIsProven`) and `UntouchedIsCited`
(`UntouchedIsUsable`) from `EvidenceInv`.  A receipt holds a check whose report and trace
showed the row when they were read, and files that did not change since are still those
(`ReceiptInv`); what the validation found so far (`ValidationInv`) and what a row under
judgement may claim (`UseInv`) depend on the same.  That a matching hash means matching
content is `VersionsAssumption`, the usual assumption about a digest.
`UntouchedIsUsable` speaks of a row whose receipt is known at each of the three calls.
In the run, with two rows, it was enough that the receipt is known at the last of them;
with three rows it can be dropped and issued again in between, and the row is refused
although nothing changed.  The code fails closed there; the theorem covers any number of
rows.  `NothingShippedPlans`: with the empty table of documented definitions that the code
ships, no mcProfiler counter is ever taken as evidence.

**SourceRoundsProofs.**  `PlansAuthorised` (`PlansAreAuthorised`) from `PlanningInv`: while
the planner is asked, the evidence it was given is the parent's.  `CompletedIsVerified`
(`CompletedVerifies`) and `ShownGainEarned` (`ShownGainIsEarned`) from `RoundsInv`, which
relates the two readers: the parent the engine carries is the one `ParentOf` finds in the
file (`ParentInv`), trials have distinct ids (`IdsInv`), every accepted trial follows the
one before it with a gate the server accepts again and gains over the baseline
(`ChainInv`), and the file announces nothing or the last of them (`AnnouncedInv`).  It
speaks of runs that are, or may still become, completed (`Hopeful`): a cancelled run's
file promises nothing.  Each gate compares with the parent only; `SlowerGains`,
`FasterGains` and `GainsAdd` show that two gains make one.  The extremes of the samples
are a `CHOOSE`, and that they exist is an induction over the length (`SetInduction`, by
well-founded descent).

**SampleUploadsProofs.**  `NothingStays` (`FailureLeavesNothing`) from `MadeInv`: what a
request (`RequestMade`) and a task (`TaskMade`) have made by the phase they are in; what a
handler removes depends on what was made before it.  `UploadsWhole` (`UploadsAreWhole`)
from `WholeInv`: a file that was read up to some byte has no key in what was read, and
the window is the end of it (`Searched`), so that a key which two reads cut is found
whatever the size of a read; the stage holds exactly the files written so far
(`Holds`).  `SampleIsUpload` (`SampleIsTheUpload`) from `SampleInv`: what a task has copied
(`Copying`) and what it listed is what the form held, since a manifest that still loads
lists the digests that were sent (`UploadIs`); a file that has passed its check is still
what was sent unless it is in `raced`.

**KernelRewritingProofs.**  `RewritingInvariance`, `UnaliasedMeaningKept` and
`AlwaysMeaningKept` (`MeaningKept`) from `RewritingInv`: the current function is the original
with another table, it is well formed, and its code takes every `Good` state to the state
the original's code takes it to, whatever the outcomes of its tests (`Same`).  A good state
is one in which the names in `Own`, those that are never bound a second time, stand for
themselves and nothing else does for their storage; every act keeps it good, and
`MeaningKept` is what is left at the initial state.  There are two halves.

* *A load moves up.*  `StatementEffects` says what a statement may read and write; an act of a
  statement that is not opaque changes no buffer outside its writes, reads none outside its
  reads, and does nothing others see but tests, loops included.  So the load and an act it
  may cross can change places in every good state; the load then crosses the acts of a
  statement, and the statements up to the insertion point, one at a time.  Lines that are
  `glued` move together; `IsIsolated` and the check at the insertion point make that one
  statement.
* *A copy loop becomes a copy.*  One turn of the loop stores one element; after the turns
  0 to n - 1 the destination holds the source's elements below n, by induction over n; what
  the loop variable was before comes back when the loop ends.

Both changes sit somewhere in a table whose other statements stay the same, and `TableSame`
carries the equality up from the changed statement through all that contain it, by
induction from the last entry of the table to the first.  Inductions are well-founded descents
over a set of numbers.  The theorem covers every function of the syntax, of any length and
depth and with any extents.  Its hypothesis `Unaliased` is the one the run
`rewriting_aliased_index` shows to be necessary; a second name of a tracked buffer itself
needs no hypothesis for loads, since `HasBufferAliasing` looks for it.  `Unaliased` leaves
the property its content: `MCKernelRewriting` has an ASSUME that there are unaliased kernels
with both kinds of rewrites.

**Assumptions on constants.**  Those of the modules: names are distinct, numbers are
numbers, records have their fields; besides these, a digest names one content, and the
user is none of the threads (`NobodyHoldsNothing`).

**Model-checked only.**

* Liveness, which is out of this prover's reach: `Terminates`, `CallReturns`,
  `RequestsEnd`, `ConnectionsClose`, `RunEnds`.  `ConnectionsClose` is checked without a
  lag: with one a timer that fires early leaves the session to the next acquire or
  release, and no document promises more.
* `Settles`, that rewriting one function comes to an end, is liveness too; and in the run
  `MeaningKept` also covers kernels with second names that the analysis refuses.

Types that are proved are not part of every run; where they are not, their definitions
hold in the same runs.

## 6. Not modelled

* Conversions of data without state between steps: parsing of vendor reports and of
  detection output, most of request validation, report formatting, the web page, the
  prompts, the samples.
* `runner/host_keys.py`: one JSON file, rewritten under a class lock in one call; it
  shares nothing with the other parts.  It is the first item of the plan.
* `runner/command_guard.py` and the import graph of `file_task.py`: pure predicates over
  the text of commands and sources.
* The local runner has no shared directory.
* Task records live in memory, and the server promises nothing across restarts
  (docs/ssh_session_hardware_smoke.md:41-42); nobody opens the result file of a task that
  is not in memory.  Restarts are modelled where something persists and is read again:
  receipts (`AttributionReceipts`) and uploads (`SampleUploads`).
* A submit that raises (app.py:522-530) leaves a record that stays `pending`; in the model
  there is no task.  Writes of the job worker's own exception handler
  (job_worker.py:226-232) do not raise in `TaskService`.
* `OptimizerPolicy.propose` (main.py:605) raises only for an unknown strategy or an empty
  list of values, since it catches what the model's answer may raise; `SearchLoop` has no
  such step.
* When the disk is full, the evidence files a failed collection appended to
  (collector.py:315) keep their lines, which `rounds.bound_evidence` reads without
  looking at the record; no document promises otherwise.
* A timeout of a parameter search closes the channel and goes on (ssh_runner.py:476); the
  remote command may still run, and only file tasks promise to clean up.
* The thread pool of the web server is not part of `src/`.

The table of components in `PROJECT.json` gives the reason for each part.

## 7. Plan

Done, in this order, because everything else rests on it: the engine with the
execution of one version, the command below it, the connections and the service
around it, the search loop, the profiler collection; then the decisions they leave
open: the rewriting, the attribution of counters, the rounds with the gate and the
planner, and the uploads a task starts from.

Next:

1. `HostKeys`: trust on first use by two threads, a file that cannot be written.
2. The rules of `bottleneck_rules.py` and `optimizer_policy.py`, and the validation in
   `run_request.py`, as operators that are checked over bounded inputs.
3. An abstract life of an upload that `SampleUploads` implements.
