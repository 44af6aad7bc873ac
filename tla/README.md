# ProjectPack Office Agent: TLA+ models, checks and proofs

The service is a FastAPI application (`src/app`, 92 Python files, about 18,000
lines) that reads the files of an office project, extracts and tracks tasks,
runs a five-stage pipeline that drafts a project report, and sends results to
connectors. It runs as **one** uvicorn process. Three kinds of code execute
concurrently in it, and the models follow this division:

* `async def` handlers without an `await` are one step of the event loop
  (`execute` in `api/runs.py`, the import handler in `api/tasks.py` except that
  it runs beside threads);
* `def` handlers run in threads of a pool, so two of them interleave at every
  file access and every SQLite transaction;
* background work: the report runner (`asyncio.to_thread`), model calls queued
  by it, and three loops of `main.py` (cleanup 45-52, backup 55-67, log
  rotation 69-80). The lifespan (90-103) recovers nothing.

State is in JSON files (runs, indexes), in one SQLite file (tasks, risks,
document versions, reports, members, audit) and in memory (queue, registry of
running tasks, caches, limiters).

## 1. Inventory

| Component (code) | State | Operations | Hard part | What makes it correct |
|---|---|---|---|---|
| Model call queue (`services/task_queue.py`, used by `llm/client.py`, `rag/embedder.py`) | two semaphores per kind and per kind and project, gauges, totals | `_enqueue`, `_acquire`, `status` | polling threads; cancel event, deadline, error and task cancellation at each await | permits conserved, gauges exact, quotas kept, every call ends |
| Run lifecycle (`services/runs.py`, `agent/runner.py`, `api/runs.py`, `services/project_workflow.py`) | `state.json` and its `.tmp` per run, `_running_tasks`, the runner's `RunState` | create, execute, progress, cancel, retry, step limit, restart | several writers share one temporary file; read-merge-write without a lock; the registry dies with the process | each step runs at most once, records tell the truth, cancels are obeyed, runs end |
| Task lifecycle and import (`services/task_lifecycle.py`, `schemas/task_sql.py`, `api/tasks.py`) | tables `task`, `task_change`, `confirmation`, `operation_audit`, `task_import_fingerprint` | create, submit, update, transition, confirm, import | validation and write are separate transactions; audit and fingerprint are further ones | log and table agree, transitions legal, no duplicates, terminal is terminal |
| Document versions and impact (`services/doc_version.py`, `change_impact.py`) | version rows, change log, impact rows | detect, record, mark deleted, analyse, persist | the row and its log entry are two commits; the file is edited between hash and row | one current version per file, but for overtaken trackers; the log is the difference; what depends on a change is told once |
| Risk monitoring (`services/risk_engine.py`, `risk_scanner.py`, `api/risks.py`) | risks with hash and lifecycle, scan runs | scan, acknowledge, resolve, dismiss, assign | a scan decides on hashes and tasks it read before | a scan registers nothing that was active when it looked; nothing found is lost |
| Members, comments, notifications, reports (`services/membership.py`, `comments.py`, `notifications.py`, `report_center.py`, `security/permissions.py` and their routes) | roles, comments, mentions, inboxes, drafts, approvals | add, change, remove; comment, reply, edit, delete, resolve; draft, submit, decide, export; read | status and role are looked at in some routes only; deleted parents | the status is that of the last decision, replies are shown, nobody is told of himself |
| Automation (`services/automation_tasks.py`) | tasks and audit log | create, pause, resume, delete, dry run | any order, repeated | the log retells the status; cancelled for good |
| Connectors (`integrations/email.py`, `scm.py`, `ci.py`, `base.py`) | confirmations, sliding window, audit rows | preview, execute | the confirmation is used before the limiter is asked and before the mail leaves; death in between | once per confirmation, as previewed |
| Webhooks (`integrations/webhook.py`) | registrations, deliveries, dead letters | register, dispatch with retries | waits between attempts; dead letter and row are two transactions | one outcome for each hook of an event |
| Parsing and import (`rag/parsers.py`, `scanner.py`, `manifest.py`) | manifest of an import | scan, hash, parse | files change under the import; line numbers over swallowed blank lines | counts match the manifest; citations point where the text is |
| Chunks, index, answers (`rag/chunker.py`, `indexer.py`, `retriever.py`, `qa_service.py`, `embedder.py`) | chunks, vectors, corpus, fingerprints; five files; counters | build, save, load, search, answer | fingerprints are replaced before an embedding that may fail; five files per save, several savers | vectors are those of the chunks and chunks those of the documents; weak evidence is refused |
| Task evaluation (`services/phase_c.py`, `tools/task_checker.py`, `task_reader.py`, `reports/generator.py`) | the evaluations of a run | load, judge, render | order of the rules at their boundaries; ids by row position | each task keeps its own evidence; overdue work is escalated |
| Cache (`services/cache.py`) | ordered map with expiry | get, set, invalidate, switch | the clock is read outside the lock; eviction on overwrite | hits are fresh, recent entries stay |
| Backups (`services/backup.py`), log rotation (`log_rotation.py`), projects, uploads and cleanup (`projects.py`, `files.py`, `cleanup.py`), loops of `main.py` | directories and files | back up, restore, clean; rotate; create, upload, sweep | copies beside writers, removals that stop halfway, crashes, names by the second, check before write | success means that what nobody was writing is there, no line is lost, founded once, nothing overwritten |
| Health monitor (`services/monitor.py`) | counters, moving averages, cached metadata | check, record | awaits between readings | the status fits the issues |
| Retrieval benchmark (`rag/quality_bench.py`, `services/quality_metrics.py`) | cases, metric rows | seed, run, persist | every question is asked twice | rates are fractions; rows retell the result |
| Authentication, error codes, latency benchmark, stress tests, overview, task board, UI, CLI, scripts | static or none | formatting, measuring, presenting | none here | not modelled (section 7) |

How they interact: the runner of a run calls the index, the evaluation and the
report generator, whose model calls go through the queue with a cancel event
each; imports and confirmations write the tables the evaluation and the risk
scan read; document changes feed the impact analysis; comments and reports use
the roles and the inboxes of the members; the background loops remove and copy
the files of all.

`PROJECT.json` has the full list of components and, under `hazards`, what in this
code is hard to test, each at its line.

## 2. Modules

| Module | Models |
|---|---|
| `QuotaGate` | what the queue promises: calls start within two quotas |
| `TaskQueue`, `MCTaskQueue` | `TaskQueue._enqueue` and `_acquire` at every await and lock, and its instances |
| `TaskQueueProofs` | theorems about `TaskQueue` |
| `RunRecord` | what a client that polls a run may see |
| `RunLifecycle`, `MCRunLifecycle` | files, writers and registry of runs, and its instances |
| `RunLifecycleProofs` | theorems about `RunLifecycle`, and that it implements `RunRecord` |
| `TaskLifecycle`, `MCTaskLifecycle` | the SQLite transactions on tasks and the import, and its instances |
| `TaskLifecycleProofs` | theorems about `TaskLifecycle` |
| `DocVersions` | trackers that hash, replace and log versions; death between the commits |
| `ChangeImpact` | the queries for what a change reaches, one for each file, and the rows stored of it |
| `RiskRules` | the rules of `risk_engine.py` as operators |
| `RiskRegister` | scans as their transactions, the lifecycle handlers, tasks moving meanwhile |
| `Ranks` | list comprehensions with a condition: the elements of a sequence at some places |
| `Membership` | roles and what they allow, inboxes |
| `Comments`, `ReportCenter` | comments with replies and mentions; drafts and decisions. Both extend `Membership` and share its roles and inboxes |
| `Automation` | states and audit log of automation tasks |
| `Connectors`, `MCConnectors` | previews, confirmations, the limiter's window, sending, death inside a call; an instance of its own |
| `Webhooks` | registrations and the dispatcher's attempts, dead letters and rows |
| `Parsing` | what parsers make of a text: sections, paragraphs, heading paths, column names |
| `SourceImport` | one import beside people who edit and remove files |
| `Chunker` | the cutting of a section into chunks, as recursive functions |
| `IndexStore` | several index objects of one project, their builds, saves, loads, failures and deaths |
| `Retrieval` | rank fusion, evidence, answers and refusals, the counters of a batch |
| `TaskReports` | loading, judging and reporting of tasks |
| `ResultCache` | the cache with its clock, eviction and invalidation |
| `Backups` | backups, restores and removals, each file copied in two halves beside its writers, with failed copies, partial removals and deaths |
| `LogRotation` | rename, compress, unlink and touch as separate steps beside writers |
| `ProjectFiles` | creation of projects by several creators, uploads, the sweep and what it may leave |
| `HealthMonitor` | one health check at each await, calls recorded meanwhile |
| `QualityBench` | a benchmark run: answers, scores, result, stored rows |
| `ProjectServices`, `MCProjectServices` | the services composed, what they promise in groups, and the instance |
| `StorageProofs` | theorems about `Backups`, `LogRotation`, `ProjectFiles` and `ResultCache`; the general lemmas on ranks, orders, finite numbers and recursive functions that the other modules cite |
| `ActionsProofs` | theorems about `Automation`, `Connectors` and `Webhooks` |
| `RecordsProofs` | theorems about `Membership`, `Comments` and `ReportCenter` together, `TaskReports`, `ChangeImpact`, `Parsing` and `Chunker` |
| `EvidenceProofs` | theorems about `HealthMonitor`, `DocVersions`, `RiskRegister`, `IndexStore`, `SourceImport`, `Retrieval` and `QualityBench` |
| `ServicesProofs` | that the services composed keep what each of them keeps |

### How `ProjectServices` composes

The services keep their state in tables, files and memory of their own: no step
of one reads or writes a variable of another, except that comments and reports
use the roles and the inboxes of `Membership`. Interleaving two independent
services adds no behaviour to either, so a behaviour is about one of them, named
by `service`, and the others rest (`OthersRest`). What *is* shared interleaves:
a comment behaviour and a report behaviour start with any team
(`WorkInit`). Within a service every actor runs: trackers, scanners and handlers,
builders and savers, creators and sweeps, writers and rotations. Each service's
initial states are all those of its own `Init`; the others rest at one of theirs.
Each module also states a specification of its own (`DocSpec`, `RiskSpec`, ...).

The properties are conjunctions of the modules' named parts (section 3). Beside
a definition stands, where there is one, a mutant: the same definition with a
plausible mistake. The thirteen listed in `PROJECT.json` break the thirteen
properties; the others break other conjuncts in the same way.

### TaskQueue

A call is one coroutine in `_enqueue`; `pc` names its next step. `atProject` and
`atGlobal` are the head of the loop in `_acquire` (cancel event first, then
deadline), `inProject` and `inGlobal` the time its worker thread waits 0.1 s in
`semaphore.acquire`. `Activate`, `ClearGauge`, `ReleaseProject` and
`ReleaseGlobal` are the separate steps of the entry to and the exit from the
protected part, so other calls run between them. `GiveUp` is the end of a failed
wait, with the release of the project permit when the second wait fails;
`CountOut` is its handler, which takes the lock afterwards. `SetEvent` is the caller's cancel event; `KillWait` and `KillCall`
are the cancellation of the asyncio task. After `KillWait` the thread handed to
`to_thread` goes on (`orphan`), and may take a permit for nobody (`lost`).

Time is the number of polls before the deadline. The clock can only make a wait
shorter than its polls, and `TimeOut` is therefore enabled at any head of the
loop.

The clamp `max(0, ...)` of the gauge is modelled as a clamp; `GaugesExact` shows
that it never acts. `total_cancelled` goes up by two when a call is cancelled
between its grant and its start (lines 196 and 207): `CancelBeforeCall` does the
same, and no property states that the statistics are exact.

### RunLifecycle

A run is two files. `_write_state` opens and truncates the `.tmp` file (`Open`),
writes it (`Write`) and renames it (`Replace`), and any writer may run between
these. A descriptor follows the inode: after another writer's rename the file a
writer has open *is* the record (`fd = "disk"`), and after a second rename it
is no file any more (`"lost"`). Overwriting a text that another writer has
completed may leave a mixture (`Garbled`). `ReplaceFails` is the
`FileNotFoundError` of the slower of two renames; `WriteFails` is a full disk.
`Afterwards` is what each caller does next: `_persist` swallows its errors, so
the runner goes on; `cancel_run` returns or fails.

The runner (`BeginJob`, `Report`, `StepLimit`, `ObserveCancel`, `StartStep`,
`RunTool`, `Complete`) is the loop of `ControlledRunner.run`: it checks the
limit, then the cancel flag in memory, then the record, and a record it cannot
read counts as a request. `Report` reads the record and merges its flag;
`Open`, `Write` and `Replace` come afterwards. `Execute` is atomic because the
handler is a coroutine without an await. `CancelRead` decides on the record it
has read; its save is a later step. `Crash` forgets all memory and keeps the
files, also half-written temporary ones.

`asked`, `answered` and `ran` are history: accepted and answered cancel
requests, and how often each step of each run was executed.

`RunRecord` is the abstract view. Its state of a run is `disputed` from the first
accepted cancel request on, since a stale save may then move the record
backwards; until then queued, the stages in order, and an end.

### TaskLifecycle

One variable per table column that decides something. Each transaction is one
action: `TransitionRead` validates and `TransitionCommit` writes whatever the
status is by then, with the old status it read as `from`; `ConfirmRead` looks
at the confirmation only and `ConfirmCommit` closes it; `Audit` is the
transaction after the commit. Between two transactions of one handler every
other may run. `RequestFails` is a transaction that fails (the database is
locked) and, equally, a death of the process in between. The import is the
sequence `RowBegin`, `RowFind`, `RowOverwrite` or `RowCreate`, `RowAudit`,
`RowFingerprint` for each row; the two flags choose the branches, and an error
of a row skips to the next. Tables are sequences of rows; a row stands for a
fingerprint, and `row[t]` remembers which one the fields of a task came from.

### The services

`DocVersions`. A tracker hashes (`Hash`), reads the current row (`SelectRow`),
replaces it (`ReplaceVersion`, one commit: retire and insert) and logs
(`LogChange`, a second commit); files are edited at any time and a tracker may
die between any two of these. `rows` is the whole table, retired versions
included, so that the log can be compared with it. Several trackers run;
`rowWrites` is history and counts how often a tracker wrote rows that another
had written, or found deleted, since it read the current one.

`ChangeImpact`. Files are modified, and tasks cite them as source. `QueryFile` is one
SELECT for one changed file, and tasks are given other sources between two of them;
of the entries of a task the first stays. `QueryFails` is the `OperationalError` that
`_find_tasks_by_source_file` swallows: the analysis goes on without the file.
`PersistImpact` stores one row, and `ImpactFails` gives the rest up. `steady` and `failed`
are history: what each task has cited since before the first query, and the files that
could not be asked for. The queries for evidence and for reports find nothing, since
nothing creates their tables.

`RiskRegister`. `LoadTasks`, `Evaluate` (which reads the known hashes),
`PersistRisks` and `PersistScanRun` are separate transactions; tasks move, days
pass, and risks are acknowledged, resolved, dismissed and assigned in between.
`risks` is the table; a hash is task, rule type and task status. Several scanners
run. `knew` and `origin` are history: how many risks there were when a scan read the
hashes, and when it inserted.

`Connectors`. `confirmations` is the table shared by the connectors; `bucket` is the
window of the limiter, empty again at each call when the API builds the
connector for the request (`perRequest`, which both routes do). A mail reaches its recipient before
its audit row is written, and the process may die in between (`DieSending`).

`Webhooks`. `dispatch.todo` is the list the dispatcher read once; registrations
arrive while it waits. Attempts, the dead letter and its row are steps.

`SourceImport`. The directory is listed once; each entry is rejected, skipped,
or hashed and then parsed, while `EditEntry` and `RemoveEntry` go on.

`IndexStore`. `LoadIndex` reads the five files in one step, although the code opens them
one after the other: no property speaks of what is loaded beside a saver, since they are
about saves that ran alone (`together`). Vectors and corpus entries are named by the text they were made
from. `BeginBuild` replaces chunks and fingerprints, `Embedded` or `EmbedFails`
follows; `WriteFile` writes one of the five files; `good`, `of`, `intact` and
`together` are history. `together` says that chunks and fingerprints come from one
index: a document keeps its chunk by its fingerprint (`KeepsChunk`), which only
then says anything of the chunk.

`Chunker`. A piece has a heading and a text; `SizeOf` is the length of a text and `Occurs`
tells how near to the end of a text another is found, as the code asks whether a paragraph
is *somewhere in* the last characters of a chunk (`OpensAgain`, `p in remaining`).
`MergeSection` follows the two loops of the code with recursive functions; the sizes of the instance lie on both
sides of 500 and 1000, with and without the separator.

`Retrieval`. A score is a fraction, kept as the pair of its numerator and its
denominator, so that the order is that of the code's sums and ties are ties. A ranking
has at most three times `TopK` hits, as the code asks for. A stale hit is one that the
searches still return and that has no chunk any more.

`TaskReports`. A text is the set of signals its readers look for. The rules are in
the order of `_determine_rule_status`.

`Backups`. A file has two halves, each with the write that made it. Threads write the
database in place and other files after emptying them (`OpenWrite`, `CloseWrite`,
`WriteFails`); `CopyHead` and `CopyTail` are what `copy2` reads before and after, so that a
copy may be torn, and the parts follow one another with the files that are there when a
part begins (`OpenPart`). `CopyFails` leaves what was copied and ends the part, except that
`copytree` goes on. `CleanupBackup` removes a directory, or any part of it, with or without
its manifest (`Remains`). `owes` is history: the files nobody has written since the backup
began, as they were then.

`LogRotation`, `ProjectFiles`. One action per rename or directory; names carry the
second in which they were made, so that two names can be equal; failures and deaths lie
between the steps. `SweepProject` is an `rmtree` with errors ignored and leaves any part of
the project's directories and files (`Leaves`); `gutted` is history: the projects of which
something stayed.

`HealthMonitor`. `CheckGpus`, `CheckDisk`, `CheckErrors`, `FetchMetadata` and
`CheckEndpoint` are the stretches between awaits. `FetchMetadata` remembers the last
entry of `/models`, also one without an id. Averages are in thousandths.

## 3. Runs

| Run | Instance | States | Shows |
|---|---|---|---|
| `TaskQueue_contended` | 3 calls, 1 kind, 2 projects, capacities 1, 1 poll, 2 calls whose task may be cancelled | 173,584 | permits, gauges, quotas, refinement of `QuotaGate`, every call ends |
| `TaskQueue_leak` | 2 calls, 1 project | counterexample | a cancelled task loses a permit |
| `RunLifecycle_cancel` | 1 run, 2 jobs, 2 cancel threads, 8 steps | 1,378,750 | records are truthful, no step runs twice, refinement of `RunRecord` |
| `RunLifecycle_retry` | 2 runs, 1 job, 1 cancel thread, limit of 1 step, 1 retry, 1 restart | 694,226 | retried runs start clean, polling never goes back, restarts |
| `RunLifecycle_faults` | 1 run, 1 job, 1 cancel thread, 3 failed writes | 121,549 | completed means executed, whatever saves are lost; tasks end and are forgotten |
| `RunLifecycle_ack` | 1 run, 1 cancel thread | counterexample | an answered cancel request is lost |
| `RunLifecycle_restart` | 1 run, 1 restart | counterexample | a run under way at a restart never ends |
| `TaskLifecycle_queue` | 2 tasks, 2 threads, 2 imports of one row, skipping or overwriting, 2 changes, 1 failure | 2,988,521 | log, table, queue and audit agree; imports that only skip add no duplicate |
| `TaskLifecycle_final` | 2 tasks, 1 thread | counterexample | a cancelled candidate comes back |
| `TaskLifecycle_overwrite` | 3 tasks, 2 rows, 2 imports, overwriting or not | counterexample | an overwritten row is imported again |
| `Connectors_rate` | 2 mails to one domain, where 1 is allowed | counterexample | a connector for each request limits nothing |
| `ProjectServices` | the 21 services, one in each behaviour; bounds below | 722,673 | thirteen properties, below |

What the properties of `ProjectServices` say:

| Property | Parts |
|---|---|
| `DocumentHistory` | `OneCurrentVersion` (and one more for each overtaken write), `ReplacementsLogged` (at most one entry missing for each tracker that died), `LogMatchesRows`, `ImpactReachesAll`, `TaskStoredOnce` |
| `RisksAccounted` | `NoActiveTwin`, `FindingsRegistered` |
| `IndexFaithful` | `VectorsMatchChunks`, `ChunksCurrent`, `SaveHeals` |
| `CitationsExact` | `SectionsNest`, `CitedLinesExact`, `HeadingPathsDescend`, `ColumnNamesDecode`, `ChunkSizes`, `LostOnlyWhenShort`, `ChunksInOrder`, `CountsMatchManifest`, `DigestNotAhead` |
| `AnswersGrounded` | `BothBeatOne`, `NoWeakEvidence`, `CountersRetellResults`, `RatesAreFractions`, `ResultAccountsForAll`, `StoredRetellsResult` |
| `ReportsTrue` | `EvaluationsKeepTheirRow`, `OverdueEscalated`, `CompletedIsProven`, `OpenWorkPlanned` |
| `CollaborationCoherent` | `NobodyToldOfOwn`, `DirectAnswersListed`, `StatusFollowsDecisions` |
| `ActionsConfirmed` | `OncePerConfirmation`, `ExecutedAsPreviewed`, `OneOutcomePerHook`, `NoneSkipped`, `LogRetellsStatus` |
| `StorageIntact` | `SuccessIsComplete`, `LinesAreKept` |
| `FilesAndCacheKept` | `FoundedOnce`, `StoredAsNamed`, `NoOutputBehind`, `UsedRecentlyStays` |
| `HealthTold` | `StatusFitsIssues`, `AverageWithinSamples` |
| `NothingTakenBack` (action property) | `AdminlessFrozen`, `CancelledForGood`, `HitsAreFresh`, `FinishedBackupsStay`, `RecentLinesStay`, `UploadsStay`, `ModelStaysDescribed` |
| `ServicesTypeOK` | the type invariants, with the limits of the cache and of the retries |

Bounds, and why they are enough:

* `TaskQueue`: two calls of one project and one of another contend at both
  semaphores; capacity 1 makes each semaphore a bottleneck, and one poll makes
  both a grant and a timeout possible. The theorems cover all other values.
* `RunLifecycle`: two cancel threads and one job are three writers of one file,
  which is what it takes to reach each value of `fd`. Two jobs let a second
  `execute` be accepted if it could be. Three failed writes (`MaxFaults`) are as
  many as a run that fails in its first step makes, so that all its saves may be
  lost and the run be executed again; that a stage runs once is therefore claimed
  for executions without failed writes only (section 6).
  `MaxSteps` 8 is above the five stages; 1 is below, and keeps the run with
  retries and a restart small: the later stages meet cancels in
  `RunLifecycle_cancel`.
* `TaskLifecycle`: two threads give each decision a stale competitor.
  `MaxChanges` stops new requests to a task with that many events; requests
  accepted before go on. The second import of the row meets what the first one did, or
  failed to do, and the handlers create and rename tasks between the two. Tasks and
  threads are interchangeable, and only safety is checked (`Exchanges`).
* `Connectors_rate`: two mails and one that is allowed are the least that can exceed it.
* `ProjectServices`: versions: one file, two contents, two trackers, two edits and one death,
  so that a content comes back, a log entry is missed, and one tracker overtakes the
  other. Impact: two tasks, two files and three changes of either, so that a task moves
  from one file to the other between the queries. Risks: two tasks that
  depend on each other, two scanners with a scan each, two lifecycle changes and one task move,
  so that scans overlap and a risk is acknowledged between them and within one. Work: two users, who can be author, parent's
  author and mentioned at once; two comments; one draft with two decisions.
  Connectors: two payloads to one domain, a window of two with room for one, four
  times. Webhooks: two registrations, two events, two dispatches. Index: two documents and two
  builders, four calls and one edit: build, save, build, load, crossed by the
  other's. Backups: a database and an index file that comes later, one more write, two days and two jobs,
  so that a backup is torn, restored, followed by one of the same second, and removed in part. Logs: two lines, two seconds
  and a limit of one line. Files: two creators of one project that may be swept,
  wholly or in part, two uploads. Chunks: up to four pieces of four texts, of which the shortest is found at the
  end of another. Questions: all
  rankings over two chunks and one stale hit. Parsing: all texts of up to five lines, 760
  columns (past ZZ and ZZZ's first). Evaluation: two rows of a table whose
  rows cover each branch of the rules. Health: one GPU, three loads, two samples, one change
  during a check. Benchmark: two cases of three kinds, one run.

`CHECK_DEADLOCK FALSE` in every configuration: when all calls have left, all runs have ended or
the bounds are used up, nothing is left to do.

## 4. Fairness

* `TaskQueue!Fairness`: weak fairness of `Step(c)`, what the coroutine and its
  thread do by themselves. Event loops and threads are scheduled, the wait in
  `acquire` has a timeout of 0.1 s, and the model client has a request timeout,
  so `CallReturns` or `CallFails` happens. Cancel events and cancelled tasks
  are not fair, nor are the permits anybody gets: `EveryCallLeaves` holds because
  of the deadlines, also for a call that never gets one.
* `RunLifecycle!Fairness`: weak fairness of each job's and each cancel
  handler's steps. Requests, failures and restarts are not fair: nobody has to
  retry.

## 5. Proofs

`TaskQueueProofs` proves, for every set of calls, kinds and projects and all
capacities (`QueueAssumption`): `TypeCorrect`, `PermitsAlwaysConserved`,
`GaugesAlwaysExact`, `GaugeBounded`, and `QueueImplementsGate`. All follow from
`QueueInvariant`. The inductive invariant `QueueInv` is the two conservation laws
and the exact gauges, with two facts the laws need: a thread is awaited only
before the deadline (`DeadlineAhead`, without which `polls` leaves its type) and
an orphan belongs to a dead call that has lost no permit yet
(`OrphansOfTheDead`, without which an orphan's grant could be counted twice). Each
step moves at most one call between the sets of users, so the lemmas say how
the cardinality of such a set changes. The quota of a start in `QuotaGate`
follows since running calls are among those that hold both permits, and the
starting call is one of them that does not run yet.

`TaskLifecycleProofs` proves for every set of tasks, threads, titles, rows and
tables and all bounds (`LifecycleAssumption`, `CreateAssumption`):
`LogAlwaysTellsStatus`, `EventsAlwaysLookLegal` and `PendingAlwaysInQueue`, all from
`LifecycleInvariant`. The three are not inductive alone: a commit writes what was
decided in an earlier state. `RequestsSound` says that a decision remains an
allowed change *from the status that will be logged*, and `ImportSound` that the
import's row and task still exist. This is why the log always looks legal even
when the status changed in between: the event shows the status the handler
read, not the one it replaced.

It also proves `LifecycleTypeCorrect`, `AuditAlwaysFollows` and `ImportsAddNoDuplicates`.
The audit of a task is owed by whoever is between a commit and its audit:
`AuditDue` counts them, each step moves at most one handler into or out of the
set `Writing(t)`, and what is missing beyond them is a counted failure.
`ImportsAddOnce` excludes duplicates as long as every import so far skipped what it
knew and no transaction failed; the overwriting branch really
adds them, which `TaskLifecycle_overwrite` shows. `ImportOnce` says that a row with a
task has its fingerprint, or is the row the import is at.

`RunLifecycleProofs` proves for every set of runs, jobs and threads and all bounds
(`RunAssumption`) `RunTypeCorrect`, `CompletionIsReal`, `CancelIsRequested`,
`ReportsAreDrafted` and `PollingIsMonotone`, with any failed writes and restarts.
The invariant `RunInv` has these parts:

* `WritersInv`: who may have a file open, and that a run nobody asked to cancel has
  at most one writer, its job. This is what makes the shared temporary file
  harmless until a cancel handler comes.
* `CopiesInv`: *every* copy of a record, on disk, in a temporary file, in a writer's
  text or in a job's memory, is `Truthful` about what was executed and asked. The
  properties of the record alone are not inductive, since a torn file may be
  replaced by any of the copies.
* `UnseenInv`: a run without a record has left no trace.
* `JobsInv`: what a job remembers of its stages is what it executed.
* `QuietInv`: as long as nobody asks, record, temporary file and memory of a run
  are in step, so that a poll never sees it go back.

While no write has failed (`faults = 0`) two more parts hold, `OnceInv` (a run whose
stages have begun has no copy from which it could be started) and `TrackInv` (the
record keeps up with its job); from them follow `ExecutionIsOnce`, `ResultIsFinal`
and, with the refinement mapping `shownMap`, `RunImplementsRecord`: initial states
map to initial states, and each step to a step of `RunRecord` or none. The
hypothesis is needed: a run all of whose saves fail is executed again (section 6).

`StorageProofs` (`BackupAssumption`, `LogAssumption`, `ProjectFilesAssumption`,
`CacheAssumption`):

* `SuccessMeansComplete`, `FinishedAreKept`. A file owes a whole copy to a
  backup as long as nothing writes it while the backup runs. `BackupInv` says that the
  directory of a backup under way has no manifest, that a file that still owes its copy is
  not being written and is as it was, and that its copy is what the passes made so
  far would make of it, half a file at most (`CopiedSoFar`). A backup that the
  cleanup has begun to remove owes nothing any more, which only one past its age can come to.
* `RotationKeepsLines`, `RetentionIsKept`. `LogInv` says that between the steps of a
  rotation the lines are in the renamed file, and from the compression on in the
  compressed one, before the former is unlinked.
* `ProjectsAreFoundedOnce`, `UploadsAreKept`. `ProjectsInv` says that a creator past the
  first `mkdir` is the one that made it (`CreationsSound`), that what a sweep could not remove
  is a directory in which no request is under way (`GuttedSound`), and where the sweep
  is (`SweepSound`).
* `RecentUseIsKept`, `HitsServeTheLast`. Each entry was moved by a use of its own, so
  those no older than an entry inject into the uses since it was moved
  (`FewNoOlder`); an eviction leaves those with fewer than the maximum of
  them (`Roomy`), of which there are fewer than the maximum (`RoomForOne`).

`ActionsProofs`: `LogsRetell` and `NoneComesBack` of the automation;
`ConfirmationsAreSpentOnce` of the connectors, where `ConnectorInv` relates
confirmations, executions and deliveries; `OutcomesAreSingle` and
`HooksAreServedInOrder` of the webhooks, where `HookInv` says that the hooks still to
do are the tail of those read, and that the rows are those of the others.

`RecordsProofs`: members, comments and reports share roles and inboxes, and have one
invariant, `WorkInv`. `AdminlessStayFrozen` and `CommentsAreCoherent` follow from it.
Beside them:

* `EvaluationsAreTrue`, of the task reports (`EvaluationAssumption`). What is loaded has
  distinct identifiers, from whichever of the two files or the store it came, and
  `JudgedTrue` is what the rules say of one task. `EvaluationInv` and `RunFits` say that the
  evaluations of a report are those of the tasks it loaded, one for each, so that
  looking a task up by its identifier finds the row it was judged by.
* `ImpactIsComplete` (`ImpactAssumption`). While the queries for the changed
  files go on nothing is stored, and `ImpactInv` says that a task that cited one of the
  files throughout (`steady`) is among those found as soon as a query for one of them has
  succeeded (`Reached`); afterwards each task found is either still to be stored or has one
  row of this analysis, and not both. Nothing is claimed of a task that changes its source
  between two queries, nor of a file whose query failed.
* `ParsedAsWritten`, of the parser, for any text and number of lines, and
  `DocumentsAreCut`, of the chunker, for any section and any lengths. Both are
  recursive functions. `RecursionExists` (in `StorageProofs`) shows that a recursion over
  `0..n` has a solution: were there a least bound up to which none exists, the solution
  below it could be extended. So the function meets its equation, and a property that each
  step hands on holds of all its values (`NumbersReached`, `SubsetsAgree`, again by
  a least counterexample). What is handed on: of the paragraphs, that the blocks before one
  cover the lines before it (`BlocksCover`), which puts each paragraph at its own
  line where single blank lines divide the text; of the headings, that the path goes down to the
  nearest heading above (`PathFits`); of the letters of a column, that the number left and the
  letters written make up the number (`ValueOf`); of a chunk, that it is an unbroken run
  of pieces whose lengths add up to it (`CutFrom`, `CutsJoin`), and of two neighbours that they
  share a piece only where it has the text of the piece the first began with (`ComesAfter`).

`EvidenceProofs`: `HealthIsConsistent` and `DescriptionIsKept`. The moving average
stays within the samples since a blend lies between its two parts (`BlendBetween`),
rounded down as it is.
Of the document versions (`DocAssumption`), with any number of trackers that
may die, `ReplacementsAreLogged`: `DocsInv` counts the rows replaced as entries, dead
trackers and entries a live tracker still owes, one for each. `HistoryIsTold`, again for any
number of trackers: of a document one row is current and one more for each write that
overtook another's reading, and each entry of the log names two of the rows.
`HistoryInv` adds to `DocsInv` that a tracker that read a current row and was
not overtaken still finds it (`ReadInTime`), that a row that is current besides the last is
counted (`CurrentFew`), and that an entry, logged or in the hands of a tracker, names rows of
a version and of the next (`EntriesSucceed`, `EntryInHand`). `DescriptionIsKept`: a model that
was described stays so until it answers again, also when an answer has an entry without a
name.
Of the risk register (`RiskAssumption`: a finite board, its tasks typed),
`FindingsAreRegistered`, with any number of scanners and whatever users handle
meanwhile: `RiskInv` says that a scan holds one finding of each hash that was not
active when it read (`FindingsKept`, a lemma on the rules and their deduplication),
that what it does not hold is in the register, and that no row leaves the
register. `NoTwinsRegistered`, for any number of scanners: two active risks of one hash
exist only when the scan of the later had read before the earlier was there, or a
user reopened one. `RegisterInv` carries where each row came from (`OriginTyped`) and that what a scan
found is new but for what it could not see (`FoundIsNew`).
Of the index (`IndexAssumption`), with any number of builders, saves that cross, deaths and
failed embeddings, `IndexIsFaithful`: `IndexInv` says that each object agrees within itself
(`MemoryFits`), that the files written so far by a save that is alone agree with its object
(`SaveFits`), and that the files of a complete save agree with each other (`DiskFits`). The
first attempt at this proof showed that chunks need not be those of the documents when the
index was loaded from an interrupted save (section 6); the run's bounds are too small to
reach that, and `ChunksCurrent` now says which indexes it is about.
Of the imports (`ImportAssumption`), with any tree and any edits and removals
meanwhile, `ImportsAreCounted`: `ImportInv` says that no name waits twice, is recorded twice, or is
recorded while it waits, that the counters are the numbers of the rows, and that the parsed
documents are those of the successful rows, none older than its digest.
Of the questions (`RetrievalAssumption`), `AnswersRestOnEvidence`: `QaInv` says that
evidence consists of chunks that exist and comes with a lexical hit or close vectors, and
that each counter is the number of the results it counts. `BothBeatOneAlways` compares the scores as fractions: what both searches
found scores at least `2/(60 + 3·TopK)`, what one found at most `1/61`, and the first is
greater as long as `TopK` is at most 20 (`NarrowSearch`). The code asks for 5
(`qa_service.py:153`); with more than 20 the claim is false, so the hypothesis stays.
Of the retrieval benchmark (`BenchAssumption`), `BenchmarkIsTold`: `BenchInv` says what
each case's score is and that the result counts the scores; `BenchSums` that the counts of the categories
add up to those of the cases. Sums over sets of categories are folds, which unfold
one element at a time (`SumUnfolds`, `CountsAddUp`).

`ServicesProofs` composes: seen through the variables of one service, a behaviour
of `ServicesSpec` is one of that service's specification (`BackupsAmongServices` and
its like, by the `OthersRest` of every step), so its theorems hold of the whole.
`StorageStaysIntact`, `FilesAndCacheAreKept`, `ActionsAreConfirmed`,
`CollaborationIsCoherent`, `HealthIsTold`, `IndexStaysFaithful`, `ReportsStayTrue`,
`CitationsStayExact`, `ServicesTypeCorrect`, `NothingIsTakenBack`, `RisksAreAccounted`,
`DocumentsAreVersioned` and, for questions that ask for at most twenty chunks,
`AnswersStayGrounded` state the thirteen properties the run `ProjectServices` checks.

For the proofs some definitions take a form the provers can reason about: the
bucket of the limiter is a set of times with the row that took them, the cache a
function whose entries carry the use that moved them last (the order of the
ordered dictionary), and the registrations of a webhook event come in any order,
as their times are in seconds. The chunks of a build are given by the rank of each
document (`Nth`), and a list comprehension with a condition by the places it keeps
(`ElementsAt`), instead of a loop: `SelectSeq` is defined by a recursion the provers cannot
unfold. A score is a pair of numbers. Where the arms of a CASE overlapped
(the status of a disk, the bucket of a document, the rules of a task), TLC took the
first, and a proof could not: their guards now exclude each other, in
the order of the code.

Only model-checked: liveness (`EveryCallLeaves`, `JobsDrain`), which with ENABLED is beyond
the prover. One theorem has a hypothesis on a constant, which the code
meets: at most twenty chunks are asked for. Two
claims of runs are about executions without failed writes or transactions, in the run and in
the theorem alike (section 6).

## 6. Disagreements between code and documents

| Run | Document | Code |
|---|---|---|
| `TaskQueue_leak` | phase-j-queue-runtime `PRODUCT.md:18`: slots are released after success, cancellation, timeout, or error | `to_thread` cannot interrupt the waiting thread, which may take the permit after its caller has gone (`task_queue.py:237`) |
| `RunLifecycle_ack` | stable-run-lifecycle `PRODUCT.md:68`: the pipeline detects the flag at checkpoints and ends | `_persist` saves a copy merged before the flag was saved (`runs.py:206`) |
| `RunLifecycle_restart` | `FULL_PRODUCT_ROADMAP.zh-CN.md:113`: no run may be lost at a restart | nothing looks for runs under way; `execute` and `retry` refuse them (`runs.py:247`) |
| `TaskLifecycle_final` | phase-f `PRODUCT.md:58`: cancelled tasks cannot be reactivated | accepting the confirmation does not look at the task (`task_lifecycle.py:494`) |
| `TaskLifecycle_overwrite` | `FULL_PRODUCT_ROADMAP.zh-CN.md:151`: importing a table twice creates no duplicates | the overwrite branch records no fingerprint (`task_lifecycle.py:706`) |
| `Connectors_rate` | stage-i-integrations `PRODUCT.md:19`: "Rate-limited: max 10 emails per hour per recipient domain." | the window lives in a connector, and the API builds one for each request (`api/integrations.py:38,51`), so each mail finds an empty window |

Met while modelling and visible in the models, without a run of their own: a
cancel that read the record before the run completed replaces the completed
record (`runs.py:283`); two writers of one `.tmp` file can rename a truncated
one (`runs.py:55`); if the three saves of a run whose first step fails are all
lost, its record is still queued and the run is executed again (`runs.py:210`); two decisions
on one confirmation both succeed (`task_lifecycle.py:465`); a row whose
fingerprint transaction fails is imported again (`task_lifecycle.py:732`).

In the services, each visible in its module:

* *Versions.* Two trackers that replace one file at once leave two current rows;
  the run has two, and `OneCurrentVersion` allows a second current row only for a
  write that overtook another. The impact analysis keeps only the first file of
  each task when several changed; a query that fails (a locked database) is swallowed
  and leaves no trace, so its tasks are missed by an analysis that reports success
  (`change_impact.py:120`).
* *Risks.* `specs/stage-g-risk-monitoring-260722-2200/PRODUCT.md:40-41` keeps an
  acknowledged risk from being reported again; only active risks count as known
  (`risk_scanner.py:216`), so it is. Two scans at once register a finding
  twice, as nothing locks them and no index is unique; two run, and
  `NoActiveTwin` allows a second active risk only then. `acknowledge` and `resolve` ask for no state.
* *Comments.* Replies to replies, to a deleted comment or with a parent on
  another entity are in no list (`comments.py:111-167`); only direct answers to
  comments that are listed are claimed.
* *Reports.* Export and edits are possible in every status, a decision needs no
  submission, and the version number never changes.
* *Members.* The last admin can leave; then nobody can change a role again.
* *Connectors.* The CI connector does not compare the payload with the preview.
* *Webhooks.* The delay of 300 s is never used: the last attempt is followed by
  the dead letter.
* *Chunks.* The overlap of `specs/rag-b-retrieval-260720-1700/PRODUCT.md:12` (and
  `chunker.py:4,126`) does not happen between neighbours, because it is counted from the
  first paragraph of a chunk; they share a paragraph only when one opens and closes
  the chunk with the same text, since the search asks whether its text is in the
  remaining text (`chunker.py:164`, `ChunksInOrder`); short paragraphs before one that does not fit are lost
  (`LostOnlyWhenShort`); a chunk cites the lines of its whole section.
* *Index.* After a failed embedding the next build finds no change and keeps old
  vectors (`indexer.py:124`); documents that become blank keep their chunks when
  no other document has text; lines that moved keep old citations. A save that is
  interrupted or crossed leaves chunks with the fingerprints of others, and a
  document that changes back to those then keeps the stale chunk
  (`indexer.py:103-108`, `198-215`).
* *Parsing.* Line numbers drift after several blank lines (`parsers.py:140`); a file
  that vanishes between scan and hash ends the import.
* *Questions.* The citation rate counts a refusal as correct.
* *Evaluation.* An overdue task with complete evidence is delayed; partial
  evidence is ignored when a task has no criteria; ids change with the row
  position; an empty title in the database silently switches to the file.
* *Cache.* A set of a key that is present evicts another entry.
* *Backups.* Files are copied beside their writers, so a backup whose manifest says
  success may hold torn copies of what was written meanwhile, and what is only in
  SQLite's write-ahead log is in none (`backup.py:68`); `SuccessIsComplete` speaks of
  the files nobody wrote while the backup ran. A backup that could only partly be
  removed but kept its manifest stays listed and can be restored
  (`backup.py:281-285`). A restore merges index files into those present, accepts a
  partial backup, and cleaning up may leave only partial ones.
* *Logs.* A rotation in the same second overwrites the earlier one; old files that
  are no logs, and other active logs, are removed too.
* *Projects.* A crash within a creation leaves a directory without `project.json`.
  A project that the sweep could not remove wholly stays, listed without its
  directories or not listed with its uploads (`cleanup.py:51`).
  Bytes that are no PDF pass under a PDF's name; `tasks.csv` and `tasks.xlsx` may
  both exist.
* *Health.* A critical disk leaves the status degraded when it already was
  (`monitor.py:439`); nothing outside the tests records LLM calls. A model
  entry without an id overwrites the remembered name (`monitor.py:285-296`).
* *Benchmark.* Every question is asked twice, and the two answers may differ
  (`quality_metrics.py:68-78`); a case passes that should have been refused.

## 7. Not modelled

* Runs and tasks: `execute_project_report_run`, the synchronous path (no concurrency
  with its own record that the background path lacks, except that it may run
  beside it); the progress percentage and the listings of runs; the extraction of
  candidates, the parsing of imported task files and the counts of the preview;
  the content of the pipeline's tools.
* Services: the cells of XLSX rows, the parsing of dates, the tokenizer, the
  scores inside FAISS and BM25, the wording of reports, the output of GPU tools,
  the embedding figures of the monitor, the sweeps of temporary files and of old
  indexes, `rollback` of the connectors (no route calls it), history and comparison of
  benchmark runs (they only read).
* Authentication, error codes, `services/benchmark.py`, `services/stress_test.py`,
  `api/overview.py`, `api/task_board.py`, the scripts, the UI and the CLI: static tables,
  measurement, read-only aggregation and presentation.

## 8. Plan

Done: the models and their runs; every invariant and action property that a run
checks is also a theorem, of the queue, the runs, the tasks and all services and
their composition.

Next, in this order: the five files of an index read one after the other beside a save
(`LoadIndex` is one step; no property depends on the mixture, as they speak of saves
that ran alone); that `Backups` and `ResultCache` implement abstract specifications (a
set of whole copies; a map that forgets); the lemmas `RecursionExists` and
`NumbersReached` for folds over sequences.
