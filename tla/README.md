# RobotDataHub in TLA+

A formal model of RobotDataHub: what happens to an Episode, a task, a dataset or a file on its way
through robots, the Platform, the Scheduler, the operators and the annotators' browsers, where each
of them can be slow, be killed, be overtaken, or do a thing twice. TLC checks the modules on small
instances; TLAPS proves the theorems for every instance.

Paths below are relative to `src/`.

## 1. The system

RobotDataHub collects robot recordings. An **Agent** on a robot records an *Episode* (an MCAP
file), uploads it and reports to the **Platform** (FastAPI, SQLAlchemy, one database). The Platform
keeps each Episode's status, publishes events, and the **Scheduler** consumes them: it runs the
algorithm **operators** and calls the Platform back. Annotators verify, annotate and review Episodes
in the **Tool**; administrators create tasks, assign them to Agents and build datasets in the
**console**.

| Component | State it keeps | Operations | Talks to |
|---|---|---|---|
| contract (`contract/src/rdh_contract`) | none: statuses, edges, events, frames, schemas | `can_transition`, `assert_transition` | everybody imports it |
| Episode lifecycle (`platform/app/services/episode_lifecycle.py`, `callbacks.py`, `review.py`, repositories, routes) | tables `episodes`, `episode_transitions`, `annotations`, counters of `collect_tasks` | create, start-upload, upload-complete, algo-result, annotation-processing, verify, annotate, review, status frames | publishes events; called by Agent, Scheduler, Tool |
| collect tasks (`repositories/task.py`, `routes/tasks.py`) | `collect_tasks` with their assignments, `agents` with their tasks | create, list, assign | pushes over the WebSocket |
| event publishing (`event_publisher.py`, `rabbit_publisher.py`) | queue directory or exchange | `publish` | Scheduler |
| Scheduler (`scheduler/src/scheduler`) | queue, processed and dead-letter directories, attempts in memory, Celery tasks | `fetch`, `ack`, `reject`, `dead_letter`, `drain`, Celery tasks, the pipeline | calls back the Platform over HTTP, starts operators |
| operators (`algo/src`, `scheduler/k8s/runner.py`) | one process per run, its `result.json` | run, read the result | files |
| dataset builds (`dataset_builder.py`, `repositories/dataset.py`, `routes/datasets.py`) | table `datasets`, manifests in the object store | request, build | publishes `dataset.build_requested`, is called back |
| recording (`agent/recorder`, `mcap_parser.py`, `algo_common/io.py`) | the file | write a message, close, read | the two readers |
| Agent upload and recovery (`agent/src/agent/collector.py`, `file_processor.py`, `recovery.py`, `store/sqlite.py`, `uploader/`) | local SQLite, local file, object in the store | collect, process a file, upload parts, report, recover | Platform HTTP, object store |
| Agent directories (`watcher.py`, `file_flow.py`, `task_handler.py`) | task directories with `.task.json`; files moved between them, `.uploading/`, `.done/`, `.rejected/`, `.failed/` | make, rebuild, watch, scan, trigger | Agent upload |
| WebSocket (`platform/app/ws`, `agent/src/agent/ws`) | connections, consoles, the Agent's session | register, heartbeat, push, announce | Agent and consoles |
| console (`platform/web/src`) | what a page was told and what it polled | show who is online | WebSocket, Platform HTTP |
| Tool (`tool/src`) | the list being edited and its history, the page's Episode and annotation, the players | edit, undo, submit, decide, play, seek | Platform HTTP |
| accounts and tokens (`platform/app/main.py`, `services/seed.py`, `services/auth.py`, `core/security.py`, `api/dependencies.py`, `agent/platform_client.py`) | table `users`, each row with its roles; a client's access token | start, seed, log in, check a token, log in again on a 401 | every HTTP request |
| queue inspection (`queue_inspector.py`, `routes/sysops.py`) | none; it looks at the queues | count what waits and what is dead | queue directory or broker |
| throttles, health, demo scripts | | | see section 6 |

### What is hard about it

* **Interleaving.** Each HTTP request is a coroutine with its own transaction; it awaits between
  its statements. The guard of `lifecycle.transition` reads the status, `apply_transition` reads
  the row again and writes. There is no version column and no `SELECT ... FOR UPDATE`. Two handlings
  of one event run operators side by side in one directory. Two handlers of one Agent's connections
  share one registry entry.
* **Ordering.** Events are published inside the transaction, before the commit. A page's requests
  are answered in any order. Frames of a snapshot and of an announcement overtake each other.
* **At-least-once delivery, and at most once.** Callbacks are repeated after timeouts and crashes and
  may be late: users have gone on meanwhile. Celery tasks are lost, repeated, or time out while the
  Platform goes on. A WebSocket frame to an Agent that reconnects is gone.
* **Crashes.** A Platform request, a Scheduler worker, an operator or an Agent may die between any two
  steps; the Agent restarts from its SQLite file and its directories, the worker's retry counts are gone.
* **Stale state.** Pages decide on what they fetched a while ago, a watcher on sizes it sampled, a
  hook on the list of its first render.

What makes each part correct, in a sentence: an Episode only follows the contract's edges, its trail
tells the truth about its status, human decisions are on file behind the statuses they lead to,
counters and revisions count what happened, what is published is what was reviewed (lifecycle);
every event is handled or dead-lettered, and an Episode does not stay in a stage for ever
(delivery); the verdict about an Episode's data is about that data (operators); a dataset is built or
it is on record why not, and its status has its manifest (datasets); what is uploaded is the recorded
file, the Platform is told, and a restart makes good what broke off (Agent); what is interrupted stays
readable (recording); every file that lands is taken, and whole (directories); an assignment stays
and reaches its Agent (tasks); pages show who is there (console); what is approved is what was seen,
edited lists fit the Episode, cameras follow the clock (Tool); who has the password is let in, and stays in
as long as a client keeps its credentials (accounts); a look at the queues overlooks nothing that lay there
(queue inspection).

`PROJECT.json` lists all components and, under `hazards`, the places in the code where these
difficulties bite, each with the properties that would notice.

## 2. The modules

| Module | Models | Kind |
|---|---|---|
| `EpisodeStates` | `rdh_contract/state_machine.py`: statuses, edges, what a walk along the edges is | constants and operators |
| `EpisodeStateMachine` | what the Platform promises an observer of the committed database | abstract specification |
| `EpisodeLifecycle` | every request that moves an Episode, one database statement per step | detailed specification |
| `EventDelivery` | what a queue promises of each event, whatever the transport | abstract specification |
| `FileDelivery` | one queue directory, its worker, and the callbacks that answer its events | detailed specification |
| `BrokerDelivery` | RabbitMQ, the worker that dispatches, Celery's tasks | detailed specification |
| `DatasetBuild` | a dataset from the request to the manifest, on top of `BrokerDelivery` | composition |
| `StateStore`, `ChunkedUpload` | the rows of the Agent's SQLite file; parts, preallocation, page cache | operators |
| `AgentUpload` | the Agent's flows and its recovery, on top of these two | composition |
| `DirectoryWatch` | the watcher and those who copy files in | specification |
| `TaskDirectory` | the making and repair of task directories | specification |
| `TaskPush` | assignments, connections, pushes, fetches | specification |
| `OperatorRuns` | operators as processes, their files, the verdict | specification |
| `Recording` | writer and both readers of one file | specification |
| `ConsoleStream` | what a page of the console shows of the Agents | specification |
| `AccountSessions` | processes that start on one database, tokens, a client's requests | specification |
| `QueueInspection` | the operations page's look at the queues, on either transport | specification |
| `ReviewDesk`, `SegmentEditor`, `PlayerSync` | the Tool: reviewers' pages, edited lists, players | specifications |
| `MCEpisodeLifecycle`, `MCFileDelivery`, `MCAgent`, `MCRequests`, `MCSafety`, `MCTool` | instances for TLC | instances |
| `EpisodeLifecycleProofs`, `EpisodeStateMachineProofs`, `FileDeliveryProofs` | theorems about the module of that name | proofs |
| `AgentProofs`, `RequestsProofs`, `SafetyProofs`, `ToolProofs` | theorems about the parts that the MC module of that name puts side by side | proofs |

Parts that share no state are put side by side in one MC module with a variable `scene` that says which
of them a behaviour is about; the others keep still. So TLC does not multiply their states, and
every behaviour of each part is explored.

### 2.1 `EpisodeLifecycle`

*State.* `status`, `segments`, `trail`, `annotation`, `counters` are the committed tables;
`events[e][k]` counts how often event `k` was published; `request[r]` is the request in slot `r`
(its next statement and what its local variables hold: the `from_status`, `revision`, count and
segments it has read); `txn[r]` its transaction, the row locks it holds and the rows as it has written
them. `overtaken` is a history variable, explained below.

*Actions.* A request arrives when its first statement has been answered (`SubmitDecision`,
`UploadComplete`, `AlgoResult`, `RequestTransition`), and then goes on one statement at a time:

| Action | Code |
|---|---|
| `SubmitDecision` | `assert_actionable`, the 409 of a decision that comes too late |
| `UploadComplete` | `mark_uploaded` up to its replay check |
| `AlgoResult`, `Attach` | `handle_algo_result`: artefacts are written before the guard |
| `ReadAnnotation`, `WriteAnnotation` | `upsert_verify_result`, `save_segments`, `save_review_result` |
| `ReadEpisode`, `Attach` | `replace_segments`: its `_require_row`, and the write |
| `Guard` | `lifecycle.transition` l.88-94: replay, 409, or go on |
| `ReadForUpdate`, `Flush` | `apply_transition`: the second read; the write of status and record |
| `Publish` | `publisher.publish`, and for an upload the second transition |
| `ReadCounter`, `WriteCounter` | `increment_counters` |
| `Commit` | `session.commit()` in the route |
| `Discard`, `Abort` | an error response, an exception, a crash: rollback |

*The database.* READ COMMITTED, the default of the PostgreSQL the configuration names for
production (`platform/app/core/config.py`): a statement sees the last commit and its own writes,
an UPDATE or INSERT takes the row lock until the transaction ends. SQLAlchemy keeps rows weakly, so
each `_require_row` selects again. SQLite, the default for development, has one write lock for the
whole database; it allows fewer interleavings of writers and none the model lacks.

*Columns left out.* SQLAlchemy writes the columns that have changed since they were loaded. A submission that
repeats the list it found (after a return nothing had to be changed; or the list is empty) assigns an equal value,
and the UPDATE leaves the column as it is by then (`Updated`). If another submission has overlapped, the annotation and
the Episode may end up with lists of different submissions: `LeavesOut` recognizes this at the commit and `overtaken` has
the Episodes it has happened to since their last submission. The segments a request has loaded (`noted`, `found`) are
part of its state for this; an algo result loads the Episode's row as it arrives.

*Abstractions.* Segments are values from a small set, `NoSegments` and `MachineSegments` (the
preannotate operator's) among them. Reject reasons, timestamps, notes, the log of operator runs and
other columns no property tells apart are left out. A crash of the Platform is an `Abort` of each
request in flight. Status frames of an Agent are limited to `uploading` and `failed`, what an Agent has
to tell. `algo-result` with `pipeline_complete=False` is left out: the Scheduler never sends it. So
is `start_processing`, which nothing calls. `prepare_failed` is in the model although
`_prepare_annotation_data` does nothing today and cannot fail.

*Environment.* Callbacks of the Scheduler answer an event that was published, any number of times
and at any later moment; this stands for retries after lost responses, redelivery after a crash and
slow workers. `FileDelivery` shows where such answers come from.

### 2.2 `EpisodeStateMachine`

Status and trail only: `Create`, `Move` along one edge, `Ingest` along two (the upload callback
takes `uploading -> uploaded -> processing` in one transaction). `EpisodeLifecycle` implements it
under the refinement mapping `Machine` (committed status as it is, each trail record without its actor) as long
as requests on one Episode do not overlap.

### 2.3 `FileDelivery`

*State.* On disk: `published` (all files of the queue in the order of their names) and `place` (in the
queue, `processed/` or `dlq/`). In the worker's memory, and gone with a restart: `seen`,
`attempts` and `worker`, what `Worker.drain` is doing with which event. In the Platform: `stage`, how
far the transaction behind an event and the Episode it is about have come, and `late`, callbacks the
worker no longer waits for. `verdict` and `runs` are history, for the properties.

| Action | Code |
|---|---|
| `Publish`, `Commit`, `Rollback` | `FileQueuePublisher.publish` inside the request's transaction, and the end of that |
| `Fetch` | `FileQueueConsumer.fetch`: the whole loop over files seen, unreadable and new |
| `Log`, `CallBack`, `HandlerFails` | `Worker.handle` and the pipeline |
| `Serve`, `TimeOut`, `LoseAnswer`, `ServeLate` | `PlatformClient._post` and the Platform's end of it |
| `Ack`, `Reject`, with `Move` | the actions of the same names, `_move` included |
| `Restart` | a new process with new consumers |

*One queue.* The four workers of a process share no state but the process, so the module has one; `queue`
says which (`ingest` or `tool`), and both are explored in one run. `notify` handles its one event as
`tool` handles a notice.

*What the Platform answers* is `Answers`: the part of `EpisodeLifecycle` a callback can tell apart. An
algo result writes the Episode's row before its guard, or passes the guard from `uploading` to `failed`
and then writes, and in both cases waits for the open transaction's lock. The guard of the
annotation-processing callback reads the status committed before, `verification_pending`, from which
there is no edge to its target: 409.

*Left out.* `dead_letter`, since every registered event has a branch in `Worker.handle`; files
another program put there; and `dataset.build_requested`, which this worker only logs
(`DatasetBuild` has the path that builds).

### 2.4 `EventDelivery`

For each event its `place` and `verdict`: published, decided (any number of times), cleared away only
with a verdict or into the dead letters, and not queued for ever. `FileDelivery` and `BrokerDelivery`
both implement it, liveness included, although the broker's worker acknowledges what it has handed on
and not what has been done.

### 2.5 `BrokerDelivery` and `DatasetBuild`

*State.* `message[e]` is where the domain event is (dropped by an exchange no queue is bound to yet,
queued, held by the `RabbitWorker`, acknowledged, dead-lettered); `hand` and `sent` are the worker's
loop; `task[e][c]` the Celery tasks made for it, more than one when the worker died between sending and
acknowledging (`rabbit_worker.py`). `DatasetBuild` adds the Platform: `request` (the transaction of
`POST /datasets/build`), the committed row, `transaction` (of `POST /callbacks/dataset-build`, begun by
a task or by a client that is `Gone`), the manifest, and whether all Episodes are still published.

*Actions* are `Publish`, `Fetch`, `Dispatch`, `Ack`, `Reject`, `FetchUndecodable`, `DispatcherDies`; `RunTask`,
`TaskRetries`, `WorkerDies` (`task_acks_late` gives the task to the next) and `ChildDies` (Celery acknowledges
it); `Accept`, `PublishRequest`, `CommitRequest`; `NotFound` (422, nobody retries), `Begin` (`mark_running`: the row
lock), `WriteManifest`, `CommitBuild`, `AbortBuild`, `TimeOut` (the task retries, its first request goes on).

*Abstractions.* Episodes of a dataset are one bit, `eligible`. Celery's own broker loses nothing. The
other two events of the queue are tasks that log (`LogNotice`). `CASE` on the answer stands for the branches
of `PlatformClient`.

### 2.6 `StateStore`, `ChunkedUpload`, `AgentUpload`

*State.* `row` is the local store, `file` where the source is, `object` the object store with the bytes written
and those of them only cached, `platform` the Episode's status there, `job` the flow in hand and its
next step, `todo` and `failedOnes` the locals of `recover()`.

*Actions.* Each statement of `Collector.collect`, `FileProcessor.process` and `RecoveryService` is a step: rows
written, requests sent (and failing), parts written and then marked. `Kill` takes the process between any
two; `PowerCut` takes with it any subset of the bytes that were not synced, or a whole new object.
`FileProcessor` uploads in a thread and marks parts later, so any number may be unmarked there.
The Platform's side of the upload callback recomputes the checksum of an object that exists.

*Abstractions.* A file is its size, a part the bytes it covers. An Episode is one try at one file. Power cuts
spare SQLite, which syncs its commits, and the source file.

### 2.7 `DirectoryWatch` and `TaskDirectory`

`DirectoryWatch`: copies write a file bit by bit, pause at most `MaxPause` samples, and may write a marker; names come
again. The watcher takes one path at a time (`Get`, `Sample`: `wait_until_stable`), and gives up after
`Timeout`. Time is counted in its samples. `TaskDirectory`: a push or the start's `rebuild_from_platform` makes directory and
`.task.json` in three file operations, between which a kill or an error comes; `Drop`, `Run`, `Trigger`, `Process`
follow a recording put into it. `FileProcessor.process` skips a file without metadata; so in
`DirectoryWatch` every directory has it.

### 2.8 `TaskPush`

*State.* Committed assignments on both sides (`row`, `node`), the requests with the lists they have read
(`call`), the `ConnectionManager`'s `entry` per Agent, for each connection the handler on the Platform (`server`), the
wire (`line`) and what is on it (`down`), and the Agent's process, connection and directories.

*Actions.* `assign_task` by its statements (`ReadTask`, `ReadAgent`, `CommitAssignment`, `PushTask`), which replace whole JSON
lists; `Connect`, `Register`, `HandlerEnds` (removes the entry of its Agent, whoever's it is by then),
`Breaks`, `PlatformRestarts`; on the Agent `Start` with its fetch, `StartUnfetched`, `Joined`, `Receive`,
`Leave`, `Stop`. `pending_acks` is left out: nothing reads it.

### 2.9 `OperatorRuns`

A `handling` of an uploaded event spawns one process per operator, collects their results and reports
once. All processes of an operator write the same temporary name and rename it to the same
`result.json`; a handling that dies leaves its processes running. `temporary` and `final` name the process
that created the file there, `open` the one each process writes to, `complete` the files with all of their
content: so a rename under somebody's hands is what it is on POSIX. `Collect` is the runner's
reading: the exit code, then the file if it is there and is JSON.

### 2.10 `Recording`

`McapWriter` line by line (`OpenFile`, `WriteMessage`, `CloseFile`), then statistics, then `_rewrite_header` as a
truncation and a write. `Kill` at any point. `ReadMcap` and `ParseMcap` are the operators' and the Agent's
readers as pure functions of the file. A line is its timestamp.

### 2.11 `ConsoleStream`

*State.* Handlers of Agents' connections, the registry, heartbeats; the page's sockets, the snapshot the
Platform still owes a new socket, frames under way, and the page's `overlay`, which it lays over the list it
`polled`. Announcements go to all consoles after the registry has changed; a snapshot is read once and
sent one frame at a time.

*Abstractions.* One page; several are independent. Tokens stay valid and heartbeats come in time.

### 2.12 `ReviewDesk`, `SegmentEditor`, `PlayerSync`

`ReviewDesk`: pages with the Episode and annotation they hold, requests of theirs under way, answered in any
order or never; `Judge` is the Platform, which goes by the Episode's status alone; `Resubmit` an
annotator. Queue order is by creation (`repositories/episode.py`).

`SegmentEditor`: `segmentMath.ts` as operators on sequences of intervals (split, merge, move a boundary, relabel,
delete), the history of `useSegmentEditor`, and the page that loads and submits (`PageSpec`). Two initial
states: `HookInit`, a list the operators or an earlier submission made; `PageInit`, the empty one the page really
starts with. A position is a fraction of a millisecond (`Ms` of them are one): the page makes it of a click or of the
time of a frame, and no edit rounds. What the operators find, and what the Platform has stored, is in whole ones. So
`Accepted`, the contract's `Segment` and `AnnotationSubmit`, asks what `Valid`, the tool's `validateSegments`, does not:
that ends are integers (`Whole`), and that a description fits. `Submit` of a list that it refuses is a 422 and stores
nothing. Notes, which have the same limit, are left out.

`PlayerSync`: a unit of time is `MAX_DRIFT_MS`, so drift is one unit. Renderings hand elements over again and
grow the controller's list; nothing calls `detach`. Tracks of one element and one offset are one here, since telling an
element twice is telling it once, and elements that are gone get told without effect. An element that is kept for
the next Episode (they are keyed by topic) keeps the tracks of the one before, with its `start_offset_ms`: `older` has
these offsets, and `LeftAt` says where they may leave the element before the current Episode's track, attached last
and so told last, has its turn. A video that has come to its end pauses itself (`Ends`), which the controller does not
notice; only `play()` starts it again, from its start (`Started`). The next Episode opens at the clock's old position;
the timeline's `onSeek` sets the page's position only and is no action here.

In `SegmentEditor` a list is sorted by counting: `Before(list, i)` are the places that a stable sort puts
before the `i`-th, so the order among equal starts is the one `sort` keeps, and a proof can reason about it.

### 2.13 `AccountSessions`

*State.* Whether the tables are there, each account's committed row, where each Platform process is in its start
and which secret it has, the clock, and per client its password, its token and its request.

*Actions.* `lifespan` and `ensure_demo_users` by their statements (`Start`, `LookForTables`, `MakeTables`, `CountUsers`,
`InsertUsers`, `CommitUsers`): two processes may be anywhere in it, the unique key lets one insert, and a
kill at any step leaves what was committed. `LogIn`, `Ask`, `Decode`, `LoadUser` follow a request through
`current_user`; `Relogin` is the resident Agent's client, which on a 401 logs in and sends once more; `ReloginFails` a
log-in of it that is answered by any other error (500, 502), after which the client gives the first 401 back. Whether a
request has logged in again, and how that ended, is in its `login`; what its latest 401 was for in `why`.

*Abstractions.* A password is right or wrong. A token is one of the Platform's if its secret is the process's; how it is
encoded and how a password is hashed is left out.

### 2.14 `QueueInspection`

An event is published, taken, returned, given up or done with, while `Look` goes from queue to queue and to the
dead letters last (`CountQueue`, `CountFails`, `CountDeadLetters`). With files an event in hand still lies in its queue;
with RabbitMQ it is counted nowhere, a queue exists once it is declared, and the connection may break.
`steady` is what has lain in a queue or with the dead letters all the while.

## 3. What the runs check

| Run | Instance | Question |
|---|---|---|
| `LifecycleSerial` | 1 Episode, 1 slot, `Overlap = FALSE`, trail up to 12 records, each event up to 3 times | With replays, late callbacks, errors and crashes but no overlap, does the Platform keep its promises? |
| `LifecycleConcurrent` | 1 Episode, 2 slots, `Overlap = TRUE`, trail up to 8, each event once | What survives two requests interleaving at every statement? |
| `FileDelivery` | an upload; or a processing request and a notice; 2 retries, 1 restart, 2 faults | Is every event handled or given up, in order, within its retries? |
| `AgentUpload` | one recorded and one dropped Episode, 3 bytes in parts of 2, 2 faults; two file names, copies of 2 bytes | What do local store, object store, directories and Platform say of a recording after kills and power cuts? Is no half-copied file taken, and every file decided? |
| `Requests` | 1 dataset, 1 notice, 3 task copies, 2 mishaps; 1 Agent awake, 2 tasks, 2 calls, 2 connections; 2 directories | What becomes of a user's request on its way to the end? |
| `Safety` | 2 operators, 2 handlings, 2 troubles; 1 Agent with 3 connections, 2 sockets; 3 messages; 2 Platform processes on one database, 1 client, 2 secrets, tokens of 1 tick, clock up to 2; 2 queues, 2 events | Are verdicts fair, does the console show who is there, what does an interrupted recording leave, is anybody shut out, does the operations page overlook an event? |
| `Tool` | 2 Episodes, 2 pages, 2 versions, 2 decisions; lists of 3 segments on 8 units, two to a millisecond; 2 cameras of 3 units, 2 offsets | Is what is approved what was seen, do edits fit, do cameras follow? |
| `LifecycleGuardRace` | 2 slots | violation: an edge the contract does not have is recorded |
| `LifecycleLateCallback` | 1 slot | violation: a duplicate annotation-processing callback un-submits an annotation |
| `LifecycleLostCount` | 2 Episodes, 2 slots | violation: a task's counter loses an increment |
| `FileDeliveryEarlyAnswer` | as `FileDelivery` | violation: a 409 that is no replay is taken for one |
| `EditorPage` | `PageSpec` | violation: the annotator starts from nothing |

### 3.1 Properties

*`LifecycleSerial`*: `TypeOK`; `CountersMatchTrail`; `RevisionCountsReturns`; `PublishedAsReviewed`;
`ImplementsStateMachine`, the refinement of `EpisodeStateMachine`. With the theorem
`TrailAlwaysWalksToStatus` about the abstract machine, the refinement says that records are edges, each starting
where the one before ended.

*`LifecycleConcurrent`*: `AuditTrail` (the status is where the last record went); `DecisionOnFile`;
`ReviewSeesEpisodeSegments` (annotation and Episode have one list, unless `overtaken`); `NoMoveWithoutEvent`; `SomeRequestCanGoOn` (no deadlock on row locks).

*`FileDelivery`*: `TypeOK`; `NoneForgotten`; `HandledInOrder`; `RetryBudget`; `ImplementsEventDelivery`, with
its liveness. `NoneForgotten` and the refinement together say that an Episode waits in vain only with a dead
letter, used-up retries or an early 409 to show for it.

*`AgentUpload`*: `AgentTypeOK`; `StoreTellsTruth` (`RecordFollowsObject`: a recorded part is stored, and a kill
costs one part; `ReportedIsHandedOver`); `NoDamagedObjectAccepted`; `RecoveryOverlooksNothing`
(`CleanRecoveryLeavesNothing`: exit code 0 means what it says; `StagedFileHasRecord`); `RestartsGetItThere` (liveness);
for the watcher `TakenWhole` and `EveryFileIsDecided` (liveness).

*`Requests`*: `TypesOK`; `VisibleSteps` and `EveryBuildEnds` (liveness) of datasets; `BrokerImplementsDelivery`
(refinement); `RegistryIsHonest`, `AssignmentsStay` and `AssignmentArrives` (liveness) of tasks;
`FilesAreTaken` (liveness) of task directories.

*`Safety`*: `SafetyTypesOK`; `VerdictIsFair`; `ShownIsTrue`; `InterruptedIsReadable`; `NobodyShutOut`
(`AccountsWhole`: all accounts or none; `PasswordSuffices`; `KeeperOutlivesTokens`: a client that keeps its
credentials survives expiry and restarts, and is refused only for a disabled account, for a log-in that was itself
answered by an error, or where a token expired within the request); `InspectionOverlooksNothing`.

*`Tool`*: `ToolTypesOK`; `PublishedAsShown`; `EditsKeepFit` (edits keep a list fit to submit; what the tool finds fit the
contract accepts, but for what the tool does not look at: `Unlooked`); `CamerasFollow` (cameras are where the clock says
whenever it moves, and play as it does, but for what they missed or ended at since).

Many of them carry an excuse, an *unless* at the end: what the code does not keep and a comment of its own
says it does. The excuse is in the formula, so the property still says exactly how far the promise goes,
and the finding quotes the comment.

### 3.2 Bounds

*Lifecycle.* `MaxTrail` and `MaxEvents` only stop new requests; what is in flight runs to its end. Eight
records is the shortest complete life, from `recording` to `published`, so in the concurrent run
every pair of requests meets in every status of it; twelve leaves room for two rounds of return and
annotate-again. The empty list and `s1` are enough to tell a copy from another; the serial run also has an annotator
who submits what the machine found. Two
slots are enough to interleave a pair; a third adds no new kind of conflict, and the proofs hold for
any number. One Episode is enough except for the counters, which Episodes share. Symmetry is used
over slots, Episodes and the submissions that are neither the empty nor the machine's list, for which the specification
has no special members.

*Delivery.* Two events in one queue are enough for order, and two faults for the worst a
directory can do to one file (unreadable, and then not movable). With two retries there is a first, a
middle and a last attempt; code and contract have three retries. A second restart only repeats the first.

*Agent.* Three bytes in parts of two make two parts, the last one short. Two faults are a kill in the flow
and one more in its recovery, or a kill and a failed request. One Episode of each kind, since the Agent works on one
at a time. The watcher's two names are a file in hand and one behind it in the queue; two
generations let a marker come late.

*Requests.* Two mishaps and three copies: a copy more than mishaps can make, since `Dispatch` needs a free
one (with fewer the model, and not the code, would stop). One retry gives a first and a last attempt. Two
connections of an Agent are one and its replacement; two calls meet on a task, on an Agent, or on neither (of
interchangeable first calls one is fixed). The second Agent only holds assignments.

*Safety.* Two handlings meet in one directory; a third adds only more of the same. Three connections: one, its
replacement, and one after both; two sockets of a page: before and after a reload. One Agent, as the property is
about each one alone and frames about others only take places in the queue; the proof has any number. Three
messages and three timestamps are enough for disorder. Two Platform processes race to make the accounts; two secrets are
before and after a restart that changes it; tokens of one tick on a clock up to two expire during a request and
after it. One client, as clients share nothing but the accounts. Two queues are one looked at and one still to be; two
events are one that lies still and one that moves.

*Tool.* Two pages race for one Episode while a second waits. A list of three segments has a middle one; eight units
with segments of at least two leave gaps of zero to two, and every other position is between two milliseconds. Offsets are
none and two, so an element that is kept may be told two places further apart than the drift; the clock goes one unit past
the end of a video, so videos end and are sought back.

`CHECK_DEADLOCK FALSE` throughout, because with the bounds a run ends when nothing new is admitted, and
an Agent or a Scheduler may stay down; `SomeRequestCanGoOn` and the liveness properties say where the
system must not stop.

### 3.3 Findings

The five violation runs show what the code does against what it says of itself: the comment in
`repositories/episode.py` that the guard keeps illegal transitions out; the docstring of the
annotation-processing route; the docstring of `increment_counters`; the docstring of `_post`; the module
comment of `AnnotatePage.tsx`. The other findings name the passing property whose excuse they are: events
forgotten after a failed move to the dead letters, datasets that stay pending, the registry entry a
replaced handler removes, the fetch that reconnecting does not repeat, Episodes left in `recording`, parts recorded late,
files stranded in `.uploading/`, a cut-off `.task.json` that is never rebuilt, operators that share a
temporary name, a console that polls without effect, annotations shown for the wrong Episode, the recording that is emptied
before it is rewritten, a dataset status nobody ever sees, videos that are dragged along, or stay at their end, lists
that the tool finds fit and the contract refuses, a submission whose list is in one of two places. Each is quoted with
its lines under `findings` in `PROJECT.json`.

### 3.4 Fairness

Only what the code's scheduling justifies; each module states it beside its specification.

* *Lifecycle, operators, console, recording, accounts, queue inspection, Tool*: none, all their properties are safety properties.
* *`FileDelivery`*: weak fairness of the worker's own steps, taken together: `run_forever` polls for ever,
  operators and callbacks have timeouts, and `attempts` bounds the repetitions. Nothing is assumed of
  the Platform: it may never commit, and never answer.
* *`DatasetBuild`*: the dispatcher, Celery, and what the Platform has begun go on. Users, timeouts, deaths and
  the Scheduler's first start are not fair.
* *`AgentUpload`*: a running Agent goes on with the flow in hand. That it is restarted for ever is a premise of
  `RestartsGetItThere`.
* *`DirectoryWatch`*: the event loop runs, and a copy of which a byte has come goes on.
* *`TaskPush`*: a request that has read goes on; a session receives what was sent to it; its heartbeats
  notice a lost connection. Reconnecting is not fair. `AssignmentArrives` takes restarts with a successful fetch as
  a premise where it needs them.
* *`TaskDirectory`*: none; `FilesAreTaken` has its premises in the formula.

Crashes, faults, mishaps and troubles are finitely many: what always dies delivers nothing.

## 4. What is proved

All for any values of the constants, bounds included.

`EpisodeLifecycleProofs`: `TypeCorrect` (`[]TypeOK`), `NoDeadlock` (`[]SomeRequestCanGoOn`),
`AuditTrailHolds`, `DecisionAlwaysOnFile`, `EveryMoveAnnounced` (`[]NoMoveWithoutEvent`),
`ReviewAlwaysSeesSubmission` (`[]ReviewSeesEpisodeSegments`).

For each action one *effect lemma* says what it changes in the vocabulary of the
invariants, so that the action's definition is expanded once. On these rests an inductive invariant in
layers:

1. *Typing and control*: where a request is in its program says which locks it holds and which
   operations it can be.
2. *Locks*: two requests never hold the lock of one row. This is what makes the rest true in spite
   of the stale guard: whoever writes a status also appends its record and, for a human decision, has
   the annotations row locked and written, all until the same commit.
3. *Decisions*: a transaction that carries `published` or `annotation_processing` has its decision in the
   annotations row it has written. A reviewer who writes later must first read the committed
   status, which is the other one's target.
4. *Trails*: the status in a transaction is where its records, or else the committed trail, lead.
5. *Announcements* (`AnnouncedOf`): committed records of a target and those of the one transaction that holds
   the Episode's row are no more than the events published, one less while that transaction has still to
   publish. The invariant itself is not inductive: it does not see the records in the transaction.
6. *Copies* (`CopiesOf`): an annotator's transaction past its guard has the same submission in both rows, or
   its commit will say that a column was left out; and every other transaction leaves the annotation's copy alone and the Episode's status outside
   `annotation_review`.

For `NoDeadlock` one more fact: locks are taken in the order annotation, episode, task, so among the
waiting requests the one that waits for the highest table waits for somebody who can go on.

`EpisodeStateMachineProofs`, for the abstract machine: `TrailAlwaysWalksToStatus` and
`TerminalIsFinal`.

`FileDeliveryProofs`: `TypeCorrect`, `NoneIsForgotten`, `UploadConflictsAreReplays` (a 409 to an algo result is
never caused by the Platform's own open transaction; proved only, no run lists it), `OrderKept`,
`RetriesBounded`, `ImplementsDeliverySafety`, the safety half of the refinement. `IInv` relates what the worker remembers to
what really happened: whatever is in `seen` has a verdict, whatever is not has retries left, the runs of an event since the
restart lie between what `attempts` counts and the budget, and an answer the worker holds is one the Platform has
acted on. `RetryBudget` alone is not inductive: it does not say how much of the budget is left. The step that needs
care is `Fetch`; the lemma `FetchEffect` turns it into what it does to files and worker, and the others use only that.

`RequestsProofs`, for `DatasetBuild`: `DatasetTypes`, `StepsAreVisible` (`VisibleSteps`). Request and row, and build and
row, are in order: there is no row before the request's commit and no build without one; a transaction about to
say `succeeded` has written the manifest. That `late` stays within its type needs that every client that is gone has
cost a mishap. For `BrokerDelivery` beneath it: `BrokerTypes` and `BrokerKeepsPromise`, the safety half of
`BrokerImplementsDelivery`; it needs that what was rejected is with the dead letters (`RejectedIsDead`) and that what the
dispatcher has sent counts as handled before it acknowledges (`SentIsHandled`), and `RequestInv` ties a build's open
transaction to the task that runs it. For `TaskPush`: `PushTypes`, `RegistryAlwaysHonest`, `AssignmentsAlwaysStay`. A served
connection without its entry has another one beside it or after it (`Displaced`), which is what the property's excuse says
once the Agent is in a session; a call that wrote nothing since the Agent had the task still finds it there (`Kept`).
`StartsAlwaysMakeUp` is the half of `AssignmentArrives` (`StartsMakeUp`) that assumes starts and no fairness.

For `TaskDirectory`: `FilesAreAlwaysTaken` (`FilesAreTaken`), the one property here that says something must happen and
is proved as a whole, since its premises, starts and an empty queue again and again, are in the formula. A start that fetched
its tasks has every filled directory before it (`StartAttends`, from `DirectoryInv`: a directory that exists is that of an
assigned task); each step keeps that so or has the directory in order (`StaysAttended`), until the recording is taken
or `.task.json` torn; and then the queue is not empty while the recording is not taken. `TypesAlwaysOK` is the types
of all parts.

`AgentProofs`, for `AgentUpload`: `UploadTypes`, `StoreAlwaysTellsTruth`, `RecoveryAlwaysLooks`, `NeverDamagedAccepted`. None
of the properties is inductive alone: they say what record and object have in common, and not where the flow in hand is.
`UploadInv` says of each Episode what record, file, object and Platform have in common whatever happens
(`EpisodeFits`), of the one in hand what its step adds (`JobFits`: the parts it has done are in the object, the Platform's
status is the step's), and of a recovery that each unfinished record is listed, in hand, or counted as failed
(`Listed`). That at most one part is ahead of the record, for any part size, comes from `InOrder`: before a part that the
object has bytes of, and the record has not, all are recorded. For the watcher: `AlwaysTakenWhole`, from what
was sampled being behind the copy's pauses (`Sampled`) and a marker of this generation meaning a whole file
(`MarkedWhole`). `AgentTypes` is both modules' types.

`SafetyProofs`. `OperatorRuns`: `OperatorTypes`, `VerdictAlwaysFair`. Unless two processes of an operator met, the
temporary file is the one the live process has open, what it has written is complete, and so is what carries the final
name (`Left`); `Named` keeps a name from going back to a process that has not created a file. `Recording`:
`RecordingTypes`, `InterruptedAlwaysReadable`. The file is what was written so far, with the duration zero or the latest
time, by where the writer is. `ConsoleStream`: `StreamTypes`, `ShownAlwaysTrue`. `Stands` says what the last word on an Agent
is, whether the page has it or a frame on its way does. A last word `offline` about a connected Agent means that an
announcement is still to come or that another handler ended last (`Offline`); `online` about one that is gone, that its
end is still to be announced or was missed (`Online`); and a connected Agent without an entry was taken out
by another handler (`Displaced`). `AccountSessions`: `AccountTypes`, `NobodyIsShutOut`; one process at most has the accounts
inserted and uncommitted, and who serves has found some (`Making`); a second try has a token issued since the request
began (`RequestOf`); and a client that holds no new one was refused for what its token had earned (`Earned`). `QueueInspection`: `InspectionTypes`, `InspectionNeverOverlooks`; what lay still has been found or its
queue is still to be looked at (`Overseen`), and a queue with an event in it exists (`Housed`). `SafetyTypes` is all
five modules' types.

`ToolProofs`. `PlayerSync`: `PlayerTypes`, `CamerasAlwaysFollow`; what a video was told last is what the controller has, but
for what is on record as missed or ended; and at an attached element the current Episode's offset has the last word
(`AppliedIs`), whatever earlier tracks made of its position. `ReviewDesk`: `DeskTypesHold`, `AlwaysPublishedAsShown`; a page whose newest request is
answered, and was not overtaken, holds an annotation of its Episode no older than what it saw in the queue
(`DeskFits`), and a decision on its way was made before such a one (`ClickFits`). `SegmentEditor`: `EditorTypes`,
`EditsAlwaysKeepFit`. `SortedIs` proves the counting sort: ranks are an injection of a finite interval into itself and so
onto it. `ValidIsFit` then says that a list is valid if and only if its segments, as a set, are fit and pairwise
apart, so the order of the list is out of the way; one lemma per edit says what it does to the set (`SplitKeeps`,
`MergeKeeps`, ...). `EditorInv` says of neighbours in the history what the property says of a step, for `Redo` steps along them.
`ToolTypes` is all three modules' types.

`PartsMove`, in `RequestsProofs`, `SafetyProofs` and `ToolProofs`, connects the theorems with the runs: a behaviour of the
MC module is one of each of its parts.

*Premises.* Four theorems of `EpisodeLifecycleProofs` assume `~Overlap`, and `CountersAlwaysMatchTrail` also `OneAtATime` (one
Episode, or one request slot): `FollowsStateMachine` (`ImplementsStateMachine`), `RevisionAlwaysCountsReturns`,
`PublishedAlwaysAsReviewed`. These are the premises of the run `LifecycleSerial`. They cannot be left out: with overlap the
runs `LifecycleGuardRace` and `LifecycleLostCount` refute the first and the last. The layer they add says that what a
lone request has read is still true when it writes: no one else is in flight on its Episode (`Lone`), the committed
row is the one its guard read, until its flush (`ProgressOf`, `JudgedOf`), the revision it computes is one more than
the row's if and only if it is a return (`RowOf`), and the count it read is the task's (`CountOf`).

*Assumptions.* Those named in the modules, all about the models' own parameters: bounds are natural numbers, sets of
events and tasks are finite or disjoint, `NoEvent` is no event, `MinSegment` is positive and no longer than what
`preannotate` finds (`EditorAssumption`), a copy's pause is no longer than the watcher samples (`WatchAssumption`: the
condition under which `TakenWhole` is promised). No other.

*Only model-checked*, and why: everything that needs fairness (`RestartsGetItThere`, `EveryFileIsDecided`, `EveryBuildEnds`,
`PushArrives` of `AssignmentArrives`, and the liveness halves of `ImplementsEventDelivery` and
`BrokerImplementsDelivery`), which the prover cannot do. Every invariant and every action property of the passing runs is a
theorem.

## 5. Plan

Done: the lifecycle, both transports of events, datasets, the Agent's upload, directories and tasks, the operators,
recordings, the console, accounts and queues, and the Tool; and the proofs of section 4. What is left, in this order:

1. `PushArrives`, `RestartsGetItThere` and `EveryBuildEnds`: the steps of their arguments that are not about fairness (what
   each helpful step achieves, and that no other undoes it), as theorems.
2. The Celery tasks `process_episode` and `prepare_annotation`, whose callbacks `FileDelivery` has, over `BrokerDelivery`.
3. `VerifyPage` in `ReviewDesk`, once a page that met an error can go on.

## 6. Not modelled

* Of authentication how passwords are hashed and tokens encoded, the Scheduler's service token, and the token of the
  console's socket: checks without state. Outside `AccountSessions` every modelled request is one that passed.
* Health probes: read-only, and of one answer.
* Progress throttles (`progress.py`, `progress_tracker.py`): rules about time and percentages, and on
  the Agent not wired: `_run_daemon` makes `FileProcessor` without a socket (`agent/main.py:93`), so no progress is sent.
* `uploader/oss.py`: nothing uses it. `KubernetesRunner`: raises `NotImplementedError`.
* `VerifyPage`: `ReviewPage` without the annotation.
* `pending_acks`, heartbeats beyond what they notice, grants: nothing reads the first; the others are data here.
* What operators compute, signals, drawing, other pages of the console, `stage.ts`: presentation or stand-ins for
  computation.
* Container and cluster configuration, demo scripts and tests: read for how the system is used.

## 7. Running

    tlc -workers 2 -config LifecycleSerial.cfg MCEpisodeLifecycle
    tlc -workers 2 -config LifecycleConcurrent.cfg MCEpisodeLifecycle
    tlc -workers 2 -config FileDelivery.cfg MCFileDelivery
    tlc -workers 2 -config AgentUpload.cfg MCAgent
    tlc -workers 2 -config Requests.cfg MCRequests
    tlc -workers 2 -config Safety.cfg MCSafety
    tlc -workers 2 -config Tool.cfg MCTool
    tlc -workers 2 -config EditorPage.cfg SegmentEditor
    tlapm EpisodeLifecycleProofs.tla

The `Lifecycle...` violation runs use `MCEpisodeLifecycle`, `FileDeliveryEarlyAnswer` uses `MCFileDelivery`. `Requests`, `Safety`, `Tool`
and `LifecycleConcurrent` take one to four minutes, the others less; the proofs up to five minutes a module.
