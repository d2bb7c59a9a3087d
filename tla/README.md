# A TLA+ model of FACT

FACT (Firmware Analysis and Comparison Tool) takes firmware images, unpacks them
recursively, runs a set of analysis plugins on every file found and keeps the results in
PostgreSQL. A web front end talks to the back end through Redis. The back end is a set of
processes and threads that share manager dictionaries, queues, pipes, the database and the file
store; that is where the difficult behaviour is, and it is modelled first. Around it are programs that
are mostly sequential but easy to get wrong: queries, paths, trees, comparisons, forms, imports,
migrations. They are modelled by what they compute, and compared with what they should compute.

All paths below are relative to `src/` of the repository (so `scheduler/...` is
`src/src/scheduler/...` in `PROJECT.json`).

## 1. Inventory

| Component | State | Operations | Talks to |
|---|---|---|---|
| Unpacking scheduler `scheduler/unpacking_scheduler.py` | `in_queue`, `currently_extracted` (per firmware: `remaining`, `done`, `delayed_vfp_update`), `sync_lock`, `pending_tasks`, `throttle_condition`, `stop_condition` | `add_task`, `extraction_loop`, `check_pending`, `work_thread`, `cancel_unpacking`, `_work_load_monitor`, `shutdown` | unpacker, containers, database; `post_unpack` into the analysis scheduler |
| Unpacker and containers `unpacker/*.py` | container ids, exception flag | `unpack`, `start`, `stop`, `restart` | docker |
| Analysis scheduler `scheduler/analysis/scheduler.py` | `process_queue`; everything else travels with the file object (`scheduled_analysis`, `processed_analysis`) | the three entry points, task runners, result collectors, `cancel_analysis` | plugins, database, status |
| Analysis task scheduler `scheduler/task_scheduler.py` | none (pure, but random) | `schedule_analysis_tasks`, `reschedule_failed_analysis_task` | |
| Plugin runner and workers `scheduler/analysis/plugin.py` | in- and out-queue, one child process and one pipe per worker, ring of durations | `queue_analysis`, `Worker.run`, `_child_entrypoint`, SIGTERM handler | |
| Analysis status `scheduler/analysis_status.py` | per firmware: three sets of files and the counters of the display; `currently_analyzed`, which the scheduler reads | `add_object`, `add_update`, `add_analysis`, `remove_object`, `cancel_analysis`, as messages to one worker process | Redis (display) |
| Firmware database `storage/db_interface_*.py`, `schema.py` | rows of files, firmware, links, paths, analyses, comparisons | insert, update, delete, cascades, orphan deletion | file deletion through the intercom |
| Unpacking locks and file deletion `storage/unpacking_locks.py`, `intercom/back_end_binding.py` | a dict of uids; the file store | set, release; `InterComBackEndDeleteFile` | unpacking, database |
| Comparison scheduler `scheduler/comparison_scheduler.py`, `compare/compare.py` | queue, `comparisons_done`, rows | `add_task`, `_compare_single_run`, the pages that wait | database |
| Intercom, Redis interface `intercom/*.py`, `storage/redis_interface.py` | lists and response keys in Redis, chunked values, events | request, response, timeout | all services |
| Process supervision `start_fact*.py`, `fact_base.py`, `helperFunctions/process.py` | processes, stop conditions, signals | start, stop, `complete_shutdown`, `check_worker_exceptions` | all processes |
| Analysis and comparison plugins `plugins/**` | results; qemu_exec: a dictionary shared by threads | `analyze`, `summarize`, `compare_function` | plugin runner, comparison |
| Front end: routes, REST, searches, file tree, statistics, filters | what the database holds; the compare basket in the cookie | request handlers | database, intercom |
| Users and roles `manage_users.py`, `web_interface/components/user_management_routes.py` | users, roles, links between them | the terminal program and the pages | SQLite |
| Import, export, set-up, migration | archives, revisions, MongoDB | scripts that can be interrupted and repeated | database |
| Installation and configuration | files of the host | scripts | |

What is hard in it:

* **Interleaving.** Work threads of one firmware read, change and write back the same
  manager entry; cancel requests come from another process that does not take the lock;
  messages of different processes to the status worker overtake each other; several analysis
  jobs may be about the same file; images that share files are unpacked, deleted and uploaded again
  while a listener removes files; two requests of one browser carry the same cookie.
* **State that is stale when used.** The analysis scheduler looks into a dict that another
  process fills later; the listener asks once which files have a row and deletes them one by one; a
  comparison reads objects that are replaced meanwhile; pages edit the user that has the id now.
* **Failure of one step of several.** The extractor, the database, a plugin or a child process
  fails in the middle of the bookkeeping; a timeout races with a late answer; imports and
  migrations stop anywhere.
* **Limits and order.** Depth limit, ring of durations, chunk keys of Redis, cycles in dependencies,
  random order of plugins, the order in which services are stopped.

The hazards, each at its line and with the properties that cover it, are listed in
`PROJECT.json`.

What makes each component correct, in one sentence:

* unpacking: each file of a firmware is unpacked and analysed once per upload, every inclusion
  that was found ends up in the database, and no upload gets stuck;
* status: a firmware is reported as finished when all of it was analysed, and the numbers shown
  are those of the sets;
* plugin worker: a task comes out once, with the result of its own child, whatever the child does;
* task scheduler: dependencies first, `file_type` before all, nothing twice, nothing forgotten;
* analysis scheduler: an analysis is skipped only for a reason, a job that is through leaves
  complete and up-to-date rows, a skip for missing dependencies is not kept for good, and every job ends;
* store: rows, files and locks agree again after any mix of uploads, cancels and deletions;
* intercom: who is answered gets the answer to its own request, and nothing stays in Redis;
* comparison: a result is of the objects as they are, and the page that waits for it ends;
* supervision: a stop ends, leaves no process, and loses only what is in work;
* the others: what is shown, found, stored or imported is what a definition without the code's detours says.

## 2. Modules

| Module | Models | Notes |
|---|---|---|
| `UnpackingScheduler` | `unpacking_scheduler.py`, with the part of `unpack.py`, `extraction_container.py` and `db_interface_backend.py` that it drives | one action per section between two points at which another thread or process can intervene |
| `AnalysisStatus` | `analysis_status.py` | with its senders: the threads of the unpacking, the analysis processes, the listeners that update and cancel; requests for one firmware may overlap |
| `PluginRunner` | what a plugin promises to the analysis scheduler | abstract specification |
| `PluginWorker` | `analysis/plugin.py` | implements `PluginRunner` (`Runner == INSTANCE PluginRunner WITH ...`) |
| `AnalysisPlugins` | what both schedulers of analyses know of plugins | dependencies, closures, lists that can be run |
| `AnalysisTaskScheduler` | `task_scheduler.py` | every dependency graph is an initial state |
| `AnalysisScheduler` | `analysis/scheduler.py` | uses the promises of `PluginRunner` and of `AnalysisTaskScheduler`, and the part of `AnalysisStatus` it reads |
| `FirmwareStore` | tables, file store, unpacking locks; uploads, unpacking, deletion, repeated analysis, the listener that removes files | composes what `UnpackingScheduler` does to rows and files with the front end and the intercom |
| `Intercom` | requests and responses over Redis, chunks, single file updates | |
| `Comparison` | routes, queue, worker, rows of comparisons; images deleted and uploaded meanwhile | |
| `Supervision` | the starter, signals, the main loop, the order of the shutdown, jobs in the queues | |
| `Supervisor` | `check_worker_exceptions`, `check_exceptions` | what a round of calls would do: the main loop makes none |
| `QemuExec` | the thread pool of the plugin qemu_exec and what is shown of its results | |
| `FileSystemMetadata`, `SoftwareVulnerabilities` | plugins file_system_metadata; software_components, cve_lookup and known_vulnerabilities | |
| `StoredFiles`, `FileTree` | `db_interface_common.py`, `db_interface_frontend.py`: paths, summaries, tags, links; the tree, the dependency graph, the hex view | |
| `Search` | `query_conversion.py`, the search routes, paging; the binary search | |
| `ComparePlugins`, `ConfigFiles` | `compare.py`, the plugins File_Coverage, Software, File_Header and the list of changed files; file_config | |
| `Statistics` | `statistic/`, charts | |
| `FirmwareRecords`, `Migration` | forms, REST, conversion to rows and back, export and import; set-up, revisions, the migration from MongoDB | |
| `Users`, `CompareBasket` | the terminal program and the pages on one database, and the order of roles; the basket in the cookie | |
| `Inputs` | the one call of a pure function | extended by the modules of functions |
| `UnpackingSchedulerProofs`, `AnalysisStatusProofs`, `FirmwareStoreProofs`, `IntercomProofs`, `SupervisionProofs` | theorems about the module they are named after | section 4 |
| `AnalysisSchedulerProofs`, `PluginWorkerProofs`, `WebInterfaceProofs` | theorems about `AnalysisTaskScheduler` and `AnalysisScheduler`; `PluginWorker` and `QemuExec`; `Comparison`, `CompareBasket` and `Users` | section 4 |
| `MC*` | small instances | model values, constant definitions; `MCAlgorithms` joins the modules of functions, the task scheduler among them, and states properties that span several of them. `PluginWorker` and `Supervision` need none |

Definitions whose comment begins with *Mutant:* are not part of the model: each is a plausible
bug in the definition that follows, used to see that a property would notice it.

### State and atomicity

* **UnpackingScheduler.** A key of `currently_extracted` is an element of `entries`, its value the
  function `currently_extracted`. The manager process makes each *call* atomic, so `cancel_unpacking`
  is two actions (`CancelCheck`, `CancelPop`) and the update of an entry is a read (`GetEntry`) and a
  write (`StoreEntry`) under `sync_lock`. `add_object` is a query and then an insert or an update.
  A work thread is a record with its phase, its task, the list `extracted_objects` (`out`) and its copy
  of the entry. A file that is found is described by the uid, its root, its parent and its depth; paths
  are abstracted to the link from parent to child. `hist` is history only and read by no action.
* **AnalysisStatus.** A `multiprocessing.Queue` keeps the order of the messages of one process only
  (each has a feeder thread), so the queue is a family of sequences. `add_update` sends two messages. The senders take steps of their own.
  A task of the unpacking goes through the stages of `work_thread`; `tasks` counts how many tasks of a file are at each stage, so that a file
  is reported once for every entry its firmware has in `currently_extracted`, and again after a second upload. An upload
  of a firmware whose entry is still there keeps it (`_init_currently_unpacked`), an update takes the files that the database knows at
  that moment, and a cancel drops what it finds. `round` is history: how many requests of a firmware overlap, what was analysed since
  the first of them (`analysed`), whether an update came before all files were stored (`early`), and which messages went unnoticed (`lost`).
* **PluginWorker.** `pc` names the statements of `Worker.run`. A SIGTERM can come between any two of them;
  its handler drains the pipe and raises into the code that it interrupted. The pipe belongs to the worker
  and not to the child, as in the code.
* **AnalysisTaskScheduler.** The two loops are actions; a shuffle is any sequence that holds
  the wave once. A plugin that is not loaded makes the call fail, as the `KeyError` does.
* **AnalysisScheduler.** A job is a file object on its way: its place, list and results. A row has its kind
  (`ok` or the reason why there is no result), its date and whether it is of the current plugin version.
  A result of an older version is `old` when it is loaded: it may or may not fit the plugin's present
  schema, so that `queue_analysis` may raise a `ValidationError` (`SkipInvalid`) or not (`QueueAnalysis`). The branch *Plugin not available*
  (`analysis/scheduler.py:330-332`) is left out: `schedule_analysis_tasks` raises a `KeyError` for a plugin that is not loaded, and the
  one list that does not come from it is that of an updated firmware itself, whose job only passes over such a plugin.
* **FirmwareStore.** A database session is one action, with the cascades and the event listener that
  deletes orphans in it. The deletion of a firmware is a transaction and then a message; the listener asks
  for the rows once per message and then looks at the lock of each file before it removes it. The bookkeeping of
  the unpacking is reduced to the order of its effects; an entry that is there already is kept (`Start`). `add_object` is session by session: `Exists`,
  then `InsertObject` or `UpdateObject`, and for a row that is there `UpdateFirmware` and `UpdateFileObject`. A row can come or go between two
  of them: an insert is then refused, an update only logged (the file is analysed without a row), and `update_firmware` raises an `AttributeError`
  that ends the work thread and leaves the entry behind.
* **Intercom.** Each Redis command is an action. A value in chunks is written key by key, and a key is looked for in one
  command and set in another. A client polls, and may stop at any poll (its timeout). The responder is a thread
  of its own, next to the processing of the listener.
* **Comparison.** A database session is an action, so the check for the objects, the reading of each of them, and the
  insert are apart. Compare ids keep which uids they have and how many. An object has the number of the upload it
  is from, so that a comparison of an earlier upload can be told from one of the present.
* **Supervision.** Jobs move from place to place by the processes. A stop condition is looked at in one step and a job is taken in another, so that a
  process that has looked before the condition was set (`checked`) takes one more. What is in the queues in memory is gone when the main process is. The
  shutdown is a sequence of stages in the order of the code, each with its own way to wait for processes.
* **Modules of functions.** A function of FACT is an operator; an action chooses its input (`Inputs!Choose`), and the
  properties are invariants on the input that was chosen. Scripts that can be interrupted take the number of steps
  after which they are; the operators of those that repeat a run fold over the steps. Users, the compare basket and
  qemu_exec keep state of their own: their actions read, wait and write as the code does. In `Users` the read of a user and its roles and the commit
  are two steps, as SQLite begins a transaction with the first write. A response of `CompareBasket` sets the cookie when the session was
  modified, also by a uid that is there already. The repeated analysis of `FirmwareRecords` gets the binary, an empty one, none, or no answer
  in time, with or without a file name and with a date that may be malformed. `schedule_analysis_tasks` is called with any
  of its inputs and takes the steps of `AnalysisTaskScheduler`.

## 3. Runs

Properties that belong together are one definition whose conjuncts are named; the names are in brackets.

| Run | Instance | Properties |
|---|---|---|
| `unpack` | one firmware with a diamond and a cycle and two containers; either uploaded twice with one cancel request and one failure, or once with two failures, a container that vanishes and a shutdown (the constraint `Combined`) | `UnpackedOnce` (`TypeOK`, `TasksAreTracked`, `OneTaskPerFile`, `AnalysedOncePerUpload`, `CompletedIsStored`), `NothingIsStranded` (`RemainingHasTask`, `LinksNotForgotten`), `StoredBeforeUse`, `ContainersAreFresh`, `UpdatesAreNotLost`, `CancelUndoneOnlyByOverlap` |
| `unpack_liveness` | two uploads that share a file, one contained in the other, no failures, throttling | `CompletedIsStored`, `EverythingIsUnpacked` |
| `status` | a firmware with a file that contains the firmware again; three requests out of two uploads, an update and a cancel; a file that cannot be stored; one analysis process | `DisplayIsConsistent` (`TypeOK`, `StagesAreDisjoint`, `CountersMatchFiles`), `FinishedMeansAnalysed`, `WorkerDiesOnlyByOverlap`, `NeverEndsOnlyByOverlap` |
| `worker` | two workers, two tasks, ring of two slots, shutdown | `WorkerIsSound` (`TypeOK`, `StatsAreWritten`, `NoChildIsLeft`), `MixedUpOnlyAfterLateResult`, `RefinesPluginRunner`, `EveryTaskComesOut` |
| `analysis` | an upload, an update, two concurrent updates of one file, an update and a single-file request of one image, requests for two files, six states of the database, two failures, a cancel | `ResultsAreSound` (`TypeOK`, `SkippedForAReason`, `CompletedHasResults`, `CompletedIsUpToDate`), `SkipsAreNotSticky`, `DroppedOnlyIfCancelledOrEarly`, `EveryJobEnds` |
| `store` | three images: two share a file, the third contains one of them and the file a second time; one or two work threads | `RowsAreSound` (`TypeOK`, `NoOrphans`, `FirmwareIsComplete`), `FilesMatchRows` (`ContentKept`, `NothingLeaks`) |
| `intercom` | pairs of concurrent requests: two updates of one file, two downloads in chunks, a download and a diff of a missing file; three chunk keys | `ResponsesAreSound` (`TypeOK`, `OwnResponse`, `TrueMeansAnalysed`, `NothingIsLeft`), `EveryRequestIsAnswered` |
| `comparison` | two images that share a file, one of them with a file of its own; three requests, one deletion, upload, failure and restart | `ComparisonsAreSound` (`TypeOK`, `RowsAreFound`, `NoDanglingComparison`, `ComparisonIsCurrent`), `WaitingEnds` |
| `supervision` | two jobs, at most one process that hangs, started by the starter or from a shell | `ShutdownIsOrderly` (`TypeOK`, `NoProcessIsLeft`, `ManagersOutliveUsers`), `JobsAreKept` (`LostByTheStopOnly`, `OneMoreAtMost`, `RedisIsKept`, `NothingInBetween`), `StoppingEnds` |
| `algorithms` | the inputs of `MCAlgorithms`; of the task scheduler all graphs over four plugins in which `file_type` has no dependency, and all requests | `ScheduleIsSound` (`DependenciesRunFirst`, `NoPluginTwice`, `NothingIsForgotten`, `FileTypeFirst`), `SchedulingEnds`, `QemuResultsAreShown`, `FindingsAreRight`, `ContentIsShown`, `SearchesFindMatches`, `DifferencesAreShown`, `RecordsSurvive`, `DeadProcessesAreReplaced`, `AccountsAreConsistent` (`TerminalEndsOnlyWhenRaced`, `EditsGiveTheSelection`, `LinksStayClean`, `PageEditsItsUser`, `NamedUsersGo`), `BasketIsKept` |
| `conditions` | the searches of `algorithms` | `EveryConditionCounts`, violated |
| `terminated` | the lists of processes of `algorithms` | `DeadAreTerminated`, violated |

All of them hold but those of the last two runs, which state what the repository says of the code and the code does not do:

* `conditions`: the page of the advanced search refers users to the query language of MongoDB, in which every condition and every operator of a query
  must hold. `query_conversion.py:76-81` applies all conditions on analyses to one row of the join, so that a search for results of two plugins finds nothing, and
  `:115-130` takes the first operator it knows of several. `SearchesFindMatches`, which holds, is about the other queries.
* `terminated`: the docstring of `check_worker_exceptions` says that a process with an exception is terminated with its children. The loop removes
  elements from the list it iterates over (`helperFunctions/process.py:172`), so that the one after a dead process is skipped.
  `DeadProcessesAreReplaced`, which holds, says what a round achieves all the same.

### Where the code falls short, and how the properties say so

A property that the code does not have without exception names the exception, as narrowly as TLC allows it.
What a reader should know of:

* *A cancelled unpacking can come back.* `cancel_unpacking` (`scheduler/unpacking_scheduler.py:343`) takes no lock: an update that has
  read the entry writes it back. `CancelUndoneOnlyByOverlap` says that this is the only way.
* *The status worker can die.* A cancel, or the end of an earlier analysis, between the two messages of `add_update` makes
  `analysis_status.py:152` raise a `KeyError`, and nothing restarts the worker (`WorkerDiesOnlyByOverlap`).
* *A firmware can be shown as running for ever.* A message about the end of an analysis can overtake the one that announces the file, or two requests
  overlap and the second one waits for files that the first has done (`NeverEndsOnlyByOverlap`). An update of a firmware that is still unpacked forgets the files to
  come and is finished without them (`FinishedMeansAnalysed`: `early`).
* *A late result is taken for that of the next task.* A child that answers between its timeout and its kill leaves the answer in
  the pipe of the worker (`analysis/plugin.py:229`, `MixedUpOnlyAfterLateResult`).
* *A file can be dropped as cancelled because the status worker is late* (`analysis/scheduler.py:548`, `DroppedOnlyIfCancelledOrEarly`).
* *The list of an updated firmware itself is not ordered by dependencies* (`analysis/scheduler.py:174`), so that analyses are skipped before
  their dependencies ran: `SkippedForAReason` and `CompletedIsUpToDate` make no claim about the job of that update.
* *Two jobs on one file can store rows out of order.* The date of a result is taken when the plugin ends and stored when it is collected
  (`analysis/scheduler.py`, `_result_collector`); a row of the other job can come in between with a later date, and then a row counts as
  up to date that was computed from an older one. `CompletedIsUpToDate` and `SkipsAreNotSticky` are about jobs that are alone on their file (`Alone`).
* *Unpacking locks are a set.* Two images that unpack a file share its lock, and a file that is found again after its analysis
  keeps it, as does one of an image that is unpacked twice at the same time (`FilesMatchRows`: `hist.raced`, `hist.refound`, `hist.overlapped`). An image found in another one loses `is_firmware`
  (`RowsAreSound`: `OfMixed`).
* *`add_object` is not one transaction.* A row that is deleted after `exists()` found it is not written again, and the file goes to the analysis although
  `scheduler/unpacking_scheduler.py:218` says *save FO before submitting to analysis scheduler*; a row that someone else inserts makes the insert fail (`FirmwareIsComplete`, `NothingLeaks`: `hist.interrupted`).
* *Redis.* Two processes can choose one chunk key; chunks of clients that gave up are never freed; a response that is `None` is
  taken for none (`ResponsesAreSound`, `EveryRequestIsAnswered`).
* *Comparisons.* One that failed or whose row was deleted is not computed again before a restart (`WaitingEnds`); orphans leave
  their comparisons behind (`NoDanglingComparison`).
* *Shutdown.* The intercom's manager goes before its listeners; a comparison that hangs is waited for unless the starter kills the
  back end (`ShutdownIsOrderly`, `StoppingEnds`). The result collectors leave on the stop condition of the task runners, before the plugins have stopped, although the
  comment at `scheduler/analysis/scheduler.py:142` has them last: results that come out later go with the queue (`LostByTheStopOnly`).
* *A firmware that is to be analysed again is deleted first* (`web_interface/components/analysis_routes.py:182`), and is gone for good if its file is not on the disk, the form has
  no name or the date cannot be parsed (`RecordsSurvive`: `RedoKeepsTheFirmware`).
* *Edits of users overlap.* The terminal program and the pages write what they computed from an earlier read: a link twice, or one to a user that has the id of a deleted one
  (`AccountsAreConsistent` says that nobody else wrote in between otherwise).
* *Functions.* The comment of each part of the properties of `algorithms` names the inputs on which the result is not the
  expected one: for example rules on items that lack a key, forms that are
  escaped twice, an import below an orphan, a downgrade with a `|` in a path.

### Bounds, and why they suffice

* `MaxSubmissions`, `MaxFailures`, `MaxCancels`, `MaxDeaths`, `MaxStops` (unpacking). The bookkeeping has
  three cases for a file that is found (new, in progress, done) and a duplicate parent for each of them: the
  diamond `image -> a, b -> other` with two containers gives the first two, the cycle `other -> a` the
  third, and `MaxDepth = 3` lets the cycle run into the depth limit. One failure per kind of error and
  two together suffice for a failed parent with a failed child. Two containers are two work threads; all
  races are between a pair of threads, or a thread and the cancelling process. Containers are symmetric. `Combined` keeps the faults apart from the
  second upload: with all of them at once the instance is too large, and the entry of a second upload is a new one.
* `MaxRequests = 3`, `MaxUploads = 2`, `MaxFailures = 1`, `MaxReports = 1` (status). The races are between the messages of two requests, and a third one finds what they left;
  an upload, an update and a cancel are one of the combinations. The file that contains its firmware is the cycle in which a file is found that is done already. The theorems hold for any number of files, processes and requests.
* Two tasks, two workers, `StatsLimit = 2` (worker). A result can only be mixed up with the next task
  of the same worker, and a ring of two slots is full after two tasks.
* Four plugins (task scheduler): two mandatory ones and two that may form a cycle, depend on each other, on the
  mandatory ones, or on one that is not loaded.
* Three plugins in a chain besides `file_type` (analysis), one with and one without a list of file types,
  so that a failure has a direct and an indirect dependent.
* `Budgets` (store): five combinations of one or two work threads with at most two uploads, a deletion, a repeated analysis and a cancel.
  With one thread: two uploads and a deletion; an upload, a deletion and a repeated analysis; an upload, a repeated analysis and a cancel. With two:
  an upload, a deletion and a cancel; two uploads and a cancel. Every race is between one unpacking and one deletion, between two unpackings
  that share a file, or between two threads of one image that find the same file. The third image is there for a file that is an image itself.
  The proofs hold for any number of each.
* `Scenarios`, `ChunkKeys`, `MaxErrors = 1` (intercom): two updates of one file for the shared event, two downloads of two chunks
  with three keys for the collision and for the lack of keys.
* `MaxRequests = 3` and one of each fault (comparison): a request, its repetition, and one after a fault.
* Two jobs and at most one stuck process (supervision): one job in work and one waiting; what one hanging process can
  hold up is seen with one.
* algorithms: the sets in `MCAlgorithms` hold each case that the code distinguishes, and pairs of them where
  elements interact; two sessions and the terminal with three operations on users (two that overlap, and one that finds what they left), two tabs, and interruptions after 0 to 7 steps,
  more than a set-up has.

### Deadlock

It is checked for the unpacking without faults (`unpack_liveness`), where it says little: the work load monitor runs for ever,
so some step is always possible. That nobody waits for ever there is what `EverythingIsUnpacked` shows. It is not checked where the system really may stop:
after a shutdown or after the loop died (`unpack`, `supervision`), when no more requests come (`status`, `worker`,
`analysis`, `store`, `intercom`, `comparison`), or when the call has returned (`algorithms`).

### Fairness

* `unpack_liveness`: weak fairness of the loop, of `check_pending` and of each work thread (they are
  threads and processes that poll). Strong fairness of the steps that wait for `sync_lock` (the semaphore
  is held only for an update that never waits for anything else) and of `ScheduleFile`, whose loop polls the
  throttle. The monitor lifts the throttle again and again because the analysis works off its queue; weak
  fairness of `WorkLoadMonitor(0)` says so.
* `worker`: weak fairness of the workers only; `poll` returns after its timeout. Nothing is assumed of the
  child processes.
* `algorithms`: a call of `schedule_analysis_tasks` runs on.
* `analysis`: task runners, collectors and plugins run; that a plugin always answers is what `worker` shows.
* `intercom`: listeners, responders and the polls of the clients run; a wait for an event ends after its timeout. Nothing is
  assumed of the analysis, and no client has to time out.
* `comparison`: the listener and the worker run. Users, failures and restarts are not fair.
* `supervision`: the starter, the main process and every process that does not hang run; nothing is assumed of those that hang.

## 4. Proofs

TLAPS checks the following for every value of the constants, from one named assumption per module (`ConstantsAssumption`,
`StatusConstants`, `WorkerConstants`, `PluginsAssumption`, `GraphsAssumption`, `SchedulerConstants`, `StoreConstants`, `IntercomConstants`,
`ComparisonConstants`, `BasketConstants`, `UsersConstants`, `SupervisionConstants`), which TLC evaluates in each run. They say what type a constant has and what the code takes for granted: the number
of containers, workers, tasks and files is finite, a file is not among the files found in it (status), `Reachable` is the closure of `Content`, `file_type` has no
dependency, the mandatory plugins include what they depend on, the rows that the database starts with are older than those of the run, the answer to a
single file request fits into one value, and a database of users starts with unique names and each role held once. The bounds of the runs are natural numbers of any size.

A theorem `Spec => []Inv` is proved from an inductive invariant that is stated at the head of the module; each action has a step
of its own, and what an action leaves alone is a lemma of its own.

**Unpacking scheduler** (`UnpackingSchedulerProofs`)

* `TypeCorrect`: `[]TypeOK`. `TypeOK` is not inductive: a queued task is at most `max_depth` deep because a thread with files to queue is not at
  the limit itself (`FilesBelowLimit`).
* `ParentsAreStored`: `[]StoredBeforeUse`. That the root and parent of a *queued* file have rows rests on the threads that still *hold* it: one
  with files to queue has stored its own file, and its firmware before (`Stored`). When `add_object` fails the list is emptied, which is what keeps
  this inductive.
* `FreshContainers`: `[]ContainersAreFresh`. `ContainersFree`: the container that runs is the one whose id is stored, or none does, and the exception
  flag is only set while the container is among the pending tasks.
* `NoLostUpdate`: the action property `UpdatesAreNotLost`. `EntryIsHeld`: a thread between read and write back has `sync_lock`, and its copy is still
  the entry, unless the firmware was cancelled.
* `CancelHolds`: the action property `CancelUndoneOnlyByOverlap`, from the same invariant.
* `NothingStranded` and `CompletionIsTrue`: `[]NothingIsStranded`, `[]CompletedIsStored`. The invariant `Bookkeeping` relates an entry to queue and threads:
  a file that has a task is in `remaining` (`Tracked`), has it in one place only (`Single`), a firmware stays in its own entry (`RootIsKnown`), what remains
  has a task or lost it in a crash or a stop (`RemainingHasTask`), and every link that was found is stored, lost to an error, or carried by a task or
  by `delayed_vfp_update` (`LinkHasCarrier`). None of them is inductive alone: a link can be left to a task only because the task is the only one.
* `OncePerUpload`: `[]UnpackedOnce`. `Counted` adds to the above that the analyses of a file, those still to come and the entries that may
  still be made are together no more than the uploads.

**Analysis status** (`AnalysisStatusProofs`)

* `ConsistentDisplay`: `[]DisplayIsConsistent`. The counters are those of the sets because the sets of a status are disjoint and each message moves a file
  by one stage (`Consistent`).
* `FinishedIsTrue`, `DeadWorkerIsExplained`: the action properties `FinishedMeansAnalysed`, `WorkerDiesOnlyByOverlap`, for any uploads, updates and cancels that overlap.
  `StatusInv` says what a message on its way is worth (`MessagesTrue`), that tasks and updates stay within the firmware (`TasksInside`, `UpdateTrue`), that a status which is not of an
  `early` round knows whatever is contained in a file that it has seen (`StatusTrue`), that the two messages of an update come in a pair (`UpdatePairs`), and what may be on its
  way when only one request is (`Sole`) or none was made (`IdleUntilRequested`). As `Reachable` is the
  least set that holds what its files contain, nothing is left to wait for only when everything was analysed.

**Plugin workers** (`PluginWorkerProofs`)

* `SoundWorkers`: `[]WorkerIsSound`. `RingInv`: the lock is held between the two halves of `_update_duration_stats`, and until the ring is full its index is its
  count. `ChildrenOfWorkers`: a child that is alive belongs to the task of its worker.
* `ResultsStayApart`: `[]MixedUpOnlyAfterLateResult`. As long as no result was late the pipe holds at most the result of the child that runs, and is
  empty where no one waits for it (`NotMixedUp`).
* `WorkersImplementRunner`: `Spec => RefinesPluginRunner`, step by step: each action is a step of `PluginRunner` under the refinement mapping, or a stutter.
  `HandoverInv`: a task waits, is with one worker, or came out, and never two of these.

* `QemuResultsLostOnlyByOverlap`: `[]ResultsLostOnlyByOverlap` of `QemuExec`, the first part of `QemuResultsAreShown`. `QemuInv`: once the result of a job is in the
  dictionary and no other job of the file was between its look and its write (`Safe`), it is in the dictionary and in every copy that will be written back (`Kept`).

**Task scheduler and analysis scheduler** (`AnalysisSchedulerProofs`)

* `ScheduleCorrect`: `[]ScheduleIsSound`, from `DependenciesFirst`, `EachPluginOnce`, `NothingForgotten` and `FileTypeAtEnd`, for every finite set of plugins and
  every graph. The invariant `TaskIInv` says that the list so far is ordered and without duplicates, that what remains is not in it (the waves are
  disjoint), that what is wanted is in one of both, and that after the loop no plugin is ready. `ShuffledFacts` uses the pigeonhole principle (a shuffle
  maps onto a wave of the same size, so it is one to one).
* `SchedulesAreWhatIsScheduled`: the link between the two modules. For an acyclic graph the list that `schedule_analysis_tasks` returns is one of those
  that `AnalysisScheduler` starts jobs with: exactly the closure of the request and the mandatory plugins (`TaskPlan`), in an order that can be run.
* `ResultsAreSoundAlways`: `[]ResultsAreSound`, for any plugins, files, jobs and rows to begin with. `JobInv` is a conjunction for each job: what its place says of it
  (`PlaceInv`), that its list holds each plugin once and dependencies behind their dependents (`ListInv`), that every plugin of the plan is still to do, with its
  plugin, or dealt with in the results *and* the rows (`PlanInv`), and, for a job alone on its file, that what was dealt with is up to date unless something below it
  failed (`FreshInv`) and that dates of rows lie behind that of a result on its way (`DateInv`). A step concerns one job; `OthersKeep` says what the others need of it.
* `SkipsAreNotStickyEver`: the action property `SkipsAreNotSticky`. `SkipInv` relates the results that a job carries to the rows they were read from, so that a plugin
  that is skipped as *missing* has a dependency whose row is no result either, or that is to be done again (`MissingForAReason`).
* `DroppedOnlyIfCancelledOrEarlyEver`: the action property `DroppedOnlyIfCancelledOrEarly`. `StatusInv`: the files of a firmware come after the job that announces it,
  so the firmware is announced, has a status or was cancelled until its jobs are through.

**Store** (`FirmwareStoreProofs`). The invariant `StoreInv` has four layers, each resting on the one before.

* `RowsFit`: `[]RowsAreSound`. `TablesInv`: all that is done for an image concerns its files (`WithinFiles`), an entry has tasks for what remains, the process that
  deletes knows every file of its image, and a file that is analysed or done has a row with its image unless the image was interrupted (`RowsKept`).
  `is_firmware` is only set for rows, and for one without an entry of its own only where an image was found in another one (`MixedAreKnown`).
  `CompleteInv`: what was found in a file that is done is done or remains, so that an undisturbed image is whole when nothing remains.
* `FilesFit`: `[]FilesMatchRows`. `RemovalsAreRaces` and `ContentInv`: whatever the listener is about to remove is neither locked nor in its answer from the
  database, or is one of the races. `LeakInv`: a lock has an analysis that will release it or a task that leads to one, and a file without a row has someone who
  stores the row or removes the file; this needs that each file has one task per image (`OneTaskEach`), which is true unless an image is unpacked
  twice at the same time. An entry without a task is that of a thread that died in `update_firmware`. The sessions of `add_object` have a lemma in common (`AddStep`), and another
  one says that a row which came or went between them interrupts the image (`FailureInterrupts`).

**Intercom** (`IntercomProofs`)

* `SoundResponses`: `[]ResponsesAreSound`. A request is in its list once and before its thread starts (`InOrder`); a response is with its thread, under its key
  or with the client (`OneResponse`); each chunk is held by the request it belongs to, and the keys of one request differ (`ChunksAreOwn`, unless two threads chose one key);
  `True` comes from a finished analysis of the file (`AnswersAreTrue`).

**Comparisons, basket and accounts** (`WebInterfaceProofs`)

* `SoundComparisons`: `[]ComparisonsAreSound`. What is worked on was asked for and names each uid once (`IdsAreAsked`); what the worker has read is of the present upload, or
  the object was replaced meanwhile (`WorkerReads`); a row lists its objects but for orphans (`RowsListObjects`).
* `BasketIsKeptAlways`: `BasketSpec => BasketIsKept`, two action properties. `BasketInv`: whatever is in the cookie was there when a request was sent or was added since
  then, so that a response, which replaces the cookie by what its own request carried, can only lose what came later or what it was asked to take.
* `AccountsAlwaysConsistent`: `UsersSpec => AccountsAreConsistent`, five action properties, with the read and the commit of every edit as steps of their own. `UsersInv` says of every client that what it has read is
  still in the tables or was written by someone else meanwhile (`TerminalKnows`, `SessionKnows`), next to unique user names and well-formed
  tables (`TablesInv`, `ClientsInv`). It is inductive because every statement tells those that wait exactly what it changes: `Effect(rows)` bounds what a statement with
  these rows does to users and links, `Notes` says who is told, and `OthersKnow` combines them.

**Supervision** (`SupervisionProofs`)

* `OrderlyShutdown`: `[]ShutdownIsOrderly`. `ShutdownInv`: what a stage of the shutdown has ended stays ended in the stages behind it (`StagesEndProcesses`), and nobody is
  told to stop before the flag of the main loop is cleared (`RunEndsFirst`). The last stage leaves no process because the stages before it left only those
  it waits for.
* `JobsSurvive`: `JobsAreKept`. To the invariant `JobsInv` adds who can hold a job (`HoldersRun`), that a job taken after the stop condition was set is the one for which its process had looked before
  (`LateJobs`), and where jobs can be when the main process is gone (`JobsAreDone`).

### Only model-checked

* Liveness (`EverythingIsUnpacked`, `EveryTaskComesOut`, `SchedulingEnds`, `EveryJobEnds`, `EveryRequestIsAnswered`, `WaitingEnds`, `StoppingEnds`): fairness
  is beyond the prover.
* `NeverEndsOnlyByOverlap`: that nothing is under way for a firmware is a condition on all queues and tasks, and its proof would take a count of the messages that
  each file is still owed.
* The properties of `algorithms` but `AccountsAreConsistent`, `BasketIsKept` and the first part of `QemuResultsAreShown`. They compare what a function computes for
  an input with a definition without recursion, and the function is recursive or a fold over a list: to show that for every input takes an induction over the data, which
  the prover cannot do. The other two parts of `QemuResultsAreShown` (`ExecutableIsShown`, `MergeIsByOutput`) are of this kind.

## 5. Not modelled

Parts that are left out are listed in `PROJECT.json` with the reason. The installation and the configuration are input and output of
the host. Of the plugins, those are left out that call an external tool and store what it prints (they are
covered by what `PluginRunner` promises), and of the front end the rendering of pages, which keeps no state and decides nothing.
Within the modelled parts: logging and
display, time stamps (but for the order of analysis dates), the cleaning of temporary directories, a message of a child that
is cut off in the middle of a send, the contents of files and results where nothing depends on them, the change of the own password,
the SQL types and indexes of the schema, and the formats of archives. `check_exceptions` is modelled in `Supervisor` by what a call would do, since
the main loop does not call it. Rows are never deleted while a firmware is unpacked in `UnpackingScheduler`; they are in `FirmwareStore`.

## 6. Plan

The core (unpacking, status, plugins, scheduling, analysis), the store, the intercom, comparisons, the supervision and the modules of functions are
modelled. The safety properties of every state machine of the back end are proved, and of the modules of functions those that are about steps of several
actors (the basket, accounts, threads of qemu_exec). What is left:

1. Functions. `ComparePlugins`, `Statistics`, `Migration` and the like stay with TLC. A larger sample of their inputs, chosen by the cases of the code, is what would add to them.
2. `CompletedIsUpToDate` for several jobs on one file, should the code store the date at which a result is written.
3. Liveness: the runs cover it on small instances; a proof has to wait for a prover that handles fairness.
