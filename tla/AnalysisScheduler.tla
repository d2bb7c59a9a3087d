-------------------------- MODULE AnalysisScheduler --------------------------
(***************************************************************************)
(* The analysis scheduler (src/src/scheduler/analysis/scheduler.py).       *)
(*                                                                         *)
(* A job is a file object on its way through the plugins: the scheduler    *)
(* keeps no other state about it, the object itself carries the list       *)
(* scheduled_analysis and the results so far from queue to queue.  Task    *)
(* runners take jobs from process_queue and skip the next analysis or      *)
(* queue it with its plugin; the plugin (as PluginRunner promises) hands   *)
(* the job back with a result or an exception; collectors store it and put *)
(* the job into process_queue again.  Several jobs may be about the same   *)
(* file, since firmware images share files and users update analyses.      *)
(*                                                                         *)
(* The status worker is represented by what matters here: the dict         *)
(* currently_analyzed that it fills some time after it is told to.         *)
(***************************************************************************)
EXTENDS AnalysisPlugins

CONSTANTS
    Deps,         \* Deps[p]: the dependencies of p; all plugins are loaded
    Listed,       \* the plugins with a black- or whitelist of file types
    Unsuitable,   \* pairs <<p, uid>>: the type of uid is black- (not white-)listed
    Uids,         \* files
    Jobs,         \* the analyses of files that may be requested
    Scenarios,    \* sets of jobs: what is requested in one behaviour
    Uid,          \* Uid[j]: the file of j
    Root,         \* Root[j]: root_uid of j, or NoRoot
    Entry,        \* Entry[j]: "firmware" or "file" (start_analysis_of_object),
                  \* "update" or "update_file" (update_analysis_of_object_and_children),
                  \* "single" (update_analysis_of_single_object)
    Forced,       \* the jobs with force_update
    Requested,    \* Requested[j]: the plugins that were asked for
    Databases,    \* what may be in the database at the start
    Runners,      \* config scheduling_worker_count
    MaxFailures,  \* bound: analyses that fail
    MaxCancels,   \* bound: cancelled firmware analyses
    NoRoot        \* None

Closed(set) == \A p \in set : Deps[p] \subseteq set

\* Closure(set): what _add_dependencies_recursively makes of a set
Closure(set) ==
    {p \in Plugins : \A t \in SUBSET Plugins : set \subseteq t /\ Closed(t) => p \in t}

\* a result: the plugin's, or the reason why it was skipped or failed
Kinds == {"none", "ok", "blacklisted", "missing", "invalid", "failed"}
Record == [kind: Kinds, date: Nat, current: {0, 1}]
FirstDate == 3   \* rows that are there at the start are older
NoRecord == [kind |-> "none", date |-> 0, current |-> 0]

ASSUME SchedulerConstants ==
    /\ Deps \in [Plugins -> SUBSET Plugins]
    /\ Closed(Mandatory)
    /\ Deps[FileType] = {}
    /\ Listed \subseteq Plugins
    /\ Unsuitable \subseteq Listed \X Uids
    /\ Uid \in [Jobs -> Uids]
    /\ Root \in [Jobs -> Uids \cup {NoRoot}]
    /\ Entry \in [Jobs -> {"firmware", "file", "update", "update_file", "single"}]
    /\ \A j \in Jobs : Root[j] = NoRoot <=> Entry[j] = "single"
    /\ Forced \subseteq Jobs
    /\ Requested \in [Jobs -> SUBSET Plugins]
    /\ Scenarios \subseteq SUBSET Jobs
    /\ Databases \subseteq [Uids -> [Plugins -> Record]]
    /\ \A rows \in Databases, uid \in Uids, p \in Plugins : rows[uid][p].date < FirstDate
    /\ Runners \in Nat /\ MaxFailures \in Nat /\ MaxCancels \in Nat

VARIABLES
    job,          \* per job: its place, list, results and the plugin it is with
    db,           \* the analysis rows: db[uid][p]
    clock,        \* clock[uid]: the time of the next result, for analysis_date
    announced,    \* firmware whose add_firmware message is on its way
    analyzed,     \* currently_analyzed: the firmware with a status
    runners,      \* task runners that are alive
    cancelled,    \* history: firmware that was cancelled
    requests,     \* the scenario
    failures      \* what is left of MaxFailures

vars == <<job, db, clock, announced, analyzed, runners, cancelled, requests, failures>>

\* s without the members of a set: the others, in the order of s
Without(s, set) ==
    {t \in Shuffled(Elements(s) \ set) :
        \A i, k \in 1..Len(t) : i < k =>
            \E m, n \in 1..Len(s) : m < n /\ s[m] = t[i] /\ s[n] = t[k]}

\* what schedule_analysis_tasks returns (see AnalysisTaskScheduler): each plugin
\* once, dependencies behind their dependents, file_type last
Schedules(set) ==
    {s \in Shuffled(set) :
        /\ FileType \in set => s[Len(s)] = FileType
        /\ \A i \in 1..Len(s) : \A d \in Deps[s[i]] : \E k \in i + 1..Len(s) : s[k] = d}

\* the plugins that a job is to run
Plan(j) ==
    IF Entry[j] = "single" THEN Closure(Requested[j]) ELSE Closure(Requested[j]) \cup Mandatory

\* the results of a file object that comes from the database: one of an earlier
\* version of the plugin is "old", as it may not fit the plugin's schema any more
Loaded(row) == IF row.kind = "ok" /\ row.current = 0 THEN "old" ELSE row.kind

Init ==
    /\ job = [j \in Jobs |-> [place |-> "new", scheduled |-> <<>>, plugin |-> FileType,
                              processed |-> [p \in Plugins |-> "none"],
                              exception |-> 0, date |-> 0]]
    /\ db \in Databases
    /\ clock = [uid \in Uids |-> FirstDate]
    /\ announced = {}
    /\ analyzed = {}
    /\ runners = Runners
    /\ cancelled = {}
    /\ requests \in Scenarios
    /\ failures = MaxFailures

-----------------------------------------------------------------------------
\* Mutant: the status is looked up by the uid of the file only
ContinuesByUid(j) ==
    Entry[j] \in {"firmware", "update", "single"} \/ Uid[j] \in analyzed

\* a firmware, a single file, or a file whose firmware has a status
Continues(j) ==
    \/ Entry[j] \in {"firmware", "update", "single"}
    \/ {Root[j], Uid[j]} \cap analyzed # {}

\* _check_further_process_or_complete: where a job goes with the given list
Place(j, list) ==
    IF list = <<>> THEN "completed" ELSE IF Continues(j) THEN "process_queue" ELSE "dropped"

New(j) == j \in requests /\ job[j].place = "new"

Schedule(j, processed) ==
    /\ \E list \in Schedules(Plan(j)) :
          job' = [job EXCEPT ![j].scheduled = list, ![j].place = Place(j, list),
                             ![j].processed = processed]
    /\ UNCHANGED <<db, clock, analyzed, runners, cancelled, requests, failures>>

\* the results in the database, when a file object is read from it
FromDb(j) == [p \in Plugins |-> Loaded(db[Uid[j]][p])]

\* start_analysis_of_object of a firmware: status.add_object, then its tasks
StartFirmware(j) ==
    /\ Entry[j] = "firmware" /\ New(j)
    /\ announced' = announced \cup {Root[j]}
    /\ Schedule(j, job[j].processed)

\* start_analysis_of_object of a file that was found in a firmware
StartFile(j) ==
    /\ Entry[j] = "file" /\ New(j)
    /\ \E k \in Jobs : Entry[k] = "firmware" /\ Root[k] = Root[j] /\ job[k].place # "new"
    /\ Schedule(j, job[j].processed)
    /\ UNCHANGED announced

\* update_analysis_of_object_and_children, as far as status.add_update; the
\* firmware was read from the database by the front end
StartUpdate(j) ==
    /\ Entry[j] = "update" /\ New(j)
    /\ announced' = announced \cup {Root[j]}
    /\ job' = [job EXCEPT ![j].place = "updating", ![j].processed = FromDb(j)]
    /\ UNCHANGED <<db, clock, analyzed, runners, cancelled, requests, failures>>

\* the body of its loop over the included files
UpdateFile(j) ==
    /\ Entry[j] = "update_file" /\ New(j)
    /\ \E k \in Jobs : Entry[k] = "update" /\ Root[k] = Root[j] /\ job[k].place = "updating"
    /\ Schedule(j, FromDb(j))
    /\ UNCHANGED announced

\* and its end: the list of the firmware itself is the one of the request, in
\* whatever order, without dependencies and mandatory plugins
UpdateFirmware(j) ==
    /\ Entry[j] = "update" /\ job[j].place = "updating"
    /\ \A k \in Jobs : Entry[k] = "update_file" /\ Root[k] = Root[j] => ~New(k)
    /\ \E list \in Shuffled(Requested[j]) :
          job' = [job EXCEPT ![j].scheduled = list, ![j].place = Place(j, list)]
    /\ UNCHANGED <<db, clock, announced, analyzed, runners, cancelled, requests, failures>>

\* update_analysis_of_single_object
StartSingle(j) ==
    /\ Entry[j] = "single" /\ New(j)
    /\ Schedule(j, FromDb(j))
    /\ UNCHANGED announced

-----------------------------------------------------------------------------
(* The task runners: _process_next_analysis_task and _start_or_skip.       *)

NextPlugin(j) == job[j].scheduled[Len(job[j].scheduled)]

\* Mutant: the analysis is looked at but stays in the list
RestUnchanged(j) == job[j].scheduled

Rest(j) == SubSeq(job[j].scheduled, 1, Len(job[j].scheduled) - 1)

\* _analysis_is_already_in_db_and_up_to_date
UpToDate(uid, p) ==
    LET row == db[uid][p] IN
    /\ row.kind \notin {"none", "failed"}
    /\ row.current = 1
    /\ \A d \in Deps[p] : db[uid][d].kind # "none" /\ row.date >= db[uid][d].date

\* get_cumulative_remaining_dependencies of what is still to do, and
\* _add_completed_analysis_results_to_file_object
CompletedLoaded(j, p) ==
    IF \E q \in Elements(Rest(j)) : p \in Deps[q] /\ p \notin Elements(Rest(j))
    THEN [job[j].processed EXCEPT ![p] = Loaded(db[Uid[j]][p])]
    ELSE job[j].processed

TaskRunner(j) ==
    /\ runners > 0
    /\ job[j].place = "process_queue"
    /\ UNCHANGED <<announced, analyzed, cancelled, requests, failures>>

\* Mutant: the dates of the dependencies are not looked at
OutdatedByVersion(j, p) ==
    j \in Forced \/ db[Uid[j]][p].kind \in {"none", "failed"} \/ db[Uid[j]][p].current = 0

NotUpToDate(j, p) == j \in Forced \/ ~UpToDate(Uid[j], p)

SkipCompleted(j) ==
    LET p == NextPlugin(j) IN
    /\ TaskRunner(j)
    /\ ~NotUpToDate(j, p)
    /\ job' = [job EXCEPT ![j].scheduled = Rest(j), ![j].place = Place(j, Rest(j)),
                          ![j].processed = CompletedLoaded(j, p)]
    /\ UNCHANGED <<db, clock, runners>>

\* a plugin with a list of file types needs the result of file_type, which is
\* added to the file object if it is not there
NeedsType(p) == p \in Listed \ Mandatory
WithType(j, p) ==
    IF NeedsType(p) /\ job[j].processed[FileType] = "none"
    THEN [job[j].processed EXCEPT ![FileType] = Loaded(db[Uid[j]][FileType])]
    ELSE job[j].processed
TypeKnown(j, p) == NeedsType(p) => WithType(j, p)[FileType] \in {"ok", "old"}

\* post_analysis: BackendDbInterface.add_analysis
Store(uid, p, kind, date) ==
    db' = [db EXCEPT ![uid][p] = [kind |-> kind, date |-> date, current |-> 1]]

Tick(uid) == clock' = [clock EXCEPT ![uid] = @ + 1]

Skip(j, kind) ==
    LET p == NextPlugin(j) IN
    /\ job' = [job EXCEPT ![j].scheduled = Rest(j), ![j].place = Place(j, Rest(j)),
                          ![j].processed = [WithType(j, p) EXCEPT ![p] = kind]]
    /\ Store(Uid[j], p, kind, clock[Uid[j]])
    /\ Tick(Uid[j])
    /\ UNCHANGED runners

SkipBlacklisted(j) ==
    LET p == NextPlugin(j) IN
    /\ TaskRunner(j)
    /\ NotUpToDate(j, p) /\ TypeKnown(j, p)
    /\ NeedsType(p) /\ <<p, Uid[j]>> \in Unsuitable
    /\ Skip(j, "blacklisted")

\* there is no file type: the runner dies of a KeyError, or a TypeError, and with
\* it the job
RunnerDies(j) ==
    LET p == NextPlugin(j) IN
    /\ TaskRunner(j)
    /\ NotUpToDate(j, p) /\ ~TypeKnown(j, p)
    /\ job' = [job EXCEPT ![j].place = "lost"]
    /\ runners' = runners - 1
    /\ UNCHANGED <<db, clock>>

Suitable(j, p) ==
    NotUpToDate(j, p) /\ TypeKnown(j, p) /\ ~(NeedsType(p) /\ <<p, Uid[j]>> \in Unsuitable)

\* _dependencies_are_unfulfilled
Unfulfilled(j, p) == \E d \in Deps[p] : WithType(j, p)[d] \notin {"ok", "old"}

SkipMissing(j) ==
    /\ TaskRunner(j)
    /\ Suitable(j, NextPlugin(j)) /\ Unfulfilled(j, NextPlugin(j))
    /\ Skip(j, "missing")

\* the ValidationError of queue_analysis: an old result does not fit the schema
SkipInvalid(j) ==
    /\ TaskRunner(j)
    /\ Suitable(j, NextPlugin(j)) /\ ~Unfulfilled(j, NextPlugin(j))
    /\ \E d \in Deps[NextPlugin(j)] : WithType(j, NextPlugin(j))[d] = "old"
    /\ Skip(j, "invalid")

QueueAnalysis(j) ==
    LET p == NextPlugin(j) IN
    /\ TaskRunner(j)
    /\ Suitable(j, p) /\ ~Unfulfilled(j, p)
    /\ job' = [job EXCEPT ![j].scheduled = Rest(j), ![j].place = "in_queue",
                          ![j].plugin = p, ![j].processed = WithType(j, p)]
    /\ UNCHANGED <<db, clock, runners>>

-----------------------------------------------------------------------------
(* The plugins, as PluginRunner promises: Finish with an analysis or an    *)
(* exception.                                                              *)

PluginSucceeds(j) ==
    /\ job[j].place = "in_queue"
    /\ job' = [job EXCEPT ![j].place = "out_queue", ![j].date = clock[Uid[j]],
                          ![j].processed[job[j].plugin] = "ok"]
    /\ Tick(Uid[j])
    /\ UNCHANGED <<db, announced, analyzed, runners, cancelled, requests, failures>>

PluginFails(j) ==
    /\ job[j].place = "in_queue"
    /\ failures > 0
    /\ failures' = failures - 1
    /\ job' = [job EXCEPT ![j].place = "out_queue", ![j].exception = 1]
    /\ UNCHANGED <<db, clock, announced, analyzed, runners, cancelled, requests>>

-----------------------------------------------------------------------------
(* The result collectors: _handle_collected_result.                        *)

\* reschedule_failed_analysis_task: what is scheduled and depends on p directly
Dependents(j, p) == {q \in Elements(job[j].scheduled) : p \in Deps[q]}

CollectResult(j) ==
    LET p == job[j].plugin IN
    /\ job[j].place = "out_queue" /\ job[j].exception = 0
    /\ Store(Uid[j], p, job[j].processed[p], job[j].date)
    /\ job' = [job EXCEPT ![j].place = Place(j, job[j].scheduled)]
    /\ UNCHANGED <<clock, announced, analyzed, runners, cancelled, requests, failures>>

\* Mutant: the date of the earlier result is kept
DateOfRow(uid, p) == db[uid][p].date

\* analysis_date of _get_failed_analysis_result
FailureDate(uid, p) == clock[uid]

CollectFailure(j) ==
    LET p == job[j].plugin IN
    /\ job[j].place = "out_queue" /\ job[j].exception = 1
    /\ Store(Uid[j], p, "failed", FailureDate(Uid[j], p))
    /\ Tick(Uid[j])
    /\ \E list \in Without(job[j].scheduled, Dependents(j, p)) :
          job' = [job EXCEPT
                    ![j].place = Place(j, list), ![j].scheduled = list, ![j].exception = 0,
                    ![j].processed = [q \in Plugins |-> IF q = p \/ q \in Dependents(j, p)
                                                       THEN "failed" ELSE job[j].processed[q]]]
    /\ UNCHANGED <<announced, analyzed, runners, cancelled, requests, failures>>

-----------------------------------------------------------------------------
(* The status worker (see AnalysisStatus).                                 *)

\* _add_firmware
StatusAdds(fw) ==
    /\ fw \in announced
    /\ announced' = announced \ {fw}
    /\ analyzed' = analyzed \cup {fw}
    /\ UNCHANGED <<job, db, clock, runners, cancelled, requests, failures>>

\* _remove_object of the last file
StatusFinishes(fw) ==
    /\ fw \in analyzed
    /\ \A j \in requests : Root[j] = fw => job[j].place = "completed"
    /\ analyzed' = analyzed \ {fw}
    /\ UNCHANGED <<job, db, clock, announced, runners, cancelled, requests, failures>>

\* _cancel_analysis
StatusCancels(fw) ==
    /\ fw \in analyzed
    /\ Cardinality(cancelled) < MaxCancels
    /\ analyzed' = analyzed \ {fw}
    /\ cancelled' = cancelled \cup {fw}
    /\ UNCHANGED <<job, db, clock, announced, runners, requests, failures>>

-----------------------------------------------------------------------------
Start(j) ==
    \/ StartFirmware(j) \/ StartFile(j) \/ StartUpdate(j) \/ UpdateFile(j)
    \/ UpdateFirmware(j) \/ StartSingle(j)

Run(j) ==
    \/ SkipCompleted(j) \/ SkipBlacklisted(j) \/ RunnerDies(j) \/ SkipMissing(j)
    \/ SkipInvalid(j) \/ QueueAnalysis(j)

Plugin(j) == PluginSucceeds(j) \/ PluginFails(j)

Collect(j) == CollectResult(j) \/ CollectFailure(j)

Next ==
    \/ \E j \in Jobs : Start(j) \/ Run(j) \/ Plugin(j) \/ Collect(j)
    \/ \E fw \in Uids : StatusAdds(fw) \/ StatusFinishes(fw) \/ StatusCancels(fw)

Spec == Init /\ [][Next]_vars

\* The processes of the back end run, and a plugin answers or times out.
FairSpec ==
    /\ Spec
    /\ \A j \in Jobs : WF_vars(Run(j)) /\ WF_vars(Plugin(j)) /\ WF_vars(Collect(j))

-----------------------------------------------------------------------------
(* Properties.                                                             *)

\* Each variable has its type; only what is scheduled is in a list.
TypeOK ==
    /\ job \in [Jobs -> [place: {"new", "updating", "process_queue", "in_queue",
                                 "out_queue", "completed", "dropped", "lost"},
                         scheduled: Seq(Plugins), plugin: Plugins,
                         processed: [Plugins -> Kinds \cup {"old"}],
                         exception: {0, 1}, date: Nat]]
    /\ db \in [Uids -> [Plugins -> Record]]
    /\ clock \in [Uids -> Nat]
    /\ announced \subseteq Uids /\ analyzed \subseteq Uids /\ cancelled \subseteq Uids
    /\ runners \in Nat
    /\ requests \subseteq Jobs
    /\ failures \in 0..MaxFailures

\* "dependency is missing (could be skipped)": an analysis is only skipped for its
\* dependencies if one of them was really skipped or failed.  When a runner comes to an
\* analysis, each dependency has a result in the file object, whatever other jobs write
\* meanwhile: it was run, skipped or looked up before.  The exception is the update of a
\* firmware, whose own list is not made by schedule_analysis_tasks: it skips analyses
\* before their dependencies.
SkippedForAReason ==
    \A j \in Jobs : job[j].place = "process_queue" /\ Entry[j] # "update" =>
        \A d \in Deps[NextPlugin(j)] : job[j].processed[d] # "none"

\* A job that is through has a row in the database for each plugin it was to
\* run, except for the dependents of a failed plugin: their result only is in the
\* file object.
CompletedHasResults ==
    \A j \in Jobs : job[j].place = "completed" /\ Entry[j] # "update" =>
        \A p \in Plan(j) : db[Uid[j]][p].kind # "none" \/ job[j].processed[p] = "failed"

Alone(j) == \A k \in requests \ {j} : Uid[k] # Uid[j]

\* What an update is for: when a job is through and nothing failed, each row is of
\* the current version and not older than those it depends on (if no other job
\* writes rows of the same file at the same time).
CompletedIsUpToDate ==
    \A j \in Jobs :
        /\ job[j].place = "completed" /\ Entry[j] # "update" /\ Alone(j)
        /\ \A p \in Plan(j) : job[j].processed[p] # "failed"
        => \A p \in Plan(j) : UpToDate(Uid[j], p)

\* The rows that a job leaves in the database: an analysis is only skipped for a
\* reason, and what a completed job asked for is there, and not out of date
\* (_start_or_skip_analysis, result_collector).
ResultsAreSound ==
    /\ TypeOK
    /\ SkippedForAReason
    /\ CompletedHasResults
    /\ CompletedIsUpToDate

\* an analysis that was skipped for its dependencies is not skipped again if they are
\* there: one of them has no result, or is done again itself
SkipsAreRevised(uid) ==
    \A p \in Plugins : db[uid][p].kind = "missing" /\ UpToDate(uid, p) =>
        \E d \in Deps[p] : db[uid][d].kind # "ok" \/ ~UpToDate(uid, d)

\* A row "dependency is missing" is not kept for good: no step of a job that is alone on
\* its file makes such a row count as up to date while the dependencies are there and up
\* to date themselves.  When a plugin fails, its dependents get no rows at all, so the
\* next update must find out from the dates that what was skipped for them is to be
\* redone (_dependencies_are_up_to_date).
SkipsAreNotSticky ==
    [][\A j \in requests : Alone(j) /\ SkipsAreRevised(Uid[j]) => SkipsAreRevised(Uid[j])']_vars

\* A job is dropped "because analysis of FW ... was cancelled", or because the status
\* worker has not yet handled the message that announces the firmware; never while
\* the firmware has a status, and never because another firmware was cancelled.
DroppedOnlyIfCancelledOrEarly ==
    [][\A j \in Jobs : job'[j].place = "dropped" /\ job[j].place # "dropped" =>
         Root[j] \in (cancelled \cup announced) \ analyzed]_vars

\* Every job that was started is iterated to its end, whatever fails, as long as
\* there is a task runner.
EveryJobEnds ==
    \A j \in Jobs : job[j].place \in {"process_queue", "in_queue", "out_queue"} ~>
        job[j].place \in {"completed", "dropped", "lost"} \/ runners = 0
=============================================================================
