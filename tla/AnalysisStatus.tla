--------------------------- MODULE AnalysisStatus ---------------------------
(***************************************************************************)
(* The progress of the running analyses                                    *)
(* (src/src/scheduler/analysis_status.py).                                 *)
(*                                                                         *)
(* Every process of the back end sends its updates through one             *)
(* multiprocessing.Queue to the status worker, which alone keeps the state *)
(* of each firmware.  Such a queue keeps the order of the updates of one   *)
(* process, but not of different processes: each process has a buffer and  *)
(* a feeder thread of its own.  The queue is therefore a family of         *)
(* sequences, one per sending process, and the worker takes the next       *)
(* update of any of them.                                                  *)
(*                                                                         *)
(* The senders: the unpacking scheduler, whose threads report a firmware   *)
(* and then each file found in what was reported, once for each entry of   *)
(* the firmware in currently_extracted (unpacking_scheduler.py, see        *)
(* UnpackingScheduler for its steps in detail); the processes of the       *)
(* analysis scheduler, which report the end of the analysis of a file; a   *)
(* listener that cancels an analysis, and one that updates it.             *)
(***************************************************************************)
EXTENDS Naturals, Sequences, FiniteSets

CONSTANTS
    Files,      \* uids
    Firmware,   \* the uids of uploaded firmware
    Content,    \* Content[f]: files_included of f
    Reachable,  \* Reachable[fw]: all files included in fw, without fw
    Plugins,    \* analysis plugins
    Workers,    \* processes of the analysis scheduler
    MaxUploads, \* bound: uploads of one firmware
    MaxUpdates, \* bound: re-analyses of a firmware
    MaxCancels, \* bound: cancel requests
    MaxRequests, \* bound: uploads, re-analyses and cancel requests together
    MaxReports, \* bound: reports of a plugin result
    MaxFailures \* bound: files that the database does not accept

ASSUME StatusConstants ==
    /\ IsFiniteSet(Files)
    /\ Firmware \subseteq Files
    /\ Content \in [Files -> SUBSET Files]
    /\ \A f \in Files : f \notin Content[f]
    /\ Reachable \in [Firmware -> SUBSET Files]
    /\ \A fw \in Firmware :
          /\ fw \notin Reachable[fw]
          /\ \A f \in Reachable[fw] \cup {fw} : Content[f] \subseteq Reachable[fw] \cup {fw}
          /\ \A S \in SUBSET Files :  \* it is the least such set
                fw \in S /\ (\A f \in S : Content[f] \subseteq S) => Reachable[fw] \subseteq S
    /\ "none" \notin Files
    /\ Workers \cap {"unpacking", "cancel", "update"} = {}
    /\ MaxUploads \in Nat /\ MaxUpdates \in Nat /\ MaxCancels \in Nat
    /\ MaxRequests \in Nat /\ MaxReports \in Nat /\ MaxFailures \in Nat

VARIABLES
    queue,             \* the updates on their way, per sending process
    currently_running, \* the firmware with a status (the keys of this dict and
                       \* of currently_analyzed, which the worker keeps equal)
    status,            \* the status of a firmware (stale if not running)
    recently_finished, \* the firmware whose end is displayed
    recently_canceled, \* the firmware whose cancellation is displayed
    worker,            \* the status worker process
    tasks,             \* senders: how many tasks there are of the unpacking, per
                       \* firmware, file and stage of work_thread
    extracted,         \* senders: currently_extracted of the unpacking
    stored,            \* senders: the files in the database, per firmware
    update,            \* senders: the update that its listener works on
    analysing,         \* senders: how many analyses of a file have not ended
    round,             \* history, per firmware: see Requested
    budget             \* what is left of the bounds

unpackingVars == <<tasks, extracted, stored>>
vars == <<queue, currently_running, status, recently_finished, recently_canceled,
          worker, unpackingVars, update, analysing, round, budget>>
workerVars == <<currently_running, status, recently_finished, recently_canceled, worker>>
recently == <<recently_finished, recently_canceled>>

Senders == {"unpacking", "cancel", "update"} \cup Workers

-----------------------------------------------------------------------------
(* FwAnalysisStatus; the start time and the hid are left out.              *)
NewStatus(fw, included) ==
    [files_to_unpack |-> included, files_to_analyze |-> {fw}, completed_files |-> {},
     total |-> 1 + Cardinality(included), withDuplicates |-> 1, unpacked |-> 1,
     analyzed |-> 0, plugins |-> [p \in Plugins |-> 0]]

NoStatus ==
    [files_to_unpack |-> {}, files_to_analyze |-> {}, completed_files |-> {},
     total |-> 0, withDuplicates |-> 0, unpacked |-> 0,
     analyzed |-> 0, plugins |-> [p \in Plugins |-> 0]]

\* _add_update
ForUpdate(s, fw, included) ==
    [s EXCEPT !.files_to_unpack = {}, !.files_to_analyze = {fw} \cup included,
              !.unpacked = Cardinality(included) + 1, !.total = Cardinality(included) + 1,
              !.withDuplicates = Cardinality(included) + 1]

\* Mutant: files that are analysed already count as new
NewFilesAfterCompletion(s, included) == included \ (s.files_to_unpack \cup s.files_to_analyze)

\* the included files of a file that the status does not know yet
NewFiles(s, included) ==
    included \ (s.files_to_unpack \cup s.files_to_analyze \cup s.completed_files)

\* _add_included_file
WithFile(s, uid, included) ==
    LET new == NewFiles(s, included)
        first == uid \in s.files_to_unpack \cup new
    IN [s EXCEPT !.files_to_unpack = (@ \cup new) \ {uid},
                 !.files_to_analyze = IF first THEN @ \cup {uid} ELSE @,
                 !.unpacked = IF first THEN @ + 1 ELSE @,
                 !.total = @ + Cardinality(new),
                 !.withDuplicates = @ + 1]

\* _remove_object
WithoutFile(s, uid) ==
    [s EXCEPT !.files_to_analyze = @ \ {uid}, !.completed_files = @ \cup {uid},
              !.analyzed = @ + 1]

\* Mutant: files that are still to be unpacked are not looked at
IsFinishedIfAnalyzed(s) == s.files_to_analyze = {}

IsFinished(s) == s.files_to_unpack = {} /\ s.files_to_analyze = {}

-----------------------------------------------------------------------------
Stages == {"queued", "started", "posted", "failed"}
Tasks == Firmware \X Files \X Stages
NoEntry == [remaining |-> {}, done |-> {}]
Nobody == [root |-> "none", files |-> {}]
NoRound == [requests |-> 0, early |-> FALSE, analysed |-> {}, lost |-> {}]

Init ==
    /\ queue = [p \in Senders |-> <<>>]
    /\ currently_running = {}
    /\ status = [fw \in Firmware |-> NoStatus]
    /\ recently_finished = {}
    /\ recently_canceled = {}
    /\ worker = "running"
    /\ tasks = [t \in Tasks |-> 0]
    /\ extracted = [fw \in Firmware |-> NoEntry]
    /\ stored = {}
    /\ update = Nobody
    /\ analysing = [x \in Firmware \X Files |-> 0]
    /\ round = [fw \in Firmware |-> NoRound]
    /\ budget = [uploads |-> [fw \in Firmware |-> MaxUploads], updates |-> MaxUpdates,
                 cancels |-> MaxCancels, requests |-> MaxRequests,
                 reports |-> MaxReports, failures |-> MaxFailures]

Put(p, message) == queue' = [queue EXCEPT ![p] = Append(@, message)]
PutTwo(p, first, second) ==
    queue' = [queue EXCEPT ![p] = Append(Append(@, first), second)]

(* Something is on its way for a firmware: a task, an analysis, a message. *)
Underway(fw) ==
    \/ \E f \in Files : analysing[<<fw, f>>] > 0 \/ \E s \in Stages : tasks[<<fw, f, s>>] > 0
    \/ update.root = fw
    \/ \E p \in Senders : \E i \in DOMAIN queue[p] : queue[p][i].root = fw

(* History.  A round begins with a request for a firmware that nothing     *)
(* goes on for.  What is kept of it: the number of requests, whether an    *)
(* update did not find all files in the database, the files whose analysis *)
(* has ended, and those whose end has not been noticed by the worker.      *)
Requested(fw, early) ==
    LET r == IF Underway(fw) \/ fw \in currently_running \/ extracted[fw] # NoEntry
             THEN round[fw] ELSE NoRound
    IN round' = [round EXCEPT ![fw] = [r EXCEPT !.requests = @ + 1, !.early = @ \/ early]]
Lost(fw, f) == round' = [round EXCEPT ![fw].lost = @ \cup {f}]

-----------------------------------------------------------------------------
(* The unpacking scheduler.                                                *)

\* add_task of a firmware
AddTask(fw) ==
    /\ budget.uploads[fw] > 0
    /\ budget.requests > 0
    /\ budget' = [budget EXCEPT !.uploads[fw] = @ - 1, !.requests = @ - 1]
    /\ tasks' = [tasks EXCEPT ![<<fw, fw, "queued">>] = @ + 1]
    /\ Requested(fw, FALSE)
    /\ UNCHANGED <<workerVars, queue, extracted, stored, update, analysing>>

MoveTask(fw, f, from, to) ==
    /\ tasks[<<fw, f, from>>] > 0
    /\ tasks' = [tasks EXCEPT ![<<fw, f, from>>] = @ - 1, ![<<fw, f, to>>] = @ + 1]

\* _init_currently_unpacked, which keeps an entry that is there
StartFirmware(fw) ==
    /\ MoveTask(fw, fw, "queued", "started")
    /\ extracted' = IF extracted[fw] # NoEntry THEN extracted
                    ELSE [extracted EXCEPT ![fw] = [remaining |-> {fw}, done |-> {}]]
    /\ UNCHANGED <<workerVars, queue, stored, update, analysing, round, budget>>

\* the beginning of work_thread for a file: nothing if the unpacking was cancelled
StartFile(fw, f) ==
    /\ f # fw
    /\ IF extracted[fw] # NoEntry THEN MoveTask(fw, f, "queued", "started") /\ UNCHANGED round
       ELSE /\ tasks[<<fw, f, "queued">>] > 0
            /\ tasks' = [tasks EXCEPT ![<<fw, f, "queued">>] = @ - 1]
            /\ Lost(fw, f)
    /\ UNCHANGED <<workerVars, queue, extracted, stored, update, analysing, budget>>

\* The unpacked object is stored and handed to start_analysis_of_object, which
\* calls add_object of the status.
Post(fw, f, message) ==
    /\ MoveTask(fw, f, "started", "posted")
    /\ stored' = stored \cup {<<fw, f>>}
    /\ Put("unpacking", message)
    /\ analysing' = [analysing EXCEPT ![<<fw, f>>] = @ + 1]
    /\ UNCHANGED <<workerVars, extracted, update, round, budget>>
AddFirmware(fw) == Post(fw, fw, [type |-> "add_firmware", root |-> fw, files |-> Content[fw]])
AddFile(fw, f) ==
    /\ f # fw
    /\ Post(fw, f, [type |-> "add_file", uid |-> f, root |-> fw, files |-> Content[f]])

\* DbInterfaceError: nothing is posted, and what was found is forgotten
FailToStore(fw, f) ==
    /\ budget.failures > 0
    /\ budget' = [budget EXCEPT !.failures = @ - 1]
    /\ MoveTask(fw, f, "started", "failed")
    /\ Lost(fw, f)
    /\ UNCHANGED <<workerVars, queue, extracted, stored, update, analysing>>

\* _update_currently_unpacked and _schedule_extracted_files
UpdateCurrentlyUnpacked(fw, f, stage) ==
    LET e == extracted[fw]
        found == IF e # NoEntry /\ stage = "posted" THEN Content[f] ELSE {}
        new == found \ (e.remaining \cup e.done \cup {f})
        remaining == (e.remaining \cup new) \ {f}
    IN
    /\ stage \in {"posted", "failed"}
    /\ tasks[<<fw, f, stage>>] > 0
    /\ tasks' = [t \in Tasks |->
                    IF t = <<fw, f, stage>> THEN tasks[t] - 1
                    ELSE IF t \in {<<fw, g, "queued">> : g \in new} THEN tasks[t] + 1 ELSE tasks[t]]
    /\ extracted' = IF e = NoEntry THEN extracted
                    ELSE [extracted EXCEPT ![fw] =
                             IF remaining = {} THEN NoEntry
                             ELSE [remaining |-> remaining, done |-> e.done \cup {f}]]
    /\ UNCHANGED <<workerVars, queue, stored, update, analysing, round, budget>>

-----------------------------------------------------------------------------
(* The analysis scheduler.                                                 *)

AddAnalysis(w, fw, f, plugin) ==
    /\ analysing[<<fw, f>>] > 0
    /\ budget.reports > 0
    /\ budget' = [budget EXCEPT !.reports = @ - 1]
    /\ Put(w, [type |-> "add_analysis", root |-> fw, plugin |-> plugin])
    /\ UNCHANGED <<workerVars, unpackingVars, update, analysing, round>>

RemoveObject(w, fw, f) ==
    /\ analysing[<<fw, f>>] > 0
    /\ analysing' = [analysing EXCEPT ![<<fw, f>>] = @ - 1]
    /\ round' = [round EXCEPT ![fw].analysed = @ \cup {f}]
    /\ Put(w, [type |-> "remove_file", uid |-> f, root |-> fw])
    /\ UNCHANGED <<workerVars, unpackingVars, update, budget>>

\* _check_further_process_or_complete: a file of a firmware that has no status (yet,
\* or any more) is not analysed further, and nobody is told
DropObject(fw, f) ==
    /\ analysing[<<fw, f>>] > 0
    /\ f # fw /\ {fw, f} \cap currently_running = {}
    /\ analysing' = [analysing EXCEPT ![<<fw, f>>] = @ - 1]
    /\ Lost(fw, f)
    /\ UNCHANGED <<workerVars, queue, unpackingVars, update, budget>>

\* update_analysis_of_object_and_children reads the included files from the database
UpdateAnalysis(fw) ==
    LET included == {f \in Files \ {fw} : <<fw, f>> \in stored} IN
    /\ update = Nobody
    /\ <<fw, fw>> \in stored
    /\ budget.updates > 0
    /\ budget.requests > 0
    /\ budget' = [budget EXCEPT !.updates = @ - 1, !.requests = @ - 1]
    /\ update' = [root |-> fw, files |-> included]
    /\ Requested(fw, included # Reachable[fw])
    /\ UNCHANGED <<workerVars, queue, unpackingVars, analysing>>

\* what is left to do: the firmware and the files that were read are analysed
Updated ==
    /\ update # Nobody
    /\ update' = Nobody
    /\ analysing' = [x \in Firmware \X Files |->
                        IF x[1] = update.root /\ x[2] \in update.files \cup {update.root}
                        THEN analysing[x] + 1 ELSE analysing[x]]
    /\ UNCHANGED <<workerVars, unpackingVars, round, budget>>

\* Mutant: the two messages are sent in the wrong order
AddUpdateFirst ==
    /\ Updated
    /\ PutTwo("update", [type |-> "add_update", root |-> update.root, files |-> update.files],
                        [type |-> "add_firmware", root |-> update.root, files |-> Content[update.root]])

\* add_update: two messages, add_firmware and add_update
AddUpdate ==
    /\ Updated
    /\ PutTwo("update", [type |-> "add_firmware", root |-> update.root, files |-> Content[update.root]],
                        [type |-> "add_update", root |-> update.root, files |-> update.files])

\* _cancel_task: cancel_unpacking, then cancel_analysis.  The entry is removed without
\* the lock: a thread in _update_currently_unpacked may write it back.
CancelAnalysis(fw) ==
    /\ budget.cancels > 0
    /\ budget.requests > 0
    /\ budget' = [budget EXCEPT !.cancels = @ - 1, !.requests = @ - 1]
    /\ extracted' \in {extracted, [extracted EXCEPT ![fw] = NoEntry]}
    /\ Put("cancel", [type |-> "cancel", root |-> fw])
    /\ Requested(fw, FALSE)
    /\ UNCHANGED <<workerVars, tasks, stored, update, analysing>>

-----------------------------------------------------------------------------
(* The status worker: one action per type of update.                       *)

Receive(p, type) ==
    /\ worker = "running"
    /\ queue[p] # <<>>
    /\ Head(queue[p]).type = type
    /\ queue' = [queue EXCEPT ![p] = Tail(@)]
    /\ UNCHANGED <<unpackingVars, update, analysing, budget>>

OnAddFirmware(p) ==
    LET u == Head(queue[p]) IN
    /\ Receive(p, "add_firmware")
    /\ currently_running' = currently_running \cup {u.root}
    /\ status' = [status EXCEPT ![u.root] = NewStatus(u.root, u.files)]
    /\ UNCHANGED <<recently, worker, round>>

\* a missing key raises KeyError, which only the loop's suppress(Empty) meets
OnAddUpdate(p) ==
    LET u == Head(queue[p]) IN
    /\ Receive(p, "add_update")
    /\ IF u.root \in currently_running
       THEN /\ status' = [status EXCEPT ![u.root] = ForUpdate(@, u.root, u.files)]
            /\ round' = [round EXCEPT ![u.root].lost = @ \cup status[u.root].completed_files]
            /\ UNCHANGED worker
       ELSE worker' = "dead" /\ UNCHANGED <<status, round>>
    /\ UNCHANGED <<currently_running, recently>>

OnAddFile(p) ==
    LET u == Head(queue[p]) IN
    /\ Receive(p, "add_file")
    /\ IF u.root \in currently_running
       THEN status' = [status EXCEPT ![u.root] = WithFile(@, u.uid, u.files)]
       ELSE UNCHANGED status
    /\ UNCHANGED <<currently_running, recently, worker, round>>

OnAddAnalysis(p) ==
    LET u == Head(queue[p]) IN
    /\ Receive(p, "add_analysis")
    /\ IF u.root \in currently_running
       THEN status' = [status EXCEPT ![u.root].plugins[u.plugin] = @ + 1]
       ELSE UNCHANGED status
    /\ UNCHANGED <<currently_running, recently, worker, round>>

\* a file that is not in files_to_analyze is ignored
OnRemoveFile(p) ==
    LET u == Head(queue[p])
        s == WithoutFile(status[u.root], u.uid)
    IN
    /\ Receive(p, "remove_file")
    /\ \/ /\ u.root \in currently_running /\ u.uid \in status[u.root].files_to_analyze
          /\ IF IsFinished(s)
             THEN /\ recently_finished' = recently_finished \cup {u.root}
                  /\ currently_running' = currently_running \ {u.root}
                  /\ status' = [status EXCEPT ![u.root] = NoStatus]
             ELSE /\ status' = [status EXCEPT ![u.root] = s]
                  /\ UNCHANGED <<currently_running, recently_finished>>
          /\ UNCHANGED round
       \/ /\ ~(u.root \in currently_running /\ u.uid \in status[u.root].files_to_analyze)
          /\ UNCHANGED <<currently_running, status, recently_finished>>
          /\ Lost(u.root, u.uid)
    /\ UNCHANGED <<recently_canceled, worker>>

OnCancel(p) ==
    LET u == Head(queue[p]) IN
    /\ Receive(p, "cancel")
    /\ IF u.root \in currently_running
       THEN /\ recently_canceled' = recently_canceled \cup {u.root}
            /\ currently_running' = currently_running \ {u.root}
            /\ status' = [status EXCEPT ![u.root] = NoStatus]
       ELSE UNCHANGED <<currently_running, status, recently_canceled>>
    /\ UNCHANGED <<recently_finished, worker, round>>

\* _clear_recently_finished, when the time of display is over
ClearRecentlyFinished(fw) ==
    /\ worker = "running"
    /\ \/ /\ fw \in recently_finished
          /\ recently_finished' = recently_finished \ {fw}
          /\ UNCHANGED recently_canceled
       \/ /\ fw \in recently_canceled
          /\ recently_canceled' = recently_canceled \ {fw}
          /\ UNCHANGED recently_finished
    /\ UNCHANGED <<queue, currently_running, status, worker, unpackingVars, update,
                   analysing, round, budget>>

Worker(p) ==
    OnAddFirmware(p) \/ OnAddUpdate(p) \/ OnAddFile(p) \/ OnAddAnalysis(p)
        \/ OnRemoveFile(p) \/ OnCancel(p)

Unpacking(fw) ==
    \/ AddTask(fw) \/ StartFirmware(fw) \/ AddFirmware(fw)
    \/ \E f \in Files : \/ StartFile(fw, f) \/ AddFile(fw, f) \/ FailToStore(fw, f)
                       \/ \E stage \in Stages : UpdateCurrentlyUnpacked(fw, f, stage)
Analysis(fw) ==
    \/ UpdateAnalysis(fw) \/ CancelAnalysis(fw)
    \/ \E f \in Files : \/ DropObject(fw, f)
                       \/ \E w \in Workers : \/ RemoveObject(w, fw, f)
                                             \/ \E plugin \in Plugins : AddAnalysis(w, fw, f, plugin)

Next ==
    \/ \E fw \in Firmware : Unpacking(fw) \/ Analysis(fw) \/ ClearRecentlyFinished(fw)
    \/ AddUpdate
    \/ \E p \in Senders : Worker(p)

Spec == Init /\ [][Next]_vars

-----------------------------------------------------------------------------
(* Properties.                                                             *)

FwStatus ==
    [files_to_unpack: SUBSET Files, files_to_analyze: SUBSET Files,
     completed_files: SUBSET Files, total: Nat, withDuplicates: Nat, unpacked: Nat,
     analyzed: Nat, plugins: [Plugins -> Nat]]

\* Each variable has its type: in particular no counter of a status is negative,
\* and nothing but uploaded firmware gets one.
TypeOK ==
    /\ currently_running \subseteq Firmware
    /\ status \in [Firmware -> FwStatus]
    /\ recently_finished \subseteq Firmware
    /\ recently_canceled \subseteq Firmware
    /\ worker \in {"running", "dead"}
    /\ tasks \in [Tasks -> Nat]
    /\ extracted \in [Firmware -> [remaining: SUBSET Files, done: SUBSET Files]]
    /\ stored \subseteq Firmware \X Files
    /\ update \in {Nobody} \cup [root: Firmware, files: SUBSET Files]
    /\ analysing \in [Firmware \X Files -> Nat]
    /\ round \in [Firmware -> [requests: Nat, early: BOOLEAN, analysed: SUBSET Files,
                              lost: SUBSET Files]]

\* A re-analysis adds files to a status whose first analysis still goes on:
\* _add_update neither looks at nor resets completed_files.
NoUpdate == budget.updates = MaxUpdates

\* The three sets of a status are disjoint: a file is unpacked before it is
\* analysed and is never in two stages, in whatever order the updates arrive
\* (as long as no re-analysis interferes).
StagesAreDisjoint ==
    NoUpdate => \A fw \in currently_running :
        /\ status[fw].files_to_unpack \cap status[fw].files_to_analyze = {}
        /\ status[fw].files_to_unpack \cap status[fw].completed_files = {}
        /\ status[fw].files_to_analyze \cap status[fw].completed_files = {}

\* The counters that the front end shows are those of the sets (a progress bar
\* never exceeds its total): each is incremented exactly when a file moves.
CountersMatchFiles ==
    NoUpdate => \A fw \in currently_running :
        LET s == status[fw]
            completed == Cardinality(s.completed_files)
            unpacked == Cardinality(s.files_to_analyze) + completed
        IN /\ s.analyzed = completed
           /\ s.unpacked = unpacked
           /\ s.total = Cardinality(s.files_to_unpack) + unpacked

\* What the status page shows of a firmware is consistent: its files are in one
\* stage each, and the counters are those of the sets (analysis_status.py).
DisplayIsConsistent ==
    /\ TypeOK
    /\ StagesAreDisjoint
    /\ CountersMatchFiles

\* "Analysis of firmware ... completed" is only said when the analysis of the
\* firmware and of each file in it has ended since it was requested (since the first
\* of several requests that overlap), although the messages of different processes
\* overtake each other.  The exception is an update that did not find all files in
\* the database: _add_update forgets the files that are still to be unpacked.
FinishedMeansAnalysed ==
    [][\A fw \in currently_running \ currently_running' :
          queue'["cancel"] = queue["cancel"] /\ ~round[fw].early =>
              Reachable[fw] \cup {fw} \subseteq round[fw].analysed]_vars

\* test_add_update: after both messages of add_update the firmware is running.  The
\* worker process (nothing supervises it) dies of a missing key only if another
\* request for the same firmware overlaps with the update, or if the firmware has no
\* files, so that its end may overtake the second message.
WorkerDiesOnlyByOverlap ==
    [][worker # worker' =>
          LET fw == Head(queue["update"]).root IN round[fw].requests > 1 \/ Content[fw] = {}]_vars

\* A firmware does not stay in the list of running analyses when nothing goes on for
\* it any more, unless requests for it overlapped, a file could not be stored, or the
\* end of the analysis of a file was not noticed: its message overtook the one that
\* announces the file, or the analysis was dropped before the firmware was announced.
NeverEndsOnlyByOverlap ==
    \A fw \in currently_running :
        worker = "running" /\ ~Underway(fw) => round[fw].requests > 1 \/ round[fw].lost # {}
=============================================================================
