------------------------- MODULE UnpackingScheduler -------------------------
(***************************************************************************)
(* The unpacking scheduler of the FACT back end                            *)
(* (src/src/scheduler/unpacking_scheduler.py), with the unpacker and the   *)
(* extraction containers it drives and the part of the database interface  *)
(* it calls.                                                               *)
(*                                                                         *)
(* One extraction loop hands the tasks of in_queue to work threads, one    *)
(* per extraction container.  A work thread unpacks its file, stores it,   *)
(* submits it to the analysis (post_unpack) and then updates, under        *)
(* sync_lock, the bookkeeping entry of the firmware it belongs to; the     *)
(* files it found for the first time go back to in_queue.                  *)
(* cancel_unpacking, called from another process, removes the entry of a   *)
(* firmware WITHOUT taking sync_lock, in two calls to the manager process. *)
(***************************************************************************)
EXTENDS Naturals, Sequences, FiniteSets

CONSTANTS
    Files,          \* the uids: what the unpacker may ever meet
    Firmware,       \* the files that users upload
    Content,        \* Content[f]: the files the extractor finds in f
    Containers,     \* the extraction containers (config unpacking.processes)
    MaxDepth,       \* config unpacking.max_depth
    MaxSubmissions, \* bound: uploads of the same firmware
    MaxFailures,    \* bound: errors of the extractor
    MaxCancels,     \* bound: cancel requests
    MaxDeaths,      \* bound: containers that vanish by themselves
    MaxStops        \* bound: 1 if the back end may be shut down, 0 if not

ASSUME ConstantsAssumption ==
    /\ Firmware \subseteq Files /\ Firmware # {}
    /\ Content \in [Files -> SUBSET Files]
    /\ IsFiniteSet(Containers)
    /\ MaxDepth \in Nat
    /\ MaxSubmissions \in Nat
    /\ MaxFailures \in Nat
    /\ MaxCancels \in Nat
    /\ MaxDeaths \in Nat
    /\ MaxStops \in {0, 1}

VARIABLES
    in_queue,            \* the tasks that wait for a container
    entries,             \* keys of currently_extracted
    currently_extracted, \* its values (the value at a missing key is stale)
    sync_lock,           \* the thread that holds it, if any
    pending_tasks,       \* the containers that have a work thread
    workers,             \* the container_id stored for each container
    thread,              \* the work thread of each container
    exception,           \* the exception flag of each container
    running,             \* the docker container that really runs, 0 if none
    loop,                \* the extraction loop process
    throttle_condition,  \* set by the work load monitor
    stop_condition,      \* set by shutdown
    canceller,           \* the process that executes cancel_unpacking
    db,                  \* rows: [objects, firmware, links]
    budget,              \* what is left of the bounds
    hist                 \* history, never read by an action

coreVars == <<in_queue, entries, currently_extracted, sync_lock>>
containerVars == <<workers, exception, running>>
switchVars == <<throttle_condition, stop_condition>>
vars == <<in_queue, entries, currently_extracted, sync_lock, pending_tasks,
          workers, thread, exception, running, loop, throttle_condition,
          stop_condition, canceller, db, budget, hist>>

-----------------------------------------------------------------------------
(* A task is a FileObject on its way through the unpacker.  A Firmware has *)
(* no parent; its own uid stands in that field.                            *)
FirmwareTask(fw) == [uid |-> fw, root |-> fw, parent |-> fw, depth |-> 0,
                     kind |-> "firmware"]

FileTask == [uid: Files, root: Firmware, parent: Files, depth: 0 .. MaxDepth,
             kind: {"file"}]

Task == FileTask \cup {FirmwareTask(fw) : fw \in Firmware}

\* FileObject.add_included_file, applied to a file found in the file of task
ChildTask(task, f) == [uid |-> f, root |-> task.root, parent |-> task.uid,
                       depth |-> task.depth + 1, kind |-> "file"]

\* delayed_vfp_update maps a file to the parents whose paths are to be added
Entry == [remaining: SUBSET Files, done: SUBSET Files,
          delayed: [Files -> SUBSET Files]]

NewEntry(fw) == [remaining |-> {fw}, done |-> {},
                 delayed |-> [f \in Files |-> {}]]

NoEntry == [remaining |-> {}, done |-> {}, delayed |-> [f \in Files |-> {}]]

\* A work thread.  out is the list extracted_objects, copy the local copy of
\* the entry that the manager process returned
Phases == {"start", "unpack", "exists", "insert", "update", "post", "get", "store",
           "schedule", "finished"}

AnyTask == CHOOSE t \in Task : TRUE

Thread(phase, task) == [phase |-> phase, task |-> task, out |-> {},
                        copy |-> NoEntry]

Finished == [phase |-> "finished", task |-> AnyTask, out |-> {},
             copy |-> NoEntry]

Init ==
    /\ in_queue = <<>>
    /\ entries = {}
    /\ currently_extracted = [fw \in Firmware |-> NoEntry]
    /\ sync_lock = {}
    /\ pending_tasks = {}
    /\ workers = [c \in Containers |-> 1]
    /\ running = [c \in Containers |-> 1]
    /\ exception = [c \in Containers |-> 0]
    /\ thread = [c \in Containers |-> Finished]
    /\ loop = "running"
    /\ throttle_condition = 0
    /\ stop_condition = 0
    /\ canceller = [state |-> "idle", root |-> {}]
    /\ db = [objects |-> {}, firmware |-> {}, links |-> {}]
    /\ budget = [submissions |-> [fw \in Firmware |-> MaxSubmissions],
                 failures |-> MaxFailures, cancels |-> MaxCancels,
                 deaths |-> MaxDeaths, stops |-> MaxStops]
    /\ hist = [cancelled |-> {}, found |-> {}, lost |-> {}, crashed |-> {},
               posts |-> [fw \in Firmware |-> [f \in Files |-> 0]]]

-----------------------------------------------------------------------------
(* The users and the other processes.                                      *)

AddTask(fw) ==
    /\ stop_condition = 0
    /\ budget.submissions[fw] > 0
    /\ in_queue' = Append(in_queue, FirmwareTask(fw))
    /\ budget' = [budget EXCEPT !.submissions[fw] = @ - 1]
    /\ UNCHANGED <<entries, currently_extracted, sync_lock, pending_tasks,
                   containerVars, thread, loop, switchVars, canceller, db, hist>>

\* cancel_unpacking, first call to the manager: root_uid in currently_extracted
CancelCheck(fw) ==
    /\ canceller.state = "idle"
    /\ budget.cancels > 0
    /\ fw \in entries
    /\ canceller' = [state |-> "pop", root |-> {fw}]
    /\ budget' = [budget EXCEPT !.cancels = @ - 1]
    /\ UNCHANGED <<coreVars, pending_tasks, containerVars, thread, loop,
                   switchVars, db, hist>>

\* second call: pop, which raises KeyError if the entry is gone by then; the
\* listener process that executes the request has no handler for it
CancelPop(fw) ==
    /\ canceller = [state |-> "pop", root |-> {fw}]
    /\ IF fw \in entries
       THEN /\ entries' = entries \ {fw}
            /\ currently_extracted' = [currently_extracted EXCEPT ![fw] = NoEntry]
            /\ hist' = [hist EXCEPT !.cancelled = @ \cup {fw}]
            /\ canceller' = [state |-> "idle", root |-> {}]
       ELSE /\ canceller' = [state |-> "dead", root |-> {}]
            /\ UNCHANGED <<entries, currently_extracted, hist>>
    /\ UNCHANGED <<in_queue, sync_lock, pending_tasks, containerVars, thread,
                   loop, switchVars, db, budget>>

\* the monitor compares the work load of the analysis with throttle_limit
WorkLoadMonitor(limitReached) ==
    /\ stop_condition = 0
    /\ throttle_condition' = limitReached
    /\ UNCHANGED <<coreVars, pending_tasks, containerVars, thread, loop,
                   stop_condition, canceller, db, budget, hist>>

Shutdown ==
    /\ budget.stops > 0
    /\ stop_condition' = 1
    /\ budget' = [budget EXCEPT !.stops = @ - 1]
    /\ UNCHANGED <<coreVars, pending_tasks, containerVars, thread, loop,
                   throttle_condition, canceller, db, hist>>

\* a container whose main process dies is removed by docker (remove=True)
ContainerDies(c) ==
    /\ budget.deaths > 0
    /\ running[c] # 0
    /\ running' = [running EXCEPT ![c] = 0]
    /\ budget' = [budget EXCEPT !.deaths = @ - 1]
    /\ UNCHANGED <<coreVars, pending_tasks, workers, exception, thread, loop,
                   switchVars, canceller, db, hist>>

-----------------------------------------------------------------------------
(* The extraction loop.                                                    *)

LoopRuns == loop = "running" /\ stop_condition = 0

\* get_free_worker (any free container stands for the first one in the list),
\* in_queue.get, and the start of the work thread
ExtractionLoop(c) ==
    /\ LoopRuns
    /\ c \notin pending_tasks
    /\ in_queue # <<>>
    /\ in_queue' = Tail(in_queue)
    /\ thread' = [thread EXCEPT ![c] = Thread("start", Head(in_queue))]
    /\ pending_tasks' = pending_tasks \cup {c}
    /\ UNCHANGED <<entries, currently_extracted, sync_lock, containerVars, loop,
                   switchVars, canceller, db, budget, hist>>

\* Mutant: the restarted container is not written back to the manager list
RestartWithoutWriteBack(c) ==
    /\ exception' = [exception EXCEPT ![c] = 0]
    /\ running' = [running EXCEPT ![c] = workers[c] + 1]
    /\ pending_tasks' = pending_tasks \ {c}
    /\ UNCHANGED <<workers, loop>>

\* ExtractionContainer.restart and the write-back to the manager list
Restart(c) ==
    /\ exception' = [exception EXCEPT ![c] = 0]
    /\ running' = [running EXCEPT ![c] = workers[c] + 1]
    /\ workers' = [workers EXCEPT ![c] = workers[c] + 1]
    /\ pending_tasks' = pending_tasks \ {c}
    /\ UNCHANGED loop

\* stop() looks the container up by its id: docker raises NotFound if it is
\* not there any more, and nothing in the loop catches that
RestartFails ==
    /\ loop' = "dead"
    /\ UNCHANGED <<pending_tasks, containerVars>>

CheckPending(c) ==
    /\ LoopRuns
    /\ c \in pending_tasks
    /\ thread[c].phase = "finished"
    /\ \/ /\ exception[c] = 0
          /\ pending_tasks' = pending_tasks \ {c}
          /\ UNCHANGED <<containerVars, loop>>
       \/ exception[c] = 1 /\ running[c] = workers[c] /\ Restart(c)
       \/ exception[c] = 1 /\ running[c] # workers[c] /\ RestartFails
    /\ UNCHANGED <<coreVars, thread, switchVars, canceller, db, budget, hist>>

-----------------------------------------------------------------------------
(* The work thread of container c.                                         *)

Goto(c, phase) == thread' = [thread EXCEPT ![c].phase = phase]
Finish(c) == thread' = [thread EXCEPT ![c] = Finished]

\* _work_thread_wrapper: an exception is logged and ends the thread
Crash(c) ==
    /\ Finish(c)
    /\ hist' = [hist EXCEPT !.crashed =
                    @ \cup {<<thread[c].task.root, thread[c].task.uid>>}]

\* Mutant: the entry is also created for an included file
InitForEveryFile(c) ==
    LET fw == thread[c].task.root IN
    /\ thread[c].phase = "start"
    /\ sync_lock = {}
    /\ IF fw \in entries
       THEN UNCHANGED <<entries, currently_extracted>>
       ELSE /\ entries' = entries \cup {fw}
            /\ currently_extracted' = [currently_extracted EXCEPT ![fw] = NewEntry(fw)]
    /\ Goto(c, "unpack")
    /\ UNCHANGED <<in_queue, sync_lock, pending_tasks, containerVars, loop,
                   switchVars, canceller, db, budget, hist>>

\* a Firmware: _init_currently_unpacked, under the lock
InitCurrentlyUnpacked(c) ==
    LET fw == thread[c].task.uid IN
    /\ thread[c].phase = "start"
    /\ thread[c].task.kind = "firmware"
    /\ sync_lock = {}
    /\ IF fw \in entries
       THEN UNCHANGED <<entries, currently_extracted>>
       ELSE /\ entries' = entries \cup {fw}
            /\ currently_extracted' = [currently_extracted EXCEPT ![fw] = NewEntry(fw)]
    /\ Goto(c, "unpack")
    /\ UNCHANGED <<in_queue, sync_lock, pending_tasks, containerVars, loop,
                   switchVars, canceller, db, budget, hist>>

\* an included file: skipped if its firmware has no entry any more
CheckCancelled(c) ==
    /\ thread[c].phase = "start"
    /\ ~thread[c].task.kind = "firmware"
    /\ IF thread[c].task.root \in entries THEN Goto(c, "unpack") ELSE Finish(c)
    /\ UNCHANGED <<coreVars, pending_tasks, containerVars, loop, switchVars,
                   canceller, db, budget, hist>>

\* Unpacker.unpack without an error; at the depth limit it finds nothing, and
\* a file is never unpacked from itself
Extracted(task) ==
    IF task.depth < MaxDepth THEN Content[task.uid] \ {task.uid} ELSE {}

Unpack(c) ==
    /\ thread[c].phase = "unpack"
    /\ thread[c].task.depth < MaxDepth => running[c] # 0
    /\ thread' = [thread EXCEPT ![c].out = Extracted(thread[c].task),
                                ![c].phase = "exists"]
    /\ UNCHANGED <<coreVars, pending_tasks, containerVars, loop, switchVars,
                   canceller, db, budget, hist>>

\* ExtractionError: the file is missing, a timeout, a bad status, or no
\* container at the port; only the last one needs no failure of the extractor
UnpackError(c) ==
    /\ thread[c].phase = "unpack"
    /\ thread[c].task.depth < MaxDepth
    /\ \/ running[c] = 0 /\ UNCHANGED budget
       \/ /\ running[c] # 0
          /\ budget.failures > 0
          /\ budget' = [budget EXCEPT !.failures = @ - 1]
    /\ exception' = [exception EXCEPT ![c] = 1]
    /\ Goto(c, "exists")
    /\ UNCHANGED <<coreVars, pending_tasks, workers, running, loop, switchVars,
                   canceller, db, hist>>

\* any other exception (a report that is not there, a full disk): the wrapper
\* of the thread logs it and the thread ends
UnpackCrash(c) ==
    /\ thread[c].phase = "unpack"
    /\ thread[c].task.depth < MaxDepth
    /\ budget.failures > 0
    /\ budget' = [budget EXCEPT !.failures = @ - 1]
    /\ Crash(c)
    /\ UNCHANGED <<coreVars, pending_tasks, containerVars, loop, switchVars,
                   canceller, db>>

\* add_object, first query: does the uid exist
AddObjectExists(c) ==
    /\ thread[c].phase = "exists"
    /\ Goto(c, IF thread[c].task.uid \in db.objects THEN "update" ELSE "insert")
    /\ UNCHANGED <<coreVars, pending_tasks, containerVars, loop, switchVars,
                   canceller, db, budget, hist>>

\* insert_object or update_object raises DbInterfaceError
AddObjectRaises(task, operation) ==
    \/ operation = "insert" /\ task.uid \in db.objects
    \/ operation = "update" /\ task.kind = "firmware" /\ task.uid \notin db.firmware
    \/ task.kind = "file" /\ ~({task.root, task.parent} \subseteq db.objects)

Rows(task) ==
    [objects |-> db.objects \cup {task.uid},
     firmware |-> IF task.kind = "firmware" THEN db.firmware \cup {task.uid} ELSE db.firmware,
     links |-> IF task.kind = "firmware" THEN db.links
               ELSE db.links \cup {<<task.parent, task.uid>>}]

AddObject(c) ==
    LET task == thread[c].task IN
    /\ thread[c].phase \in {"insert", "update"}
    /\ ~AddObjectRaises(task, thread[c].phase)
    /\ db' = Rows(task)
    /\ Goto(c, "post")
    /\ UNCHANGED <<coreVars, pending_tasks, containerVars, loop, switchVars,
                   canceller, budget, hist>>

\* Mutant: extracted_objects is not reset
AddObjectFailsKeepingFiles(c) ==
    LET task == thread[c].task IN
    /\ thread[c].phase \in {"insert", "update"}
    /\ \/ AddObjectRaises(task, thread[c].phase) /\ UNCHANGED budget
       \/ budget.failures > 0 /\ budget' = [budget EXCEPT !.failures = @ - 1]
    /\ thread' = [thread EXCEPT ![c].phase = "get"]
    /\ hist' = [hist EXCEPT !.lost = @ \cup {<<task.root, task.parent, task.uid>>}]
    /\ UNCHANGED <<coreVars, pending_tasks, containerVars, loop, switchVars,
                   canceller, db>>

\* DbInterfaceError, also if the database cannot be reached: the files found
\* in this one are forgotten
AddObjectFails(c) ==
    LET task == thread[c].task IN
    /\ thread[c].phase \in {"insert", "update"}
    /\ \/ AddObjectRaises(task, thread[c].phase) /\ UNCHANGED budget
       \/ budget.failures > 0 /\ budget' = [budget EXCEPT !.failures = @ - 1]
    /\ thread' = [thread EXCEPT ![c].out = {}, ![c].phase = "get"]
    /\ hist' = [hist EXCEPT !.lost = @ \cup {<<task.root, task.parent, task.uid>>}]
    /\ UNCHANGED <<coreVars, pending_tasks, containerVars, loop, switchVars,
                   canceller, db>>

\* post_unpack: start_analysis_of_object of the analysis scheduler
PostUnpack(c) ==
    /\ thread[c].phase = "post"
    /\ hist' = [hist EXCEPT !.posts[thread[c].task.root][thread[c].task.uid] = @ + 1]
    /\ Goto(c, "get")
    /\ UNCHANGED <<coreVars, pending_tasks, containerVars, loop, switchVars,
                   canceller, db, budget>>

\* Mutant: the update does not take sync_lock
GetEntryWithoutLock(c) ==
    LET root == thread[c].task.root IN
    /\ thread[c].phase = "get"
    /\ IF root \in entries
       THEN thread' = [thread EXCEPT ![c].copy = currently_extracted[root],
                                     ![c].phase = "store"]
       ELSE Finish(c)
    /\ UNCHANGED <<coreVars, pending_tasks, containerVars, loop, switchVars,
                   canceller, db, budget, hist>>

\* _update_currently_unpacked, up to the answer of the manager
GetEntry(c) ==
    LET root == thread[c].task.root IN
    /\ thread[c].phase = "get"
    /\ sync_lock = {}
    /\ IF root \in entries
       THEN /\ sync_lock' = {c}
            /\ thread' = [thread EXCEPT ![c].copy = currently_extracted[root],
                                        ![c].phase = "store"]
       ELSE Finish(c) /\ UNCHANGED sync_lock
    /\ UNCHANGED <<in_queue, entries, currently_extracted, pending_tasks,
                   containerVars, loop, switchVars, canceller, db, budget, hist>>

(* _update_extracted_objects: the three cases of a file that was found.    *)
InProgress(entry, out) == out \cap entry.remaining

\* Mutant: a file that is in progress counts as not started
NotStartedIfNotDone(entry, out, uid) == out \ (entry.done \cup {uid})

NotStarted(entry, out, uid) == out \ (entry.remaining \cup entry.done \cup {uid})
AlreadyDone(entry, out, uid) ==
    (out \ entry.remaining) \cap (entry.done \cup {uid})

\* Mutant: the path of a file in progress is not kept for later
UpdatedWithoutDelay(entry, out, uid) ==
    [remaining |-> (entry.remaining \cup NotStarted(entry, out, uid)) \ {uid},
     done |-> entry.done \cup {uid},
     delayed |-> entry.delayed]

\* the entry after the update
Updated(entry, out, uid) ==
    [remaining |-> (entry.remaining \cup NotStarted(entry, out, uid)) \ {uid},
     done |-> entry.done \cup {uid},
     delayed |-> [f \in Files |-> IF f \in InProgress(entry, out)
                                  THEN entry.delayed[f] \cup {uid}
                                  ELSE entry.delayed[f]]]

\* Mutant: the delayed links are never written
LinksWrittenWithoutDelayed(entry, out, uid) ==
    {<<uid, f>> : f \in AlreadyDone(entry, out, uid)}

\* the links that the update writes (add_vfp and add_child_to_parent)
LinksWritten(entry, out, uid) ==
    {<<p, uid>> : p \in entry.delayed[uid]}
        \cup {<<uid, f>> : f \in AlreadyDone(entry, out, uid)}

\* both columns of the two tables reference file_object
Writable(links) == \A l \in links : l[1] \in db.objects /\ l[2] \in db.objects

\* Mutant: the lock is kept when the last file of a firmware is done
StoreEntryKeepingLock(c) ==
    LET task == thread[c].task
        new == Updated(thread[c].copy, thread[c].out, task.uid)
        schedule == NotStarted(thread[c].copy, thread[c].out, task.uid)
    IN
    /\ thread[c].phase = "store"
    /\ IF new.remaining = {}
       THEN /\ entries' = entries \ {task.root}
            /\ UNCHANGED <<currently_extracted, sync_lock>>
       ELSE /\ entries' = entries \cup {task.root}
            /\ currently_extracted' = [currently_extracted EXCEPT ![task.root] = new]
            /\ sync_lock' = {}
    /\ thread' = [thread EXCEPT ![c] =
                    IF schedule = {} THEN Finished
                    ELSE [Thread("schedule", task) EXCEPT !.out = schedule]]
    /\ UNCHANGED <<in_queue, pending_tasks, containerVars, loop, switchVars,
                   canceller, db, budget, hist>>

\* the rest of it: the entry is dropped when nothing remains.  If the entry was
\* cancelled meanwhile, that pop raises KeyError, which ends the thread where it
\* would end anyway (nothing is left to schedule); a write brings it back.
StoreEntry(c) ==
    LET task == thread[c].task
        entry == thread[c].copy
        out == thread[c].out
        links == LinksWritten(entry, out, task.uid)
        new == Updated(entry, out, task.uid)
        schedule == NotStarted(entry, out, task.uid)
    IN
    /\ thread[c].phase = "store"
    /\ Writable(links)
    /\ db' = [db EXCEPT !.links = @ \cup links]
    /\ IF new.remaining = {}
       THEN /\ entries' = entries \ {task.root}
            /\ currently_extracted' = [currently_extracted EXCEPT ![task.root] = NoEntry]
       ELSE /\ entries' = entries \cup {task.root}
            /\ currently_extracted' = [currently_extracted EXCEPT ![task.root] = new]
    /\ thread' = [thread EXCEPT ![c] =
                    IF schedule = {} THEN Finished
                    ELSE [Thread("schedule", task) EXCEPT !.out = schedule]]
    /\ sync_lock' = {}
    /\ hist' = [hist EXCEPT !.found = @ \cup {<<task.root, task.uid, f>> : f \in out}]
    /\ UNCHANGED <<in_queue, pending_tasks, containerVars, loop, switchVars,
                   canceller, budget>>

\* a link to a file without a row: DbInterfaceError ends the thread, the entry
\* is not written back; links written before that one stay
StoreEntryFails(c) ==
    LET links == LinksWritten(thread[c].copy, thread[c].out, thread[c].task.uid) IN
    /\ thread[c].phase = "store"
    /\ ~Writable(links)
    /\ \E written \in SUBSET links :
          /\ Writable(written)
          /\ db' = [db EXCEPT !.links = @ \cup written]
    /\ sync_lock' = {}
    /\ Crash(c)
    /\ UNCHANGED <<in_queue, entries, currently_extracted, pending_tasks,
                   containerVars, loop, switchVars, canceller, budget>>

\* _schedule_extracted_files, one file of the list
ScheduleFile(c, f) ==
    /\ thread[c].phase = "schedule"
    /\ f \in thread[c].out
    /\ stop_condition = 0
    /\ throttle_condition = 0
    /\ in_queue' = Append(in_queue, ChildTask(thread[c].task, f))
    /\ thread' = [thread EXCEPT ![c] = IF thread[c].out = {f} THEN Finished
                                       ELSE [thread[c] EXCEPT !.out = @ \ {f}]]
    /\ UNCHANGED <<entries, currently_extracted, sync_lock, pending_tasks,
                   containerVars, loop, switchVars, canceller, db, budget, hist>>

\* at shutdown the loop in _add_object_to_unpack_queue ends without a put
ScheduleStopped(c) ==
    /\ thread[c].phase = "schedule"
    /\ stop_condition = 1
    /\ Finish(c)
    /\ UNCHANGED <<coreVars, pending_tasks, containerVars, loop, switchVars,
                   canceller, db, budget, hist>>

-----------------------------------------------------------------------------
WorkThread(c) ==
    \/ InitCurrentlyUnpacked(c)
    \/ CheckCancelled(c)
    \/ Unpack(c)
    \/ UnpackError(c)
    \/ UnpackCrash(c)
    \/ AddObjectExists(c)
    \/ AddObject(c)
    \/ AddObjectFails(c)
    \/ PostUnpack(c)
    \/ GetEntry(c)
    \/ StoreEntry(c)
    \/ StoreEntryFails(c)
    \/ \E f \in Files : ScheduleFile(c, f)
    \/ ScheduleStopped(c)

Next ==
    \/ \E fw \in Firmware : AddTask(fw) \/ CancelCheck(fw) \/ CancelPop(fw)
    \/ \E limitReached \in {0, 1} : WorkLoadMonitor(limitReached)
    \/ Shutdown
    \/ \E c \in Containers :
          ContainerDies(c) \/ ExtractionLoop(c) \/ CheckPending(c) \/ WorkThread(c)

Spec == Init /\ [][Next]_vars

-----------------------------------------------------------------------------
(* Properties.                                                             *)

ThreadState == [phase: Phases, task: Task, out: SUBSET Files, copy: Entry]
Canceller == [state: {"idle", "pop", "dead"}, root: SUBSET Firmware]
Database == [objects: SUBSET Files, firmware: SUBSET Files,
             links: SUBSET (Files \X Files)]
Budget == [submissions: [Firmware -> Nat], failures: Nat, cancels: Nat,
           deaths: Nat, stops: Nat]
History == [cancelled: SUBSET Firmware, crashed: SUBSET (Firmware \X Files),
            found: SUBSET (Firmware \X Files \X Files),
            lost: SUBSET (Firmware \X Files \X Files),
            posts: [Firmware -> [Files -> Nat]]]

\* Each variable has its type: every task belongs to an uploaded firmware and is not
\* deeper than max_depth.
TypeOK ==
    /\ in_queue \in Seq(Task)
    /\ entries \subseteq Firmware
    /\ currently_extracted \in [Firmware -> Entry]
    /\ sync_lock \subseteq Containers
    /\ pending_tasks \subseteq Containers
    /\ workers \in [Containers -> Nat]
    /\ running \in [Containers -> Nat]
    /\ exception \in [Containers -> {0, 1}]
    /\ thread \in [Containers -> ThreadState]
    /\ loop \in {"running", "dead"}
    /\ throttle_condition \in {0, 1}
    /\ stop_condition \in {0, 1}
    /\ canceller \in Canceller
    /\ db \in Database
    /\ budget \in Budget
    /\ hist \in History

(* A task is somewhere between the moment it is found and the moment its   *)
(* thread has updated the entry: about to be queued, queued, or in a       *)
(* thread.                                                                 *)
Working == {"start", "unpack", "exists", "insert", "update", "post", "get", "store"}
IsChild(task, fw, f) == task.root = fw /\ task.uid = f /\ task.kind = "file"
Queued(fw, f) == {i \in 1 .. Len(in_queue) : IsChild(in_queue[i], fw, f)}
InThread(fw, f) ==
    {c \in Containers : thread[c].phase \in Working /\ IsChild(thread[c].task, fw, f)}
ToQueue(fw, f) ==
    {c \in Containers : /\ thread[c].phase = "schedule"
                       /\ thread[c].task.root = fw
                       /\ f \in thread[c].out}
RootInThread(fw) ==
    \E c \in Containers : /\ thread[c].phase \in Working \ {"start"}
                         /\ thread[c].task = FirmwareTask(fw)
HasTask(fw, f) ==
    Queued(fw, f) # {} \/ InThread(fw, f) # {} \/ ToQueue(fw, f) # {}

\* the task of f was created for its inclusion in p
TaskCarries(fw, p, f) ==
    \/ \E i \in Queued(fw, f) : in_queue[i].parent = p
    \/ \E c \in InThread(fw, f) : thread[c].task.parent = p
    \/ \E c \in ToQueue(fw, f) : thread[c].task.uid = p

\* work_thread: a file whose firmware has no entry "should only happen if the
\* unpacking of the parent FW was canceled".  So, as long as a firmware was not
\* cancelled, every task of a file of it is accounted for in remaining.
TasksAreTracked ==
    \A fw \in Firmware \ hist.cancelled, f \in Files :
        HasTask(fw, f) => fw \in entries /\ f \in currently_extracted[fw].remaining

\* However many parents contain a file, and however their threads interleave,
\* there is at most one task for it per firmware (no file is unpacked and
\* analysed twice for one upload).
OneTaskPerFile ==
    \A fw \in Firmware \ hist.cancelled, f \in Files :
        Cardinality(Queued(fw, f)) + Cardinality(InThread(fw, f))
            + Cardinality(ToQueue(fw, f)) <= 1

\* What remains has a task that will remove it from remaining, unless its thread
\* died of an exception or the back end is shutting down: otherwise the entry of
\* the firmware would never be dropped and the upload never complete.
RemainingHasTask ==
    \A fw \in entries \ hist.cancelled : \A f \in currently_extracted[fw].remaining :
        \/ HasTask(fw, f)
        \/ f = fw /\ RootInThread(fw)
        \/ <<fw, f>> \in hist.crashed
        \/ stop_condition = 1

\* _update_currently_unpacked postpones links to files that have no row yet
\* (delayed_vfp_update).  Nothing is forgotten: each inclusion that the unpacker
\* found is in the database, or the file is still in work and the task or the
\* entry carries the link, or add_object failed for that task.
LinksNotForgotten ==
    \A l \in hist.found : l[1] \notin hist.cancelled =>
        \/ <<l[2], l[3]>> \in db.links
        \/ l \in hist.lost
        \/ /\ l[1] \in entries
           /\ l[3] \in currently_extracted[l[1]].remaining
           /\ \/ TaskCarries(l[1], l[2], l[3])
              \/ l[2] \in currently_extracted[l[1]].delayed[l[3]]
              \/ <<l[1], l[3]>> \in hist.crashed
              \/ stop_condition = 1

\* Whatever fails on the way, no entry waits for a file without a task, and no
\* inclusion that was found is forgotten.
NothingIsStranded ==
    /\ RemainingHasTask
    /\ LinksNotForgotten

\* When the entry is dropped ("Unpacking of firmware ... completed"), each
\* inclusion found is stored, except those of files that add_object rejected.
CompletedIsStored ==
    \A l \in hist.found :
        l[1] \notin entries \cup hist.cancelled =>
            <<l[2], l[3]>> \in db.links \/ l \in hist.lost

\* add_object of an included file never misses its root or its parent in the
\* database ("Trying to add object but no parent object was found"), and what is
\* submitted to the analysis has a row ("save FO before submitting"), as long as no
\* firmware is deleted meanwhile (for that see FirmwareStore).
StoredBeforeUse ==
    /\ \A i \in 1 .. Len(in_queue) : in_queue[i].kind = "file" =>
            {in_queue[i].root, in_queue[i].parent} \subseteq db.objects
    /\ \A c \in Containers :
            /\ thread[c].phase \in Working /\ ~thread[c].task.kind = "firmware" =>
                {thread[c].task.root, thread[c].task.parent} \subseteq db.objects
            /\ thread[c].phase = "post" => thread[c].task.uid \in db.objects

\* A file is submitted to the analysis at most once per upload of its firmware.
AnalysedOncePerUpload ==
    \A fw \in Firmware \ hist.cancelled, f \in Files :
        hist.posts[fw][f] <= MaxSubmissions - budget.submissions[fw]

\* The bookkeeping of _update_currently_unpacked: a file of a firmware is unpacked
\* and analysed once per upload, its task is accounted for until it is done, and
\* what was found is stored when the entry is dropped.
UnpackedOnce ==
    /\ TypeOK
    /\ TasksAreTracked
    /\ OneTaskPerFile
    /\ AnalysedOncePerUpload
    /\ CompletedIsStored

\* check_pending: a work thread never gets a container in which an extraction
\* failed, and the id stored for a container is that of the one that runs (so
\* that the next restart finds it), unless docker removed it.
ContainersAreFresh ==
    \A c \in Containers :
        /\ thread[c].phase \in {"start", "unpack"} => exception[c] = 0
        /\ running[c] \in {workers[c], 0}

\* sync_lock: no update of an entry is lost, what is done stays done until the
\* entry is dropped.
UpdatesAreNotLost ==
    [][\A fw \in entries \cap entries' :
         fw \notin hist'.cancelled =>
            currently_extracted[fw].done \subseteq currently_extracted'[fw].done]_vars

\* test_cancel_unpacking: after cancel_unpacking the firmware has no entry.  That is
\* undone in one way only: an entry appears when the thread of a Firmware creates
\* it, or when the one thread that holds sync_lock had read it before the cancel and
\* writes it back.  No task that is left over in the queue brings it back, and none
\* of a firmware that was not cancelled.
CancelUndoneOnlyByOverlap ==
    [][\A fw \in entries' \ entries : \E c \in Containers :
         \/ thread[c].phase = "start" /\ thread[c].task = FirmwareTask(fw)
         \/ /\ sync_lock = {c} /\ thread[c].phase = "store" /\ thread[c].task.root = fw
            /\ fw \in hist.cancelled]_vars

-----------------------------------------------------------------------------
(* Fairness.  The loop polls, the threads run, and the analysis works off  *)
(* its queue, so that the monitor lifts the throttle again and again.      *)
Fairness ==
    /\ \A c \in Containers : /\ WF_vars(ExtractionLoop(c))
                             /\ WF_vars(CheckPending(c))
                             /\ WF_vars(WorkThread(c))
                             /\ SF_vars(\E f \in Files : ScheduleFile(c, f))
                             /\ SF_vars(InitCurrentlyUnpacked(c))
                             /\ SF_vars(GetEntry(c))
    /\ WF_vars(WorkLoadMonitor(0))

FairSpec == Spec /\ Fairness

\* Every upload is unpacked to the end: in the absence of errors the queue drains,
\* the entries are dropped and all containers become free again.
EverythingIsUnpacked ==
    []<>(in_queue = <<>> /\ entries = {} /\ pending_tasks = {})
=============================================================================
