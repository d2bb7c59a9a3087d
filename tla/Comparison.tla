------------------------------- MODULE Comparison -------------------------------
(***************************************************************************)
(* Comparisons of files and firmware images: the routes and the REST       *)
(* endpoint that ask for one, the intercom listener, the single worker of  *)
(* the comparison scheduler, and the rows of comparisons in the database,  *)
(* which images that are deleted or uploaded again invalidate              *)
(* (src/src/scheduler/comparison_scheduler.py, src/src/compare/compare.py, *)
(* src/src/storage/db_interface_comparison.py).                            *)
(*                                                                         *)
(* A database session is one action.                                       *)
(***************************************************************************)
EXTENDS Naturals, Sequences, FiniteSets, SequencesExt

CONSTANTS
    Images,         \* firmware images
    Included,       \* Included[i]: the files of image i
    Baskets,        \* what users put into the compare basket: sets of uids
    Lists,          \* uid_list of REST requests: sequences of uids
    MaxRequests,    \* bound
    MaxDeletions,   \* bound: deletions of images
    MaxUploads,     \* bound: images that are uploaded again
    MaxFailures,    \* bound: comparison plugins that raise
    MaxRestarts     \* bound: restarts of the back end

Uids == Images \cup UNION {Included[i] : i \in Images}

ASSUME ComparisonConstants ==
    /\ Included \in [Images -> SUBSET Uids]
    /\ \A i \in Images : Included[i] \cap Images = {}
    /\ Baskets \subseteq SUBSET Uids /\ \A uids \in Baskets : IsFiniteSet(uids)
    /\ Lists \subseteq Seq(Uids)
    /\ {MaxRequests, MaxDeletions, MaxUploads, MaxFailures, MaxRestarts} \subseteq Nat

VARIABLES
    file_object,    \* uids with a row, mapped to the upload they are from; 0: no row
    comparison,     \* rows of comparisons
    compare_task,   \* the list in Redis
    in_queue,       \* of the comparison scheduler
    worker,         \* its worker process
    comparisons_done, \* the worker's set
    asked,          \* ids of which a user was told to wait
    budget,
    hist            \* history, read by no action

vars == <<file_object, comparison, compare_task, in_queue, worker, comparisons_done,
          asked, budget, hist>>

Exists == {u \in Uids : file_object[u] # 0}

(***************************************************************************)
(* Compare ids: the sorted uids, joined by semicolons.  What matters is    *)
(* which uids there are and how many, repeated ones included.              *)
(***************************************************************************)

CompareId(uids, n) == [uids |-> uids, n |-> n]

\* normalize_compare_id, convert_uid_list_to_compare_id
Normalized(list) == CompareId(ToSet(list), Len(list))
IdOfSet(uids) == CompareId(uids, Cardinality(uids))

\* objects_exist: as many rows as the id has uids
ObjectsExist(id) == Cardinality(id.uids \cap Exists) = id.n

ComparisonExists(id) == \E row \in comparison : row.id = id

(***************************************************************************)
(* Front end                                                               *)
(***************************************************************************)

AddCompareTask(id, redo) ==
    /\ compare_task' = Append(compare_task, [id |-> id, redo |-> redo])
    /\ asked' = asked \cup {id}

Spend(what) == budget[what] > 0 /\ budget' = [budget EXCEPT ![what] = @ - 1]

\* the route start_compare: a basket holds a uid once
StartCompare(uids, redo) ==
    LET id == IdOfSet(uids)
    IN  /\ Spend("requests")
        /\ Cardinality(uids) >= 2
        /\ ObjectsExist(id)
        /\ redo \/ ~ComparisonExists(id)
        /\ AddCompareTask(id, redo)
        /\ UNCHANGED <<file_object, comparison, in_queue, worker, comparisons_done>>

\* RestComparePut.put: the list is the client's
RestPut(list, redo) ==
    LET id == Normalized(list)
    IN  /\ Spend("requests")
        /\ ~(ComparisonExists(id) /\ ~redo)
        /\ ObjectsExist(id)
        /\ AddCompareTask(id, redo)
        /\ UNCHANGED <<file_object, comparison, in_queue, worker, comparisons_done>>

(***************************************************************************)
(* Comparison scheduler                                                    *)
(***************************************************************************)

\* add_task, called by the listener
AddTask ==
    /\ compare_task # <<>>
    /\ in_queue' = IF ObjectsExist(Head(compare_task).id)
                   THEN Append(in_queue, Head(compare_task)) ELSE in_queue
    /\ compare_task' = Tail(compare_task)
    /\ UNCHANGED <<file_object, comparison, worker, comparisons_done, asked, budget>>

Idle == [phase |-> "idle", id |-> CompareId({}, 0), redo |-> FALSE, read |-> {}]

\* Mutant: only a repetition is started
ShouldStartOnRedo(task) == task.redo

\* _comparison_should_start
ShouldStart(task) == task.redo \/ task.id \notin comparisons_done

\* _compare_single_run takes a task; comparisons_done is updated before the
\* comparison is made
Get ==
    LET task == Head(in_queue)
    IN  /\ worker.phase = "idle"
        /\ in_queue # <<>>
        /\ in_queue' = Tail(in_queue)
        /\ IF ShouldStart(task)
           THEN /\ worker' = [phase |-> IF task.redo THEN "delete" ELSE "read",
                              id |-> task.id, redo |-> task.redo, read |-> {}]
                /\ comparisons_done' = comparisons_done \cup {task.id}
           ELSE UNCHANGED <<worker, comparisons_done>>
        /\ UNCHANGED <<file_object, comparison, compare_task, asked, budget>>

\* delete_comparison
DeleteComparison ==
    /\ worker.phase = "delete"
    /\ comparison' = {row \in comparison : row.id # worker.id}
    /\ worker' = [worker EXCEPT !.phase = "read"]
    /\ UNCHANGED <<file_object, compare_task, in_queue, comparisons_done, asked, budget>>

\* compare fetches one object after the other; one that is gone raises
ReadObject(u) ==
    /\ worker.phase = "read"
    /\ u \in worker.id.uids \ {o.uid : o \in worker.read}
    /\ worker' = IF u \in Exists
                 THEN [worker EXCEPT !.read = @ \cup {[uid |-> u, upload |-> file_object[u]]}]
                 ELSE Idle
    /\ UNCHANGED <<file_object, comparison, compare_task, in_queue, comparisons_done, asked, budget>>

\* a plugin raises; _process_comparison catches
PluginFails ==
    /\ worker.phase = "read"
    /\ Spend("failures")
    /\ worker' = Idle
    /\ UNCHANGED <<file_object, comparison, compare_task, in_queue, comparisons_done, asked>>

\* _calculate_comp_id: the uids that are keys of the general section
CalculatedId == IdOfSet({o.uid : o \in worker.read})

Row == [id |-> CalculatedId, data |-> worker.read, compared_files |-> CalculatedId.uids]

\* add_comparison_result: objects_exist ...
CheckObjects ==
    /\ worker.phase = "read"
    /\ {o.uid : o \in worker.read} = worker.id.uids
    /\ worker' = IF ObjectsExist(CalculatedId) THEN [worker EXCEPT !.phase = "exists"] ELSE Idle
    /\ UNCHANGED <<file_object, comparison, compare_task, in_queue, comparisons_done, asked, budget>>

\* ... comparison_exists ...
CheckComparison ==
    /\ worker.phase = "exists"
    /\ worker' = [worker EXCEPT !.phase = IF ComparisonExists(CalculatedId) THEN "update" ELSE "insert"]
    /\ UNCHANGED <<file_object, comparison, compare_task, in_queue, comparisons_done, asked, budget>>

\* ... update_comparison, which raises if the row is gone ...
UpdateComparison ==
    /\ worker.phase = "update"
    /\ comparison' = {IF row.id = CalculatedId THEN [row EXCEPT !.data = worker.read] ELSE row :
                        row \in comparison}
    /\ worker' = Idle
    /\ UNCHANGED <<file_object, compare_task, in_queue, comparisons_done, asked, budget>>

\* Mutant: the objects are not looked up again
InsertUnchecked ==
    /\ worker.phase = "insert"
    /\ comparison' = comparison \cup {Row}
    /\ worker' = Idle
    /\ UNCHANGED <<file_object, compare_task, in_queue, comparisons_done, asked, budget>>

\* ... or insert_comparison, which raises if an object is gone
InsertComparison ==
    /\ worker.phase = "insert"
    /\ comparison' = IF worker.id.uids \subseteq Exists
                     THEN comparison \cup {Row} ELSE comparison
    /\ worker' = Idle
    /\ UNCHANGED <<file_object, compare_task, in_queue, comparisons_done, asked, budget>>

(***************************************************************************)
(* Images come and go                                                      *)
(***************************************************************************)

\* files of an image that no other image contains
OrphansOf(i) == {u \in Included[i] \cap Exists : \A j \in (Images \cap Exists) \ {i} : u \notin Included[j]}

\* the comparisons of the image go with it (cascade of the relationship), of
\* those of its orphans only the rows of compared_files (foreign key)
Kept(i) == {[row EXCEPT !.compared_files = @ \ OrphansOf(i)] :
              row \in {row \in comparison : i \notin row.compared_files}}

\* delete_object and delete_file_orphans
DeleteFirmware(i) ==
    /\ i \in Exists
    /\ Spend("deletions")
    /\ file_object' = [u \in Uids |-> IF u \in OrphansOf(i) \cup {i} THEN 0 ELSE file_object[u]]
    /\ comparison' = Kept(i)
    /\ UNCHANGED <<compare_task, in_queue, worker, comparisons_done, asked>>

\* an image that was deleted is uploaded again; its rows are new
Upload(i) ==
    /\ i \notin Exists
    /\ Spend("uploads")
    /\ file_object' = [u \in Uids |->
            IF u \in {i} \cup (Included[i] \ Exists) THEN 2 + MaxUploads - budget.uploads
            ELSE file_object[u]]
    /\ UNCHANGED <<comparison, compare_task, in_queue, worker, comparisons_done, asked>>

\* the back end is stopped and started: what waits in Redis is still there, the
\* queue of the scheduler and the set of its worker are not
RestartBackEnd ==
    /\ Spend("restarts")
    /\ in_queue' = <<>>
    /\ worker' = Idle
    /\ comparisons_done' = {}
    /\ UNCHANGED <<file_object, comparison, compare_task, asked>>

(***************************************************************************)
(* Specification                                                           *)
(***************************************************************************)

Init ==
    /\ file_object = [u \in Uids |-> 1]
    /\ comparison = {}
    /\ compare_task = <<>> /\ in_queue = <<>>
    /\ worker = Idle
    /\ comparisons_done = {}
    /\ asked = {}
    /\ budget = [requests |-> MaxRequests, deletions |-> MaxDeletions,
                 uploads |-> MaxUploads, failures |-> MaxFailures,
                 restarts |-> MaxRestarts]
    /\ hist = [orphans |-> {}, replaced |-> {}, unanswered |-> {}]

Compare ==
    \/ DeleteComparison \/ CheckObjects \/ CheckComparison \/ UpdateComparison \/ InsertComparison
    \/ \E u \in worker.id.uids : ReadObject(u)

Step ==
    \/ \E redo \in BOOLEAN : \/ \E uids \in Baskets : StartCompare(uids, redo)
                             \/ \E list \in Lists : RestPut(list, redo)
    \/ AddTask \/ Get \/ Compare \/ PluginFails
    \/ \E i \in Images : DeleteFirmware(i) \/ Upload(i)
    \/ RestartBackEnd

\* what happens to an id that its row, or the request for it, does not survive
Recorded ==
    hist' = [orphans |-> hist.orphans \cup {u \in Exists \ Images : file_object'[u] = 0},
             replaced |-> hist.replaced \cup
                {u \in worker.id.uids : file_object'[u] # file_object[u]},
             unanswered |-> hist.unanswered
                \cup {row.id : row \in {row \in comparison : \A new \in comparison' : new.id # row.id}}
                \cup (IF worker.phase # "idle" /\ worker'.phase = "idle"
                         /\ \A new \in comparison' : new.id # worker.id
                      THEN {worker.id} ELSE {})
                \cup (IF budget'.restarts = budget.restarts THEN {}
                      ELSE {task.id : task \in ToSet(in_queue)})]

Next == Step /\ Recorded

\* listener and worker keep running; nothing else is forced
Fairness ==
    /\ WF_vars(AddTask /\ Recorded)
    /\ WF_vars(Get /\ Recorded)
    /\ WF_vars(Compare /\ Recorded)

Spec == Init /\ [][Next]_vars
FairSpec == Spec /\ Fairness

(***************************************************************************)
(* Properties                                                              *)
(***************************************************************************)

\* Types; an id that got past objects_exist names a uid once.
TypeOK ==
    /\ file_object \in [Uids -> Nat]
    /\ \A row \in comparison : row.id = IdOfSet(row.id.uids)
    /\ \A id \in asked \cup comparisons_done : id = IdOfSet(id.uids)
    /\ worker.phase \in {"idle", "delete", "read", "exists", "update", "insert"}

\* There is one row per id, and a row is found by the id that was asked for
\* (_calculate_comp_id against normalize_compare_id; insert after a check in
\* another session).
RowsAreFound ==
    /\ \A r1, r2 \in comparison : r1.id = r2.id => r1 = r2
    /\ \A row \in comparison : row.id \in asked

\* A comparison goes when one of its objects goes.  The exception are files
\* that were deleted as orphans of an image: no session loads them, so that the
\* cascade of FileObjectEntry.comparisons does not apply.
NoDanglingComparison ==
    \A row \in comparison :
        /\ row.id.uids \subseteq Exists \/ row.id.uids \cap hist.orphans # {}
        /\ row.compared_files \subseteq Exists

\* What is shown compares the objects that are in the database now, not earlier
\* uploads of them, unless an object was replaced while its comparison was
\* running, or the row outlived an orphan.
ComparisonIsCurrent ==
    \A row \in comparison : \A o \in row.data :
        \/ file_object[o.uid] \in {0, o.upload}
        \/ row.id.uids \cap (hist.orphans \cup hist.replaced) # {}

\* The rows of comparisons: found by their id, gone with their objects, and about
\* the objects as they are (ComparisonDbInterface).
ComparisonsAreSound ==
    /\ TypeOK
    /\ RowsAreFound
    /\ NoDanglingComparison
    /\ ComparisonIsCurrent

\* Someone who was told to wait gets a result while the objects are there.  The
\* exceptions are an id whose comparison failed, or whose row was deleted, once:
\* the worker has it in comparisons_done and ignores it; and one that was in
\* the queue of the scheduler when the back end was stopped.
WaitingEnds ==
    \A id \in {IdOfSet(uids) : uids \in Baskets} :
        (\E task \in ToSet(compare_task) : task.id = id) ~>
                          \/ ComparisonExists(id) \/ ~ObjectsExist(id)
                          \/ id \in hist.unanswered
================================================================================
