---------------------------- MODULE WebInterfaceProofs ----------------------------
(***************************************************************************)
(* Proofs about what users of the web interface work on.                    *)
(* Comparison: the rows of comparisons are sound, for any images, baskets   *)
(* and requests, and any number of deletions, uploads, failures and         *)
(* restarts. CompareBasket: the basket of a browser keeps its entries, for  *)
(* any tabs, files and overlapping requests. Users: accounts and roles stay *)
(* consistent, for any administrators at work at the same time.             *)
(***************************************************************************)
EXTENDS Comparison, CompareBasket, Users, FiniteSetTheorems, SequenceTheorems, WellFoundedInduction, TLAPS

-----------------------------------------------------------------------------
(* The inductive invariant.                                                *)

ComparisonIds == [uids : SUBSET Uids, n : Nat]
Tasks == [id : ComparisonIds, redo : BOOLEAN]
Objects == [uid : Uids, upload : Nat]
ComparisonRows == [id : ComparisonIds, data : SUBSET Objects, compared_files : SUBSET Uids]
Phases == {"idle", "delete", "read", "exists", "update", "insert"}

TypeInv ==
    /\ file_object \in [Uids -> Nat]
    /\ comparison \subseteq ComparisonRows
    /\ compare_task \in Seq(Tasks)
    /\ in_queue \in Seq(Tasks)
    /\ worker \in [phase : Phases, id : ComparisonIds, redo : BOOLEAN, read : SUBSET Objects]
    /\ comparisons_done \subseteq ComparisonIds
    /\ asked \subseteq ComparisonIds
    /\ budget.uploads \in Nat /\ budget.uploads <= MaxUploads

\* What the scheduler works on was asked for, and names a uid once
IdsAreAsked ==
    /\ \A id \in asked : id = IdOfSet(id.uids)
    /\ \A i \in 1..Len(compare_task) : compare_task[i].id \in asked
    /\ \A i \in 1..Len(in_queue) : in_queue[i].id \in asked
    /\ comparisons_done \subseteq asked
    /\ worker.phase # "idle" => worker.id \in asked

\* What the worker has read is part of what it was asked to compare; all of it
\* once it stores, and no row has the id when it is about to insert one
WorkerReads ==
    /\ \A o \in worker.read : o.uid \in worker.id.uids
    /\ \A o \in worker.read : file_object[o.uid] = o.upload \/ o.uid \in hist.replaced
    /\ worker.phase \in {"exists", "update", "insert"} =>
            {o.uid : o \in worker.read} = worker.id.uids
    /\ worker.phase = "insert" => ~ComparisonExists(worker.id)

\* A row lists the objects it compares, except for orphans that were deleted
RowsListObjects ==
    \A row \in comparison :
        /\ \A o \in row.data : o.uid \in row.id.uids
        /\ row.id.uids \ row.compared_files \subseteq hist.orphans

ComparisonInv ==
    /\ TypeInv
    /\ IdsAreAsked
    /\ WorkerReads
    /\ RowsListObjects
    /\ RowsAreFound
    /\ NoDanglingComparison
    /\ ComparisonIsCurrent

-----------------------------------------------------------------------------
(* ComparisonIds.                                                                    *)

\* The uids of a list are a finite set, and not more than the list is long
LEMMA UidsOfList ==
    ASSUME NEW list \in Seq(Uids)
    PROVE  /\ ToSet(list) \subseteq Uids
           /\ IsFiniteSet(ToSet(list))
           /\ Cardinality(ToSet(list)) <= Len(list)
<1>1. Len(list) \in Nat /\ DOMAIN list = 1..Len(list)
  OBVIOUS
<1>2. list \in Surjection(1..Len(list), ToSet(list))
  <2>1. ToSet(list) = {list[i] : i \in 1..Len(list)}
    BY <1>1 DEF ToSet
  <2>2. list \in [1..Len(list) -> ToSet(list)]
    BY <1>1, <2>1
  <2>3. \A u \in ToSet(list) : \E i \in 1..Len(list) : list[i] = u
    BY <2>1
  <2> QED
    BY <2>2, <2>3 DEF Surjection
<1>3. IsFiniteSet(1..Len(list)) /\ Cardinality(1..Len(list)) = Len(list)
  BY <1>1, FS_Interval
<1>4. ToSet(list) \subseteq Uids
  BY <1>1 DEF ToSet
<1>5. IsFiniteSet(ToSet(list)) /\ Cardinality(ToSet(list)) <= Cardinality(1..Len(list))
  BY <1>2, <1>3, FS_Surjection
<1> QED
  BY <1>3, <1>4, <1>5

\* objects_exist lets an id pass only if it names every uid once
LEMMA ObjectsExistOnce ==
    ASSUME NEW list \in Seq(Uids), ObjectsExist(Normalized(list))
    PROVE  Normalized(list) = IdOfSet(Normalized(list).uids)
<1>1. IsFiniteSet(ToSet(list)) /\ Cardinality(ToSet(list)) <= Len(list)
  BY UidsOfList
<1>2. Cardinality(ToSet(list) \cap Exists) = Len(list)
  BY DEF ObjectsExist, Normalized, CompareId
<1>3. Cardinality(ToSet(list)) \in Nat
  BY <1>1, FS_CardinalityType
<1>4. Cardinality(ToSet(list) \cap Exists) <= Cardinality(ToSet(list))
  BY <1>1, FS_Intersection
<1>5. Cardinality(ToSet(list)) = Len(list)
  BY <1>1, <1>2, <1>3, <1>4
<1> QED
  BY <1>5 DEF Normalized, IdOfSet, CompareId

\* The steps of the system, without what they record
LEMMA Actions ==
    ASSUME Next
    PROVE  /\ Recorded
           /\ \/ \E uids \in Baskets, redo \in BOOLEAN : StartCompare(uids, redo)
              \/ \E list \in Lists, redo \in BOOLEAN : RestPut(list, redo)
              \/ AddTask
              \/ Get
              \/ DeleteComparison
              \/ \E u \in worker.id.uids : ReadObject(u)
              \/ CheckObjects
              \/ CheckComparison
              \/ UpdateComparison
              \/ InsertComparison
              \/ PluginFails
              \/ \E i \in Images : DeleteFirmware(i)
              \/ \E i \in Images : Upload(i)
              \/ RestartBackEnd
BY DEF Next, Step, Compare

\* The histories grow, and record what goes or is replaced
LEMMA Histories ==
    ASSUME Recorded
    PROVE  /\ hist.orphans \subseteq hist'.orphans
           /\ hist.replaced \subseteq hist'.replaced
           /\ \A u \in Exists \ Images : file_object'[u] = 0 => u \in hist'.orphans
           /\ \A u \in worker.id.uids :
                file_object'[u] # file_object[u] => u \in hist'.replaced
BY DEF Recorded

\* Idle is a worker without a comparison
LEMMA IdleType ==
    /\ Idle \in [phase : Phases, id : ComparisonIds, redo : BOOLEAN, read : SUBSET Objects]
    /\ Idle.phase = "idle" /\ Idle.id.uids = {} /\ Idle.read = {}
BY DEF Idle, CompareId, Phases, ComparisonIds

\* The id of the baskets and lists that are asked for
LEMMA AskedIds ==
    /\ \A uids \in Baskets : IdOfSet(uids) \in ComparisonIds /\ IdOfSet(uids).uids = uids
    /\ \A list \in Lists : list \in Seq(Uids) /\ Normalized(list) \in ComparisonIds
                             /\ Normalized(list).uids = ToSet(list)
<1>1. ASSUME NEW list \in Lists
      PROVE  list \in Seq(Uids) /\ Normalized(list) \in ComparisonIds
  <2>1. list \in Seq(Uids)
    BY ComparisonConstants
  <2>2. ToSet(list) \in SUBSET Uids /\ Len(list) \in Nat
    BY <2>1, UidsOfList
  <2> QED
    BY <2>1, <2>2 DEF Normalized, CompareId, ComparisonIds
<1>2. ASSUME NEW uids \in Baskets
      PROVE  IdOfSet(uids) \in ComparisonIds
  <2>1. uids \subseteq Uids /\ IsFiniteSet(uids)
    BY ComparisonConstants
  <2>2. Cardinality(uids) \in Nat
    BY <2>1, FS_CardinalityType
  <2> QED
    BY <2>1, <2>2 DEF IdOfSet, CompareId, ComparisonIds
<1> QED
  BY <1>1, <1>2 DEF IdOfSet, CompareId, Normalized

-----------------------------------------------------------------------------
(* Types and ids.                                                          *)

\* A request for an id that passed objects_exist keeps the types and what is asked for
LEMMA RequestStep ==
    ASSUME TypeInv, IdsAreAsked, NEW id \in ComparisonIds, NEW redo \in BOOLEAN,
           id = IdOfSet(id.uids), AddCompareTask(id, redo), Spend("requests"),
           UNCHANGED <<file_object, comparison, in_queue, worker, comparisons_done>>
    PROVE  TypeInv' /\ IdsAreAsked'
<1> DEFINE task == [id |-> id, redo |-> redo]
<1>1. task \in Tasks /\ task.id = id
  BY DEF Tasks
<1>2. compare_task \in Seq(Tasks) /\ compare_task' = Append(compare_task, task)
  BY DEF TypeInv, AddCompareTask
<1> HIDE DEF task
<1>3. /\ compare_task' \in Seq(Tasks)
      /\ Len(compare_task') = Len(compare_task) + 1
      /\ \A i \in 1..Len(compare_task') :
            compare_task'[i] = IF i <= Len(compare_task) THEN compare_task[i] ELSE task
  BY <1>1, <1>2
<1>4. asked' = asked \cup {id}
  BY DEF AddCompareTask
<1>5. budget'.uploads = budget.uploads
  BY DEF Spend
<1>6. TypeInv'
  BY <1>3, <1>4, <1>5 DEF TypeInv
<1>7. \A i \in 1..Len(compare_task') : compare_task'[i].id \in asked'
  <2>1. Len(compare_task) \in Nat
    BY <1>2
  <2> QED
    BY <1>1, <1>3, <1>4, <2>1 DEF IdsAreAsked
<1> QED
  BY <1>4, <1>6, <1>7 DEF IdsAreAsked

\* Every step keeps the types, and works only on what was asked for
LEMMA TypesAndIds ==
    ASSUME TypeInv, IdsAreAsked, WorkerReads, Next
    PROVE  TypeInv' /\ IdsAreAsked'
<1>1. ASSUME NEW uids \in Baskets, NEW redo \in BOOLEAN, StartCompare(uids, redo)
      PROVE  TypeInv' /\ IdsAreAsked'
  <2>1. IdOfSet(uids) \in ComparisonIds /\ IdOfSet(uids) = IdOfSet(IdOfSet(uids).uids)
    BY AskedIds
  <2> QED
    BY <1>1, <2>1, RequestStep DEF StartCompare
<1>2. ASSUME NEW list \in Lists, NEW redo \in BOOLEAN, RestPut(list, redo)
      PROVE  TypeInv' /\ IdsAreAsked'
  <2>1. Normalized(list) \in ComparisonIds /\ list \in Seq(Uids)
    BY AskedIds
  <2>2. Normalized(list) = IdOfSet(Normalized(list).uids)
    BY <1>2, <2>1, ObjectsExistOnce DEF RestPut
  <2> QED
    BY <1>2, <2>1, <2>2, RequestStep DEF RestPut
<1>3. CASE AddTask
  <2> DEFINE task == Head(compare_task)
  <2>1. /\ compare_task \in Seq(Tasks) /\ compare_task # <<>> /\ in_queue \in Seq(Tasks)
        /\ compare_task' = Tail(compare_task)
        /\ in_queue' = Append(in_queue, task) \/ in_queue' = in_queue
    BY <1>3 DEF TypeInv, AddTask
  <2>2. task \in Tasks /\ task = compare_task[1] /\ 1 \in 1..Len(compare_task)
    BY <2>1
  <2>3. task.id \in asked
    BY <2>2 DEF IdsAreAsked
  <2> HIDE DEF task
  <2>4. /\ compare_task' \in Seq(Tasks)
        /\ \A i \in 1..Len(compare_task') : /\ compare_task'[i] = compare_task[i + 1]
                                            /\ i + 1 \in 1..Len(compare_task)
    BY <2>1
  <2>5. /\ in_queue' \in Seq(Tasks)
        /\ \A i \in 1..Len(in_queue') :
             in_queue'[i] = task \/ (i \in 1..Len(in_queue) /\ in_queue'[i] = in_queue[i])
    <3>1. CASE in_queue' = in_queue
      BY <2>1, <3>1
    <3>2. CASE in_queue' = Append(in_queue, task)
      <4>1. /\ in_queue' \in Seq(Tasks) /\ Len(in_queue') = Len(in_queue) + 1
            /\ Len(in_queue) \in Nat
            /\ \A i \in 1..Len(in_queue') :
                 in_queue'[i] = IF i <= Len(in_queue) THEN in_queue[i] ELSE task
        BY <2>1, <2>2, <3>2
      <4> QED
        BY <4>1
    <3> QED
      BY <2>1, <3>1, <3>2
  <2>6. TypeInv'
    BY <1>3, <2>4, <2>5 DEF TypeInv, AddTask
  <2>7. /\ \A i \in 1..Len(compare_task') : compare_task'[i].id \in asked
        /\ \A i \in 1..Len(in_queue') : in_queue'[i].id \in asked
    BY <2>3, <2>4, <2>5 DEF IdsAreAsked
  <2> QED
    BY <1>3, <2>6, <2>7 DEF IdsAreAsked, AddTask
<1>4. CASE Get
  <2> DEFINE task == Head(in_queue)
  <2>1. in_queue \in Seq(Tasks) /\ in_queue # <<>> /\ in_queue' = Tail(in_queue)
    BY <1>4 DEF TypeInv, Get
  <2>2. task \in Tasks /\ task = in_queue[1] /\ 1 \in 1..Len(in_queue)
    BY <2>1
  <2>3. task.id \in asked /\ task.id \in ComparisonIds /\ task.redo \in BOOLEAN
    BY <2>2 DEF IdsAreAsked, Tasks
  <2>4. /\ in_queue' \in Seq(Tasks)
        /\ \A i \in 1..Len(in_queue') : /\ in_queue'[i] = in_queue[i + 1]
                                        /\ i + 1 \in 1..Len(in_queue)
    BY <2>1
  <2>5. \/ worker' = worker /\ comparisons_done' = comparisons_done
        \/ /\ comparisons_done' = comparisons_done \cup {task.id}
           /\ worker' = [phase |-> IF task.redo THEN "delete" ELSE "read",
                         id |-> task.id, redo |-> task.redo, read |-> {}]
    BY <1>4 DEF Get
  <2> HIDE DEF task
  <2>6. /\ worker' \in [phase : Phases, id : ComparisonIds, redo : BOOLEAN, read : SUBSET Objects]
        /\ comparisons_done' \subseteq ComparisonIds
        /\ comparisons_done' \subseteq asked
        /\ worker'.phase # "idle" => worker'.id \in asked
    BY <2>3, <2>5 DEF TypeInv, IdsAreAsked, Phases
  <2> QED
    BY <1>4, <2>4, <2>6 DEF IdsAreAsked, TypeInv, Get
<1>5. CASE DeleteComparison
  <2>1. /\ worker' \in [phase : Phases, id : ComparisonIds, redo : BOOLEAN, read : SUBSET Objects]
        /\ worker'.id = worker.id /\ worker.phase # "idle"
    BY <1>5 DEF DeleteComparison, TypeInv, Phases
  <2>2. comparison' \subseteq ComparisonRows
    BY <1>5 DEF DeleteComparison, TypeInv
  <2> QED
    BY <1>5, <2>1, <2>2 DEF DeleteComparison, TypeInv, IdsAreAsked
<1>6. ASSUME NEW u \in worker.id.uids, ReadObject(u)
      PROVE  TypeInv' /\ IdsAreAsked'
  <2>1. u \in Uids
    BY DEF TypeInv, ComparisonIds
  <2>2. [uid |-> u, upload |-> file_object[u]] \in Objects
    BY <2>1 DEF TypeInv, Objects
  <2>3. /\ worker' \in [phase : Phases, id : ComparisonIds, redo : BOOLEAN, read : SUBSET Objects]
        /\ worker'.phase # "idle" => worker'.id = worker.id
        /\ worker.phase # "idle"
    BY <1>6, <2>2, IdleType DEF ReadObject, TypeInv
  <2> QED
    BY <1>6, <2>3 DEF ReadObject, TypeInv, IdsAreAsked
<1>7. CASE CheckObjects
  <2>1. /\ worker' \in [phase : Phases, id : ComparisonIds, redo : BOOLEAN, read : SUBSET Objects]
        /\ worker'.phase # "idle" => worker'.id = worker.id
        /\ worker.phase # "idle"
    BY <1>7, IdleType DEF CheckObjects, TypeInv, Phases
  <2> QED
    BY <1>7, <2>1 DEF CheckObjects, TypeInv, IdsAreAsked
<1>8. CASE CheckComparison
  <2>1. /\ worker' \in [phase : Phases, id : ComparisonIds, redo : BOOLEAN, read : SUBSET Objects]
        /\ worker'.id = worker.id
        /\ worker.phase # "idle"
    BY <1>8 DEF CheckComparison, TypeInv, Phases
  <2> QED
    BY <1>8, <2>1 DEF CheckComparison, TypeInv, IdsAreAsked
<1>9. CASE UpdateComparison
  <2>1. ASSUME NEW row \in comparison
        PROVE  [row EXCEPT !.data = worker.read] \in ComparisonRows
    BY DEF TypeInv, ComparisonRows
  <2>2. comparison' \subseteq ComparisonRows
    BY <1>9, <2>1 DEF UpdateComparison, TypeInv
  <2> QED
    BY <1>9, <2>2, IdleType DEF UpdateComparison, TypeInv, IdsAreAsked
<1>10. CASE InsertComparison
  <2>1. worker.id \in asked /\ {o.uid : o \in worker.read} = worker.id.uids
    BY <1>10 DEF InsertComparison, IdsAreAsked, WorkerReads
  <2>2. CalculatedId = worker.id /\ worker.id \in ComparisonIds
    BY <2>1 DEF CalculatedId, IdsAreAsked, TypeInv
  <2>3. Row \in ComparisonRows
    BY <2>2 DEF Row, ComparisonRows, TypeInv, ComparisonIds
  <2> QED
    BY <1>10, <2>3, IdleType DEF InsertComparison, TypeInv, IdsAreAsked
<1>11. CASE PluginFails
  BY <1>11, IdleType DEF PluginFails, Spend, TypeInv, IdsAreAsked
<1>12. ASSUME NEW i \in Images, DeleteFirmware(i)
       PROVE  TypeInv' /\ IdsAreAsked'
  <2>1. file_object' \in [Uids -> Nat]
    BY <1>12 DEF DeleteFirmware, TypeInv
  <2>2. ASSUME NEW row \in comparison
        PROVE  [row EXCEPT !.compared_files = @ \ OrphansOf(i)] \in ComparisonRows
    BY DEF TypeInv, ComparisonRows
  <2>3. comparison' \subseteq ComparisonRows
    BY <1>12, <2>2 DEF DeleteFirmware, Kept
  <2>4. budget'.uploads = budget.uploads
    BY <1>12 DEF DeleteFirmware, Spend
  <2> QED
    BY <1>12, <2>1, <2>3, <2>4 DEF DeleteFirmware, TypeInv, IdsAreAsked
<1>13. ASSUME NEW i \in Images, Upload(i)
       PROVE  TypeInv' /\ IdsAreAsked'
  <2>1. MaxUploads \in Nat
    BY ComparisonConstants
  <2>2. 2 + MaxUploads - budget.uploads \in Nat
    BY <2>1 DEF TypeInv
  <2>3. file_object' \in [Uids -> Nat]
    BY <1>13, <2>2 DEF Upload, TypeInv
  <2>4. budget'.uploads \in Nat /\ budget'.uploads <= MaxUploads
    BY <1>13, <2>1 DEF Upload, Spend, TypeInv
  <2> QED
    BY <1>13, <2>3, <2>4 DEF Upload, TypeInv, IdsAreAsked
<1>14. CASE RestartBackEnd
  <2>1. in_queue' \in Seq(Tasks) /\ Len(in_queue') = 0
    BY <1>14 DEF RestartBackEnd
  <2>2. budget'.uploads = budget.uploads
    BY <1>14 DEF RestartBackEnd, Spend
  <2> QED
    BY <1>14, <2>1, <2>2, IdleType DEF RestartBackEnd, TypeInv, IdsAreAsked
<1> QED
  BY Actions, <1>1, <1>2, <1>3, <1>4, <1>5, <1>6, <1>7, <1>8, <1>9, <1>10, <1>11, <1>12,
     <1>13, <1>14

-----------------------------------------------------------------------------
(* The worker and the rows.                                                *)

\* The id that is calculated from what was read is the one that was asked for
LEMMA CalculatedIsAsked ==
    ASSUME IdsAreAsked, WorkerReads, worker.phase \in {"exists", "update", "insert"}
    PROVE  CalculatedId = worker.id
BY DEF IdsAreAsked, WorkerReads, CalculatedId

\* What the worker has read stays true, or is recorded as replaced
LEMMA ReadsStayTrue ==
    ASSUME WorkerReads, Recorded
    PROVE  \A o \in worker.read : file_object'[o.uid] = o.upload \/ o.uid \in hist'.replaced
BY Histories DEF WorkerReads

\* A row whose id did not exist still does not exist unless it is inserted
LEMMA NoNewIds ==
    ASSUME TypeInv, Next, ~InsertComparison
    PROVE  \A id \in ComparisonIds : ~ComparisonExists(id) => ~ComparisonExists(id)'
<1>1. CASE UNCHANGED comparison
  BY <1>1 DEF ComparisonExists
<1>2. CASE DeleteComparison
  BY <1>2 DEF DeleteComparison, ComparisonExists
<1>3. CASE UpdateComparison
  BY <1>3 DEF UpdateComparison, ComparisonExists, TypeInv, ComparisonRows
<1>4. ASSUME NEW i \in Images, DeleteFirmware(i)
      PROVE  \A id \in ComparisonIds : ~ComparisonExists(id) => ~ComparisonExists(id)'
  BY <1>4 DEF DeleteFirmware, Kept, ComparisonExists, TypeInv, ComparisonRows
<1> QED
  BY Actions, <1>1, <1>2, <1>3, <1>4 DEF StartCompare, RestPut, AddTask, Get, ReadObject,
     CheckObjects, CheckComparison, PluginFails, Upload, RestartBackEnd

\* Every step keeps what is said of the worker
LEMMA WorkerStep ==
    ASSUME TypeInv, IdsAreAsked, WorkerReads, Next
    PROVE  WorkerReads'
<1>1. Recorded
  BY Actions
<1>2. \A o \in worker.read : file_object'[o.uid] = o.upload \/ o.uid \in hist'.replaced
  BY <1>1, ReadsStayTrue
<1>3. ASSUME worker' = Idle
      PROVE  WorkerReads'
  BY <1>3, IdleType DEF WorkerReads
<1>4. ASSUME UNCHANGED worker, worker.phase # "insert" \/ ~InsertComparison
      PROVE  WorkerReads'
  <2>1. worker.phase = "insert" => ~ComparisonExists(worker.id)'
    BY <1>4, NoNewIds DEF WorkerReads, TypeInv
  <2> QED
    BY <1>2, <1>4, <2>1 DEF WorkerReads, ComparisonExists
<1>5. CASE Get
  <2>1. CASE UNCHANGED worker
    BY <1>4, <1>5, <2>1 DEF Get
  <2>2. CASE ~UNCHANGED worker
    <3>1. worker'.read = {} /\ worker'.phase \in {"delete", "read"}
      BY <1>5, <2>2 DEF Get
    <3> QED
      BY <3>1 DEF WorkerReads
  <2> QED
    BY <2>1, <2>2
<1>6. CASE DeleteComparison
  <2>1. worker'.read = worker.read /\ worker'.id = worker.id /\ worker'.phase = "read"
    BY <1>6 DEF DeleteComparison, TypeInv
  <2> QED
    BY <1>2, <2>1 DEF WorkerReads
<1>7. ASSUME NEW u \in worker.id.uids, ReadObject(u)
      PROVE  WorkerReads'
  <2>1. CASE u \in Exists
    <3>1. /\ worker'.read = worker.read \cup {[uid |-> u, upload |-> file_object[u]]}
          /\ worker'.id = worker.id /\ worker'.phase = "read" /\ file_object' = file_object
      BY <1>7, <2>1 DEF ReadObject, TypeInv
    <3> QED
      BY <1>2, <3>1 DEF WorkerReads
  <2>2. CASE u \notin Exists
    BY <1>3, <1>7, <2>2 DEF ReadObject
  <2> QED
    BY <2>1, <2>2
<1>8. CASE CheckObjects
  <2>1. CASE worker' = [worker EXCEPT !.phase = "exists"]
    <3>1. /\ worker'.read = worker.read /\ worker'.id = worker.id /\ worker'.phase = "exists"
          /\ {o.uid : o \in worker.read} = worker.id.uids
      BY <1>8, <2>1 DEF CheckObjects, TypeInv
    <3> QED
      BY <1>2, <3>1 DEF WorkerReads
  <2> QED
    BY <1>3, <1>8, <2>1 DEF CheckObjects
<1>9. CASE CheckComparison
  <2>1. CalculatedId = worker.id
    BY <1>9, CalculatedIsAsked DEF CheckComparison
  <2>2. /\ worker'.read = worker.read /\ worker'.id = worker.id
        /\ worker'.phase = IF ComparisonExists(worker.id) THEN "update" ELSE "insert"
        /\ comparison' = comparison /\ worker.phase = "exists"
    BY <1>9, <2>1 DEF CheckComparison, TypeInv
  <2> QED
    BY <1>2, <2>2 DEF WorkerReads, ComparisonExists
<1>10. CASE UpdateComparison \/ InsertComparison \/ PluginFails \/ RestartBackEnd
  BY <1>3, <1>10 DEF UpdateComparison, InsertComparison, PluginFails, RestartBackEnd
<1>11. ASSUME UNCHANGED worker, ~InsertComparison
       PROVE  WorkerReads'
  BY <1>4, <1>11
<1>12. CASE InsertComparison
  BY <1>10, <1>12
<1> QED
  BY Actions, <1>5, <1>6, <1>7, <1>8, <1>9, <1>10, <1>11, <1>12
     DEF StartCompare, RestPut, AddTask, DeleteFirmware, Upload

\* The parts of the invariant that are about rows
RowsInv == RowsListObjects /\ RowsAreFound /\ NoDanglingComparison /\ ComparisonIsCurrent

\* What does not change the rows or the objects keeps what is said of the rows; so
\* does a deletion of rows
LEMMA RowsStay ==
    ASSUME RowsInv, Recorded, comparison' \subseteq comparison, UNCHANGED file_object,
           asked \subseteq asked'
    PROVE  RowsInv'
BY Histories DEF RowsInv, RowsListObjects, RowsAreFound, NoDanglingComparison,
                 ComparisonIsCurrent, Exists

\* Every step keeps what is said of the rows
LEMMA RowsStep ==
    ASSUME TypeInv, IdsAreAsked, WorkerReads, RowsInv, Next
    PROVE  RowsInv'
<1>1. Recorded
  BY Actions
<1>2. /\ hist.orphans \subseteq hist'.orphans
      /\ hist.replaced \subseteq hist'.replaced
      /\ \A u \in Exists \ Images : file_object'[u] = 0 => u \in hist'.orphans
      /\ \A o \in worker.read : file_object'[o.uid] = o.upload \/ o.uid \in hist'.replaced
  BY <1>1, Histories, ReadsStayTrue
<1>3. CASE UNCHANGED <<comparison, file_object>> /\ asked \subseteq asked'
  BY <1>1, <1>3, RowsStay
<1>4. CASE DeleteComparison
  BY <1>1, <1>4, RowsStay DEF DeleteComparison
<1>5. CASE UpdateComparison
  <2>1. CalculatedId = worker.id /\ UNCHANGED <<file_object, asked>>
    BY <1>5, CalculatedIsAsked DEF UpdateComparison
  <2>2. \A o \in worker.read : o.uid \in worker.id.uids
    BY DEF WorkerReads
  <2>3. ASSUME NEW new \in comparison'
        PROVE  \E row \in comparison :
                  /\ new.id = row.id /\ new.compared_files = row.compared_files
                  /\ \/ new = row
                     \/ new.data = worker.read /\ row.id = worker.id
                  /\ new = IF row.id = worker.id THEN [row EXCEPT !.data = worker.read] ELSE row
    <3>1. PICK row \in comparison :
              new = IF row.id = worker.id THEN [row EXCEPT !.data = worker.read] ELSE row
      BY <1>5, <2>1 DEF UpdateComparison
    <3> QED
      BY <3>1 DEF TypeInv, ComparisonRows
  <2>4. RowsListObjects'
    BY <1>2, <2>2, <2>3 DEF RowsInv, RowsListObjects
  <2>5. RowsAreFound'
    <3>1. ASSUME NEW r1 \in comparison', NEW r2 \in comparison', r1.id = r2.id
          PROVE  r1 = r2
      <4>1. PICK s1 \in comparison : /\ r1.id = s1.id
              /\ r1 = IF s1.id = worker.id THEN [s1 EXCEPT !.data = worker.read] ELSE s1
        BY <2>3
      <4>2. PICK s2 \in comparison : /\ r2.id = s2.id
              /\ r2 = IF s2.id = worker.id THEN [s2 EXCEPT !.data = worker.read] ELSE s2
        BY <2>3
      <4>3. s1 = s2
        BY <3>1, <4>1, <4>2 DEF RowsInv, RowsAreFound
      <4> QED
        BY <4>1, <4>2, <4>3
    <3> QED
      BY <2>1, <2>3, <3>1 DEF RowsInv, RowsAreFound
  <2>6. NoDanglingComparison'
    BY <1>2, <2>1, <2>3 DEF RowsInv, NoDanglingComparison, Exists
  <2>7. ComparisonIsCurrent'
    <3>1. ASSUME NEW new \in comparison', NEW o \in new.data
          PROVE  \/ file_object'[o.uid] \in {0, o.upload}
                 \/ new.id.uids \cap (hist'.orphans \cup hist'.replaced) # {}
      <4>1. PICK row \in comparison : /\ new.id = row.id
              /\ \/ new = row
                 \/ new.data = worker.read /\ row.id = worker.id
        BY <2>3
      <4>2. CASE new = row
        BY <1>2, <2>1, <4>2 DEF RowsInv, ComparisonIsCurrent
      <4>3. CASE new.data = worker.read /\ row.id = worker.id
        BY <1>2, <2>2, <4>1, <4>3
      <4> QED
        BY <4>1, <4>2, <4>3
    <3> QED
      BY <3>1 DEF ComparisonIsCurrent
  <2> QED
    BY <2>4, <2>5, <2>6, <2>7 DEF RowsInv
<1>6. CASE InsertComparison
  <2>1. CASE comparison' = comparison
    BY <1>3, <1>6, <2>1 DEF InsertComparison
  <2>2. CASE comparison' # comparison
    <3>1. /\ CalculatedId = worker.id /\ worker.id \in asked /\ asked' = asked
          /\ file_object' = file_object
      BY <1>6, CalculatedIsAsked DEF InsertComparison, IdsAreAsked
    <3>2. /\ Row.id = worker.id /\ Row.data = worker.read
          /\ Row.compared_files = worker.id.uids
      BY <3>1 DEF Row
    <3>3. comparison' = comparison \cup {Row} /\ worker.id.uids \subseteq Exists
      BY <1>6, <2>2 DEF InsertComparison
    <3>4. \A row \in comparison : row.id # worker.id
      BY <1>6 DEF InsertComparison, WorkerReads, ComparisonExists
    <3>5. \A o \in worker.read : o.uid \in worker.id.uids
      BY DEF WorkerReads
    <3>6. RowsListObjects'
      BY <1>2, <3>2, <3>3, <3>5 DEF RowsInv, RowsListObjects
    <3>7. RowsAreFound'
      BY <3>1, <3>2, <3>3, <3>4 DEF RowsInv, RowsAreFound
    <3>8. NoDanglingComparison'
      BY <1>2, <3>1, <3>2, <3>3 DEF RowsInv, NoDanglingComparison, Exists
    <3>9. ComparisonIsCurrent'
      BY <1>2, <3>1, <3>2, <3>3, <3>5 DEF RowsInv, ComparisonIsCurrent
    <3> QED
      BY <3>6, <3>7, <3>8, <3>9 DEF RowsInv
  <2> QED
    BY <2>1, <2>2
<1>7. ASSUME NEW i \in Images, DeleteFirmware(i)
      PROVE  RowsInv'
  <2> DEFINE Gone == OrphansOf(i)
  <2>1. Gone \subseteq Exists \ Images
    BY ComparisonConstants DEF OrphansOf
  <2>2. /\ asked' = asked
        /\ \A u \in Uids : file_object'[u] = IF u \in Gone \cup {i} THEN 0 ELSE file_object[u]
    BY <1>7 DEF DeleteFirmware
  <2>3. Exists' = Exists \ (Gone \cup {i}) /\ Gone \subseteq hist'.orphans
    BY <1>2, <2>1, <2>2 DEF Exists
  <2>4. ASSUME NEW new \in comparison'
        PROVE  \E row \in comparison :
                  /\ i \notin row.compared_files
                  /\ new = [row EXCEPT !.compared_files = @ \ Gone]
                  /\ new.id = row.id /\ new.data = row.data
                  /\ new.compared_files = row.compared_files \ Gone
    <3>1. PICK row \in comparison : /\ i \notin row.compared_files
                                    /\ new = [row EXCEPT !.compared_files = @ \ Gone]
      BY <1>7 DEF DeleteFirmware, Kept
    <3> QED
      BY <3>1 DEF TypeInv, ComparisonRows
  <2> HIDE DEF Gone
  <2>5. RowsListObjects'
    BY <1>2, <2>3, <2>4 DEF RowsInv, RowsListObjects
  <2>6. RowsAreFound'
    <3>1. ASSUME NEW r1 \in comparison', NEW r2 \in comparison', r1.id = r2.id
          PROVE  r1 = r2
      <4>1. PICK s1 \in comparison : /\ r1.id = s1.id
                                     /\ r1 = [s1 EXCEPT !.compared_files = @ \ Gone]
        BY <2>4
      <4>2. PICK s2 \in comparison : /\ r2.id = s2.id
                                     /\ r2 = [s2 EXCEPT !.compared_files = @ \ Gone]
        BY <2>4
      <4>3. s1 = s2
        BY <3>1, <4>1, <4>2 DEF RowsInv, RowsAreFound
      <4> QED
        BY <4>1, <4>2, <4>3
    <3> QED
      BY <2>2, <2>4, <3>1 DEF RowsInv, RowsAreFound
  <2>7. NoDanglingComparison'
    <3>1. ASSUME NEW new \in comparison'
          PROVE  /\ new.id.uids \subseteq Exists' \/ new.id.uids \cap hist'.orphans # {}
                 /\ new.compared_files \subseteq Exists'
      <4>1. PICK row \in comparison : /\ i \notin row.compared_files /\ new.id = row.id
                                      /\ new.compared_files = row.compared_files \ Gone
        BY <2>4
      <4>2. /\ row.id.uids \subseteq Exists \/ row.id.uids \cap hist.orphans # {}
            /\ row.compared_files \subseteq Exists
            /\ row.id.uids \ row.compared_files \subseteq hist.orphans
        BY DEF RowsInv, NoDanglingComparison, RowsListObjects
      <4> QED
        BY <1>2, <2>3, <4>1, <4>2
    <3> QED
      BY <3>1 DEF NoDanglingComparison
  <2>8. ComparisonIsCurrent'
    <3>1. ASSUME NEW new \in comparison', NEW o \in new.data
          PROVE  \/ file_object'[o.uid] \in {0, o.upload}
                 \/ new.id.uids \cap (hist'.orphans \cup hist'.replaced) # {}
      <4>1. PICK row \in comparison : new.id = row.id /\ new.data = row.data
        BY <2>4
      <4>2. o.uid \in Uids
        BY <4>1 DEF TypeInv, ComparisonRows, Objects
      <4> QED
        BY <1>2, <2>2, <4>1, <4>2 DEF RowsInv, ComparisonIsCurrent
    <3> QED
      BY <3>1 DEF ComparisonIsCurrent
  <2> QED
    BY <2>5, <2>6, <2>7, <2>8 DEF RowsInv
<1>8. ASSUME NEW i \in Images, Upload(i)
      PROVE  RowsInv'
  <2>1. /\ asked' = asked /\ comparison' = comparison
        /\ \A u \in Uids : u \in Exists => file_object'[u] = file_object[u]
    BY <1>8 DEF Upload
  <2>2. Exists \subseteq Exists'
    BY <2>1 DEF Exists
  <2>3. RowsListObjects' /\ RowsAreFound'
    BY <1>2, <2>1 DEF RowsInv, RowsListObjects, RowsAreFound
  <2>4. NoDanglingComparison'
    BY <1>2, <2>1, <2>2 DEF RowsInv, NoDanglingComparison
  <2>5. ComparisonIsCurrent'
    <3>1. ASSUME NEW row \in comparison, NEW o \in row.data
          PROVE  \/ file_object'[o.uid] \in {0, o.upload}
                 \/ row.id.uids \cap (hist'.orphans \cup hist'.replaced) # {}
      <4>1. o.uid \in Uids /\ o.uid \in row.id.uids
        BY DEF TypeInv, ComparisonRows, Objects, RowsInv, RowsListObjects
      <4>2. CASE o.uid \in Exists
        BY <1>2, <2>1, <4>1, <4>2 DEF RowsInv, ComparisonIsCurrent
      <4>3. CASE o.uid \notin Exists
        BY <1>2, <4>1, <4>3 DEF RowsInv, NoDanglingComparison
      <4> QED
        BY <4>2, <4>3
    <3> QED
      BY <2>1, <3>1 DEF ComparisonIsCurrent
  <2> QED
    BY <2>3, <2>4, <2>5 DEF RowsInv
<1> QED
  BY Actions, <1>3, <1>4, <1>5, <1>6, <1>7, <1>8
     DEF StartCompare, RestPut, AddCompareTask, AddTask, Get, ReadObject, CheckObjects,
         CheckComparison, PluginFails, RestartBackEnd

-----------------------------------------------------------------------------
(* The theorem.                                                            *)

\* The invariant holds at the start
LEMMA ComparisonInit == Init => ComparisonInv
<1> SUFFICES ASSUME Init PROVE ComparisonInv
  OBVIOUS
<1>1. MaxUploads \in Nat
  BY ComparisonConstants
<1>2. TypeInv
  BY <1>1, IdleType DEF Init, TypeInv
<1>3. IdsAreAsked /\ WorkerReads
  BY IdleType DEF Init, IdsAreAsked, WorkerReads
<1>4. RowsListObjects /\ RowsAreFound /\ NoDanglingComparison /\ ComparisonIsCurrent
  BY DEF Init, RowsListObjects, RowsAreFound, NoDanglingComparison, ComparisonIsCurrent
<1> QED
  BY <1>2, <1>3, <1>4 DEF ComparisonInv

\* The invariant is inductive
LEMMA ComparisonInductive == ComparisonInv /\ [Next]_vars => ComparisonInv'
<1> SUFFICES ASSUME ComparisonInv, [Next]_vars PROVE ComparisonInv'
  OBVIOUS
<1>1. CASE Next
  <2>1. TypeInv /\ IdsAreAsked /\ WorkerReads /\ RowsInv
    BY DEF ComparisonInv, RowsInv
  <2> QED
    BY <1>1, <2>1, TypesAndIds, WorkerStep, RowsStep DEF ComparisonInv, RowsInv
<1>2. CASE UNCHANGED vars
  BY <1>2 DEF vars, ComparisonInv, TypeInv, IdsAreAsked, WorkerReads, RowsListObjects,
              RowsAreFound, NoDanglingComparison, ComparisonIsCurrent, Exists, ComparisonExists
<1> QED
  BY <1>1, <1>2

\* There is one row per id and it is found by the id that was asked for, a comparison
\* goes with its objects, and what is shown is about the objects that are stored now,
\* with the exceptions that the parts of ComparisonsAreSound name (ComparisonScheduler,
\* ComparisonDbInterface)
THEOREM SoundComparisons == Spec => []ComparisonsAreSound
<1>1. ComparisonInv => ComparisonsAreSound
  BY DEF ComparisonInv, ComparisonsAreSound, TypeOK, TypeInv, IdsAreAsked, RowsAreFound, Phases
<1> QED
  BY <1>1, ComparisonInit, ComparisonInductive, PTL DEF Spec

-----------------------------------------------------------------------------
(* The basket of files to compare, for any number of tabs and requests.    *)

BasketRecords == [kept : BOOLEAN, uids : SUBSET Selectable]
Operations == {"show", "remove_all", "start", "redo", "text", "add", "remove"}
TabRecords ==
    [op : Operations \union {"none"}, uid : Selectable \union {"none"},
     basket : BasketRecords, added : SUBSET Selectable]

\* The inductive invariant: whatever is in the cookie was there when a request was sent, or
\* was added since then.
BasketInv ==
    /\ cookie \in BasketRecords
    /\ tabs \in [Tabs -> TabRecords]
    /\ \A t \in Tabs : tabs[t] # NoTask => tabs[t].op # "none"
    /\ \A t \in Tabs : tabs[t].op = "add" => tabs[t].uid \in Selectable
    /\ \A t \in Tabs : tabs[t] # NoTask => cookie.uids \subseteq tabs[t].basket.uids \union tabs[t].added
    /\ ~Given("basket") => cookie.uids = {} /\ \A t \in Tabs : tabs[t] = NoTask

\* What a response does: the request is answered, and the others note what it adds.
LEMMA RespondFacts ==
    ASSUME BasketInv, NEW t \in Tabs, tabs[t].op # "none", NEW basket \in BasketRecords,
           Respond(t, basket), input' = input
    PROVE  /\ BasketInv'
           /\ tabs[t] # NoTask
           /\ \A s \in Tabs : Answered(s) => s = t
           /\ Answered(t)
           /\ cookie' = (IF Modified(t, basket) THEN basket ELSE cookie)
<1> DEFINE new == IF Modified(t, basket) THEN basket ELSE cookie
           Noted(s) == [tabs[s] EXCEPT !.added = @ \union (new.uids \ cookie.uids)]
<1>1. /\ cookie \in BasketRecords /\ tabs \in [Tabs -> TabRecords]
      /\ new \in BasketRecords /\ cookie' = new
      /\ tabs' = [s \in Tabs |-> IF s = t THEN NoTask ELSE IF tabs[s] = NoTask THEN NoTask ELSE Noted(s)]
  BY DEF BasketInv, Respond
<1>2. tabs[t] # NoTask
  BY DEF NoTask
<1>3. NoTask \in TabRecords
  BY DEF NoTask, NoBasket, TabRecords, BasketRecords
<1>4. new.uids \subseteq Selectable
  BY <1>1 DEF BasketRecords
<1> HIDE DEF new
<1>5. ASSUME NEW s \in Tabs, tabs[s] # NoTask
      PROVE  /\ Noted(s) \in TabRecords /\ Noted(s).op = tabs[s].op /\ Noted(s).op # "none"
             /\ Noted(s).basket = tabs[s].basket /\ Noted(s).uid = tabs[s].uid
             /\ Noted(s).added = tabs[s].added \union (new.uids \ cookie.uids)
  <2>1. tabs[s] \in TabRecords /\ tabs[s].op # "none"
    BY <1>1, <1>5 DEF BasketInv
  <2> QED BY <2>1, <1>4 DEF TabRecords
<1> HIDE DEF Noted
<1>6. ASSUME NEW s \in Tabs, tabs[s] # NoTask PROVE Noted(s) # NoTask
  <2>1. NoTask.op = "none"
    BY DEF NoTask
  <2> QED BY <2>1, <1>5, <1>6
<1>7. \A s \in Tabs : tabs'[s] = IF s = t \/ tabs[s] = NoTask THEN NoTask ELSE Noted(s)
  BY <1>1
<1>8. \A s \in Tabs : Answered(s) <=> s = t
  BY <1>2, <1>6, <1>7 DEF Answered
<1>9. tabs' \in [Tabs -> TabRecords]
  <2>1. \A s \in Tabs : tabs'[s] \in TabRecords
    BY <1>3, <1>5, <1>7
  <2> QED BY <2>1, <1>1
<1>10. ASSUME NEW s \in Tabs, tabs'[s] # NoTask
       PROVE  /\ tabs'[s].op # "none"
              /\ cookie'.uids \subseteq tabs'[s].basket.uids \union tabs'[s].added
  <2>1. tabs[s] # NoTask /\ tabs'[s] = Noted(s)
    BY <1>7, <1>10
  <2>2. cookie.uids \subseteq tabs[s].basket.uids \union tabs[s].added
    BY <2>1 DEF BasketInv
  <2> QED BY <2>1, <2>2, <1>1, <1>5
<1>11. ASSUME NEW s \in Tabs, tabs'[s].op = "add" PROVE tabs'[s].uid \in Selectable
  <2>1. tabs[s] # NoTask /\ tabs'[s] = Noted(s)
    BY <1>7, <1>11 DEF NoTask
  <2> QED BY <2>1, <1>5, <1>11 DEF BasketInv
<1>12. Given("basket") /\ Given("basket")'
  BY <1>2 DEF BasketInv, Given
<1> QED BY <1>1, <1>2, <1>8, <1>9, <1>10, <1>12, <1>11 DEF BasketInv, new

\* The requests that are answered, each by what it does to its copy of the basket.
Answers(t, basket) ==
    \/ tabs[t].op = "show" /\ basket = UidDict(t)
    \/ tabs[t].op = "add" /\ basket = Basket(UidDict(t).uids \union {tabs[t].uid})
    \/ tabs[t].op = "remove" /\ basket = Basket(UidDict(t).uids \ {tabs[t].uid})
    \/ tabs[t].op = "remove_all" /\ basket = Basket({})
    \/ /\ tabs[t].op \in {"start", "redo"}
       /\ \/ Cardinality(UidDict(t).uids) < 2 /\ basket = UidDict(t)
          \/ Cardinality(UidDict(t).uids) >= 2 /\ basket = NoBasket
             /\ (UidDict(t).uids \subseteq stored =>
                   UidDict(t).uids \in compared \union toCompare')
    \/ tabs[t].op = "text" /\ basket =
          IF Cardinality(UidDict(t).uids) = 2 THEN Basket({}) ELSE UidDict(t)

Answering(t) ==
    \/ ShowAnalysis(t) \/ AddToCompareBasket(t) \/ RemoveFromCompareBasket(t)
    \/ RemoveAllFromCompareBasket(t) \/ StartCompareRequest(t) \/ StartTextFileComparison(t)

\* Every action that answers a request is one of those.
LEMMA AnsweringIsAResponse ==
    ASSUME BasketInv, NEW t \in Tabs, Answering(t)
    PROVE  /\ tabs[t].op # "none" /\ input' = input
           /\ \E basket \in BasketRecords : Answers(t, basket) /\ Respond(t, basket)
<1>1. tabs[t] \in TabRecords
  BY DEF BasketInv
<1>2. /\ UidDict(t) \in BasketRecords /\ UidDict(t).uids = tabs[t].basket.uids
      /\ UidDict(t).uids \subseteq Selectable
  BY <1>1 DEF UidDict, Basket, BasketRecords, TabRecords
<1>3. NoBasket \in BasketRecords
  BY DEF NoBasket, BasketRecords
<1>4. \A uids \in SUBSET Selectable : Basket(uids) \in BasketRecords
  BY DEF Basket, BasketRecords
<1>5. CASE ShowAnalysis(t)
  BY <1>5, <1>2 DEF ShowAnalysis, Handles, Unchanged, Answers
<1>6. CASE AddToCompareBasket(t)
  <2>1. tabs[t].op = "add" /\ tabs[t].uid \in Selectable
    BY <1>6 DEF AddToCompareBasket, Handles, BasketInv
  <2>2. Basket(UidDict(t).uids \union {tabs[t].uid}) \in BasketRecords
    BY <2>1, <1>2, <1>4
  <2> QED BY <1>6, <2>1, <2>2 DEF AddToCompareBasket, Handles, Unchanged, Answers
<1>7. CASE RemoveFromCompareBasket(t)
  <2>1. Basket(UidDict(t).uids \ {tabs[t].uid}) \in BasketRecords
    BY <1>2, <1>4
  <2> QED BY <1>7, <2>1 DEF RemoveFromCompareBasket, Handles, Unchanged, Answers
<1>8. CASE RemoveAllFromCompareBasket(t)
  BY <1>8, <1>4 DEF RemoveAllFromCompareBasket, Handles, Unchanged, Answers
<1>9. CASE StartCompareRequest(t)
  <2>1. tabs[t].op \in {"start", "redo"} /\ input' = input
    BY <1>9 DEF StartCompareRequest
  <2>2. CASE Cardinality(UidDict(t).uids) < 2 /\ Respond(t, UidDict(t))
    BY <2>1, <2>2, <1>2 DEF Answers
  <2>3. CASE /\ Cardinality(UidDict(t).uids) >= 2 /\ Respond(t, NoBasket)
             /\ UidDict(t).uids \subseteq stored => UidDict(t).uids \in compared \union toCompare'
    BY <2>1, <2>3, <1>3 DEF Answers
  <2> QED BY <1>9, <2>2, <2>3 DEF StartCompareRequest
<1>10. CASE StartTextFileComparison(t)
  BY <1>10, <1>2, <1>4 DEF StartTextFileComparison, Handles, Unchanged, Answers
<1> QED BY <1>5, <1>6, <1>7, <1>8, <1>9, <1>10 DEF Answering

\* A file that a response takes out of the basket was removed or used by the request, or was
\* not in its copy; and a request that leaves the basket empty starts a comparison.
LEMMA AnswerFacts ==
    ASSUME BasketInv, NEW t \in Tabs, tabs[t].op # "none", NEW basket \in BasketRecords,
           Answers(t, basket), Respond(t, basket), input' = input
    PROVE  /\ \A u \in cookie.uids \ cookie'.uids :
                \/ u \in tabs[t].added
                \/ /\ u \in tabs[t].basket.uids
                   /\ \/ tabs[t].op \in {"remove_all", "start", "redo", "text"}
                      \/ tabs[t].op = "remove" /\ tabs[t].uid = u
           /\ LET id == tabs[t].basket.uids
              IN  (id # {} /\ cookie'.uids = {} /\ tabs[t].op \in {"start", "redo", "text"} /\ id \cap cookie.uids # {}) =>
                    \/ tabs[t].op = "text" /\ Cardinality(id) = 2
                    \/ Cardinality(id) >= 2 /\ ShowCompareResult(id) = "error"
                    \/ Cardinality(id) >= 2 /\ (ShowCompareResult(id) = "result" \/ id \in toCompare')
<1>1. /\ tabs[t] # NoTask
      /\ cookie' = (IF Modified(t, basket) THEN basket ELSE cookie)
  BY RespondFacts
<1>2. cookie.uids \subseteq tabs[t].basket.uids \union tabs[t].added
  BY <1>1 DEF BasketInv
<1>3. UidDict(t).uids = tabs[t].basket.uids
  BY DEF UidDict, Basket
<1>4. \A uids : Basket(uids).uids = uids
  BY DEF Basket
<1>5. ASSUME NEW u \in cookie.uids \ cookie'.uids
      PROVE  \/ u \in tabs[t].added
             \/ /\ u \in tabs[t].basket.uids
                /\ \/ tabs[t].op \in {"remove_all", "start", "redo", "text"}
                   \/ tabs[t].op = "remove" /\ tabs[t].uid = u
  <2>1. u \notin basket.uids
    BY <1>1, <1>5
  <2>2. CASE tabs[t].op = "show"
    <3>1. basket.uids = tabs[t].basket.uids
      BY <2>2, <1>3 DEF Answers
    <3> QED BY <3>1, <2>1, <1>2
  <2>3. CASE tabs[t].op = "add"
    <3>1. basket.uids = tabs[t].basket.uids \union {tabs[t].uid}
      BY <2>3, <1>3, <1>4 DEF Answers
    <3> QED BY <3>1, <2>1, <1>2
  <2>4. CASE tabs[t].op = "remove"
    <3>1. basket.uids = tabs[t].basket.uids \ {tabs[t].uid}
      BY <2>4, <1>3, <1>4 DEF Answers
    <3> QED BY <3>1, <2>1, <2>4, <1>2
  <2>5. CASE tabs[t].op \in {"remove_all", "start", "redo", "text"}
    BY <2>5, <1>2
  <2> QED BY <2>2, <2>3, <2>4, <2>5 DEF Answers
<1> DEFINE id == tabs[t].basket.uids
<1>6. ASSUME id # {}, cookie'.uids = {}, tabs[t].op \in {"start", "redo", "text"}, id \cap cookie.uids # {}
      PROVE  \/ tabs[t].op = "text" /\ Cardinality(id) = 2
             \/ Cardinality(id) >= 2 /\ ShowCompareResult(id) = "error"
             \/ Cardinality(id) >= 2 /\ (ShowCompareResult(id) = "result" \/ id \in toCompare')
  <2>1. basket.uids = {} /\ basket # UidDict(t)
    BY <1>1, <1>3, <1>6 DEF Modified
  <2> HIDE DEF id
  <2>2. UidDict(t).uids = id
    BY <1>3 DEF id
  <2>3. CASE tabs[t].op = "text"
    BY <2>1, <2>2, <2>3 DEF Answers
  <2>4. CASE tabs[t].op \in {"start", "redo"}
    <3>1. /\ Cardinality(id) >= 2
          /\ id \subseteq stored => id \in compared \union toCompare'
      BY <2>1, <2>2, <2>4 DEF Answers
    <3> QED BY <3>1 DEF ShowCompareResult
  <2> QED BY <1>6, <2>3, <2>4
<1> QED BY <1>5, <1>6

\* The invariant holds at the start.
LEMMA BasketInitInv == input = Nothing /\ BasketInit => BasketInv
<1> SUFFICES ASSUME input = Nothing, BasketInit PROVE BasketInv
  OBVIOUS
<1>1. NoBasket \in BasketRecords /\ NoBasket.uids = {}
  BY DEF NoBasket, BasketRecords
<1>2. NoTask \in TabRecords /\ NoTask.op = "none"
  BY <1>1 DEF NoTask, TabRecords
<1>3. cookie = NoBasket /\ tabs \in [Tabs -> TabRecords] /\ \A t \in Tabs : tabs[t] = NoTask
  BY <1>2 DEF BasketInit
<1> QED BY <1>1, <1>2, <1>3 DEF BasketInv

\* Every step keeps it; only an answer takes files out of the basket.
LEMMA BasketStep ==
    ASSUME BasketInv, [PickBasket \/ BasketNext]_<<input, basketVars>>
    PROVE  /\ BasketInv'
           /\ \/ cookie' = cookie /\ tabs' = tabs
              \/ cookie.uids = {} /\ (\A t \in Tabs : ~Answered(t))
              \/ cookie' = cookie /\ (\A t \in Tabs : ~Answered(t))
              \/ \E t \in Tabs : Answering(t)
<1>1. NoTask \in TabRecords /\ NoTask.op = "none"
  BY DEF NoTask, NoBasket, BasketRecords, TabRecords
<1>2. CASE PickBasket
  <2>1. /\ input = Nothing /\ input'.kind = "basket" /\ input'.arg \in Cookies
        /\ cookie' = input'.arg /\ tabs' = tabs
    BY <1>2 DEF PickBasket, Choose, NoInput
  <2>2. ~Given("basket")
    BY <2>1 DEF Given, Nothing
  <2>3. cookie.uids = {} /\ \A t \in Tabs : tabs[t] = NoTask
    BY <2>2 DEF BasketInv
  <2>4. cookie' \in BasketRecords
    <3>1. cookie' = NoBasket \/ \E uids \in SUBSET Selectable : cookie' = Basket(uids)
      BY <2>1, BasketConstants, Zenon DEF BasketConstants
    <3>2. NoBasket \in BasketRecords /\ \A uids \in SUBSET Selectable : Basket(uids) \in BasketRecords
      BY DEF BasketRecords, NoBasket, Basket
    <3> QED BY <3>1, <3>2
  <2>5. Given("basket")'
    BY <2>1 DEF Given
  <2> QED BY <2>1, <2>3, <2>4, <2>5, <1>1 DEF BasketInv, Answered
<1>3. ASSUME NEW t \in Tabs, NEW op \in Operations, NEW uid \in Selectable \union {"none"},
             Send(t, op, uid), op = "add" => uid \in Selectable
      PROVE  BasketInv' /\ cookie' = cookie /\ \A s \in Tabs : ~Answered(s)
  <2> DEFINE new == [op |-> op, uid |-> uid, basket |-> cookie, added |-> {}]
  <2>1. /\ tabs' = [tabs EXCEPT ![t] = new] /\ tabs[t] = NoTask /\ cookie' = cookie
        /\ Given("basket") /\ Given("basket")'
    BY <1>3 DEF Send, Given
  <2>2. /\ new \in TabRecords /\ new.op = op /\ new.uid = uid /\ new.op # "none"
        /\ new.basket = cookie
    BY DEF TabRecords, Operations, BasketInv
  <2> HIDE DEF new
  <2>3. tabs \in [Tabs -> TabRecords] /\ cookie \in BasketRecords
    BY DEF BasketInv
  <2>4. \A s \in Tabs : tabs'[s] = IF s = t THEN new ELSE tabs[s]
    BY <2>1, <2>3
  <2>5. tabs' \in [Tabs -> TabRecords]
    BY <2>1, <2>2, <2>3
  <2>6. \A s \in Tabs : tabs'[s] # NoTask =>
           tabs'[s].op # "none" /\ cookie'.uids \subseteq tabs'[s].basket.uids \union tabs'[s].added
    BY <2>1, <2>2, <2>4 DEF BasketInv
  <2>7. \A s \in Tabs : tabs'[s].op = "add" => tabs'[s].uid \in Selectable
    BY <1>3, <2>2, <2>4 DEF BasketInv
  <2>8. \A s \in Tabs : ~Answered(s)
    BY <1>1, <2>1, <2>2, <2>4 DEF Answered
  <2> QED BY <2>1, <2>3, <2>5, <2>6, <2>7, <2>8 DEF BasketInv
<1>4. ASSUME NEW t \in Tabs, Answering(t) PROVE BasketInv'
  <2>1. /\ tabs[t].op # "none" /\ input' = input
        /\ \E basket \in BasketRecords : Respond(t, basket)
    BY <1>4, AnsweringIsAResponse
  <2> QED BY <2>1, RespondFacts
<1>5. ASSUME UNCHANGED <<input, cookie, tabs>>
      PROVE  BasketInv' /\ cookie' = cookie /\ tabs' = tabs
  BY <1>5 DEF BasketInv, Given
<1>6. CASE Compares \/ DeleteFile \/ UNCHANGED <<input, basketVars>>
  BY <1>5, <1>6 DEF Compares, DeleteFile, basketVars
<1>7. CASE \E t \in Tabs, op \in {"show", "remove_all", "start", "redo", "text"} : Send(t, op, "none")
  BY <1>3, <1>7 DEF Operations
<1>8. CASE \E t \in Tabs, op \in {"add", "remove"}, u \in Selectable : Send(t, op, u)
  BY <1>3, <1>8 DEF Operations
<1>9. CASE \E t \in Tabs : Answering(t)
  BY <1>4, <1>9
<1> QED BY <1>2, <1>6, <1>7, <1>8, <1>9 DEF BasketNext, Answering

\* The basket keeps its entries until they are used for a comparison (add_to_compare_basket,
\* remove_from_compare_basket, start_compare, ...), for any tabs, files and requests: what a
\* response loses was removed or used by its own request, or added while that was on its way.
THEOREM BasketIsKeptAlways == BasketSpec => BasketIsKept
<1> DEFINE Lost == \A u \in cookie.uids \ cookie'.uids : \E t \in Tabs :
              /\ Answered(t)
              /\ \/ u \in tabs[t].added
                 \/ u \in tabs[t].basket.uids /\ (tabs[t].op \in {"remove_all", "start", "redo", "text"} \/ (tabs[t].op = "remove" /\ tabs[t].uid = u))
           Used == \A t \in Tabs :
              LET id == tabs[t].basket.uids
              IN  (Answered(t) /\ id # {} /\ cookie'.uids = {} /\ tabs[t].op \in {"start", "redo", "text"} /\ id \cap cookie.uids # {}) =>
                    \/ tabs[t].op = "text" /\ Cardinality(id) = 2
                    \/ Cardinality(id) >= 2 /\ ShowCompareResult(id) = "error"
                    \/ Cardinality(id) >= 2 /\ (ShowCompareResult(id) = "result" \/ id \in toCompare')
<1>1. input = Nothing /\ BasketInit => BasketInv
  BY BasketInitInv
<1>2. BasketInv /\ [PickBasket \/ BasketNext]_<<input, basketVars>> => BasketInv'
  BY BasketStep
<1>3. BasketInv /\ [PickBasket \/ BasketNext]_<<input, basketVars>> => Lost /\ Used
  <2> SUFFICES ASSUME BasketInv, [PickBasket \/ BasketNext]_<<input, basketVars>> PROVE Lost /\ Used
    OBVIOUS
  <2>1. CASE cookie' = cookie /\ tabs' = tabs
    BY <2>1 DEF Answered
  <2>2. CASE (cookie.uids = {} \/ cookie' = cookie) /\ \A t \in Tabs : ~Answered(t)
    BY <2>2
  <2>3. ASSUME NEW t \in Tabs, Answering(t) PROVE Lost /\ Used
    <3>1. PICK basket \in BasketRecords : Answers(t, basket) /\ Respond(t, basket)
      BY <2>3, AnsweringIsAResponse
    <3>2. tabs[t].op # "none" /\ input' = input
      BY <2>3, AnsweringIsAResponse
    <3>3. Answered(t) /\ \A s \in Tabs : Answered(s) => s = t
      BY <3>1, <3>2, RespondFacts
    <3>4. Lost
      BY <3>1, <3>2, <3>3, AnswerFacts
    <3>5. Used
      BY <3>1, <3>2, <3>3, AnswerFacts
    <3> QED BY <3>4, <3>5
  <2> QED BY <2>1, <2>2, <2>3, BasketStep
<1>4. EntriesLostOnlyByOverlap <=> [][Lost]_basketVars
  BY DEF EntriesLostOnlyByOverlap
<1>5. BasketIsUsedForAComparison <=> [][Used]_basketVars
  BY DEF BasketIsUsedForAComparison
<1> HIDE DEF Lost, Used
<1> QED BY <1>1, <1>2, <1>3, <1>4, <1>5, PTL DEF BasketSpec, BasketIsKept

-----------------------------------------------------------------------------
(* Users and roles: FACTUM and any number of requests of administrators on *)
(* the same database.                                                      *)

\* The tables: user names are unique, and there are no empty rows of links.
UserRecords == [email : Emails, legal : BOOLEAN]
TablesInv ==
    /\ Ids \subseteq 1 .. MaxId /\ users \in [Ids -> UserRecords]
    /\ \A i, k \in Ids : users[i].email = users[k].email => i = k
    /\ DOMAIN links \subseteq (1 .. MaxId) \X AllRoles
    /\ links \in [DOMAIN links -> Nat \ {0}]
    /\ roles \subseteq AllRoles

\* What FACTUM and the requests have in hand.
WebRequests == [at : {"idle", "add", "page", "password", "edit", "delete", "flush"}, id : Nat, email : Emails \union {"none"}, held : SUBSET AllRoles,
             selected : SUBSET RoleNames, missing : SUBSET RoleNames, legal : BOOLEAN]
HaveUser == {"rolename", "delete", "flush", "link", "unlink"}
HaveRole == {"new_role", "initialise"}
TerminalRecords ==
    [at : {"off", "menu", "failed"} \union ActionNames \union HaveUser \union HaveRole, users : SUBSET Emails, roles : SUBSET AllRoles,
     user : Emails \union {"none"}, id : Nat]
ShowUsers == {"page", "password", "edit", "delete", "flush"}
ClientsInv ==
    /\ terminal \in TerminalRecords
    /\ terminal.at \in HaveUser => terminal.id \in 1 .. MaxId /\ terminal.user \in Emails
    /\ web \in [Sessions -> WebRequests]
    /\ \A s \in Sessions : web[s].at \in ShowUsers => web[s].id \in 1 .. MaxId
    /\ \A s \in Sessions : web[s].at = "add" => web[s].email \in Emails
    /\ DOMAIN written = Clients
    /\ ~Given("users") => terminal.at = "off" /\ Ids = {} /\ \A s \in Sessions : web[s].at = "idle"

UserRow(email) == <<"user", <<email>>>>
LinkRow(email, role) == <<"link", <<email, role>>>>
RoleRow(role) == <<"role", <<role>>>>

\* What client c has read is still so, except for what others have written: the id of a user,
\* the roles it holds and those it does not hold, and roles that do not exist.
Named(c, id, email) ==
    UserWritten(c, email) \/ (id \in Ids /\ users[id].email = email)
RolesKnown(c, id, email, held, lacking) ==
    Interfered(c, email) \/ (id \in Ids /\ users[id].email = email /\ held \subseteq RolesOf(id) /\ lacking \intersect RolesOf(id) = {})
NamesKnown(c, rs) ==
    RolesWritten(c, rs) \/ rs \intersect roles = {}

TerminalKnows ==
    /\ terminal.at \in ActionNames => \A e \in Emails :
            UserRow(e) \in written["terminal"] \/ (e \in terminal.users <=> FindUser(e) # {})
    /\ terminal.at \in HaveUser => Named("terminal", terminal.id, terminal.user)
    /\ terminal.at = "link" => RolesKnown("terminal", terminal.id, terminal.user, {}, terminal.roles)
    /\ terminal.at = "unlink" => RolesKnown("terminal", terminal.id, terminal.user, terminal.roles, {})
    /\ terminal.at = "flush" => RolesKnown("terminal", terminal.id, terminal.user, terminal.roles, AllRoles \ terminal.roles)
    /\ terminal.at \in HaveRole => NamesKnown("terminal", terminal.roles)
SessionKnows(s) ==
    /\ web[s].at \in {"page", "password", "delete", "flush"} => Named(s, web[s].id, web[s].email)
    /\ web[s].at \in {"edit", "flush"} => RolesKnown(s, web[s].id, web[s].email, web[s].held, AllRoles \ web[s].held)
    /\ web[s].at = "edit" => NamesKnown(s, web[s].missing)

\* The inductive invariant.
UsersInv ==
    /\ TablesInv
    /\ ClientsInv
    /\ TerminalKnows
    /\ \A s \in Sessions : SessionKnows(s)

-----------------------------------------------------------------------------
(* What the statements do to the tables.                                   *)

\* The rows tell that something was written about a user.
Told(rows, email) == \E w \in rows : w[1] # "role" /\ w[2][1] = email

\* A step that changes the tables tells others what it changed: a user that comes or goes,
\* the roles of a user, a role that is created.
Effect(rows) ==
    /\ TablesInv'
    /\ \A e \in Emails : UserRow(e) \in rows \/ (FindUser(e) # {} <=> FindUser(e)' # {})
    /\ \A i \in Ids : UserRow(users[i].email) \in rows \/ (i \in Ids' /\ users'[i].email = users[i].email)
    /\ \A i \in Ids : Told(rows, users[i].email) \/ RolesOf(i)' = RolesOf(i)
    /\ \A r \in AllRoles : RoleRow(r) \in rows \/ (r \in roles' => r \in roles)

\* The user of a row
LEMMA RowFacts ==
    /\ \A e : UserRow(e)[2][1] = e /\ UserRow(e)[1] # "role"
    /\ \A e, r : LinkRow(e, r)[2][1] = e /\ LinkRow(e, r)[1] # "role"
    /\ \A rows, e : UserRow(e) \in rows => Told(rows, e)
    /\ \A rows, e, r : LinkRow(e, r) \in rows => Told(rows, e)
<1>1. /\ \A e : UserRow(e)[2][1] = e /\ UserRow(e)[1] # "role"
      /\ \A e, r : LinkRow(e, r)[2][1] = e /\ LinkRow(e, r)[1] # "role"
  BY DEF UserRow, LinkRow
<1>2. ASSUME NEW rows, NEW e, UserRow(e) \in rows PROVE Told(rows, e)
  BY <1>1, <1>2 DEF Told
<1>3. ASSUME NEW rows, NEW e, NEW r, LinkRow(e, r) \in rows PROVE Told(rows, e)
  BY <1>1, <1>3 DEF Told
<1> QED BY <1>1, <1>2, <1>3

\* The rows that a statement writes
LEMMA RowsHave ==
    ASSUME NEW u, NEW l, NEW r
    PROVE  \A e \in u : UserRow(e) \in Rows(u, l, r)
BY Zenon DEF Rows, UserRow

\* the rows of roles among them
LEMMA RowsHaveRole ==
    ASSUME NEW u, NEW l, NEW r PROVE \A x \in r : RoleRow(x) \in Rows(u, l, r)
BY Zenon DEF Rows, RoleRow

\* and those of the links of a user
LEMMA RowsHaveLinks ==
    ASSUME NEW id, NEW rs, NEW made
    PROVE  \A i \in Ids, r \in rs : i = id => LinkRow(users[i].email, r) \in Rows({}, NameOf(id) \X rs, made)
<1> SUFFICES ASSUME NEW i \in Ids, NEW r \in rs, i = id PROVE LinkRow(users[i].email, r) \in Rows({}, NameOf(id) \X rs, made)
  OBVIOUS
<1>1. <<users[i].email, r>> \in NameOf(id) \X rs
  BY DEF NameOf
<1> QED BY <1>1, Zenon DEF Rows, LinkRow

\* The largest element of a bounded set of numbers
LEMMA MaxIsLargest ==
    ASSUME NEW n \in Nat, NEW S \in SUBSET (0 .. n), 0 \in S
    PROVE  Max(S) \in S /\ \A x \in S : x <= Max(S)
<1> DEFINE R == OpToRel(<, Nat)
           T == {m \in Nat : \A x \in S : x <= m}
<1>1. \A k, m \in Nat : k < m => <<k, m>> \in R
  BY DEF OpToRel
<1>2. IsWellFoundedOn(R, Nat)
  BY NatLessThanWellFounded
<1>3. n \in T /\ T \subseteq Nat
  OBVIOUS
<1> HIDE DEF R, T
<1>4. PICK m \in T : \A y \in T : ~(<<y, m>> \in R)
  BY <1>2, <1>3, WFMin, Zenon
<1>5. \A y \in T : ~(y < m)
  BY <1>1, <1>3, <1>4, Zenon
<1>6. m \in Nat /\ \A x \in S : x <= m
  BY <1>4 DEF T
<1>7. m \in S
  <2> SUFFICES ASSUME m \notin S PROVE FALSE
    OBVIOUS
  <2>1. m # 0 /\ m - 1 \in Nat
    BY <1>6
  <2>2. \A x \in S : x <= m - 1
    BY <1>6
  <2>3. m - 1 \in T
    BY <2>1, <2>2 DEF T
  <2> QED BY <1>5, <1>6, <2>1, <2>3
<1> QED BY <1>6, <1>7 DEF Max

\* The id of a new user is not in use.
LEMMA NextIdIsNew ==
    ASSUME TablesInv
    PROVE  NextId \in Nat \ {0} /\ NextId \notin Ids
<1>1. MaxId \in Nat
  BY UsersConstants
<1> DEFINE S == {0} \union Ids
<1>2. S \in SUBSET (0 .. MaxId) /\ 0 \in S
  BY <1>1 DEF TablesInv
<1>3. Max(S) \in S /\ \A x \in S : x <= Max(S)
  BY <1>1, <1>2, MaxIsLargest
<1> QED BY <1>1, <1>2, <1>3 DEF NextId

\* Links are pairs of an id and a role.
LEMMA LinkFacts ==
    ASSUME TablesInv, NEW l \in DOMAIN links
    PROVE  /\ l = <<l[1], l[2]>> /\ l[1] \in 1 .. MaxId /\ l[2] \in AllRoles
           /\ links[l] \in Nat \ {0} /\ l[2] \in RolesOf(l[1])
<1>1. l \in (1 .. MaxId) \X AllRoles
  BY DEF TablesInv
<1>2. l = <<l[1], l[2]>> /\ l[1] \in 1 .. MaxId /\ l[2] \in AllRoles
  BY <1>1
<1>3. links[l] \in Nat \ {0}
  BY DEF TablesInv
<1> QED BY <1>2, <1>3 DEF RolesOf

\* A statement that changes neither users nor links
LEMMA NothingIsWritten ==
    ASSUME TablesInv, users' = users, links' = links, roles' \subseteq AllRoles, NEW rows,
           \A r \in AllRoles : RoleRow(r) \in rows \/ (r \in roles' => r \in roles)
    PROVE  Effect(rows) /\ (LinksAreClean => LinksAreClean') /\ Ids' = Ids
BY DEF TablesInv, Effect, FindUser, Ids, RolesOf, LinksAreClean

\* CreateUser
LEMMA UserIsCreated ==
    ASSUME TablesInv, NEW c, NEW email \in Emails, NEW legal \in BOOLEAN, NEW rs \in SUBSET RoleNames,
           FindUser(email) = {}, NextId <= MaxId, CreateUser(c, email, legal, rs),
           NEW rows, UserRow(email) \in rows
    PROVE  Effect(rows) /\ (LinksAreClean => LinksAreClean') /\ Ids \subseteq Ids'
<1> DEFINE new == {<<NextId, r>> : r \in rs}
           user == [email |-> email, legal |-> legal]
<1>1. NextId \in Nat \ {0} /\ NextId \notin Ids /\ NextId \in 1 .. MaxId
  BY NextIdIsNew, UsersConstants
<1>2. users' = [i \in Ids \union {NextId} |-> IF i = NextId THEN user ELSE users[i]]
  BY DEF CreateUser
<1>3. links' = WithLinks(links, new) /\ roles' = roles
  BY DEF CreateUser
<1>4. /\ Ids' = Ids \union {NextId} /\ users'[NextId] = user
      /\ \A i \in Ids : users'[i] = users[i]
  BY <1>1, <1>2 DEF Ids
<1>5. user \in UserRecords /\ user.email = email
  BY DEF UserRecords
<1> HIDE DEF user
<1>6. /\ DOMAIN links' = DOMAIN links \union new
      /\ \A l \in DOMAIN links : links'[l] = links[l] + IF l \in new THEN 1 ELSE 0
      /\ \A l \in new \ DOMAIN links : links'[l] = 1
  BY <1>3 DEF WithLinks, TablesInv
<1>7. /\ new \subseteq (1 .. MaxId) \X AllRoles /\ \A l \in new : l[1] = NextId
      /\ \A i \in Ids, r \in AllRoles : <<i, r>> \notin new
  BY <1>1 DEF AllRoles
<1> HIDE DEF new
<1>8. \A i \in Ids : users[i] \in UserRecords /\ users[i].email # email
  BY DEF TablesInv, FindUser
<1>9. TablesInv'
  <2>1. Ids' \subseteq 1 .. MaxId
    BY <1>1, <1>4 DEF TablesInv
  <2>2. users' \in [Ids' -> UserRecords]
    <3>1. \A i \in Ids' : users'[i] \in UserRecords
      BY <1>4, <1>5, <1>8
    <3>2. users' = [i \in Ids' |-> users'[i]]
      BY <1>2 DEF Ids
    <3> QED BY <3>1, <3>2
  <2>3. \A i, k \in Ids' : users'[i].email = users'[k].email => i = k
    BY <1>4, <1>5, <1>8 DEF TablesInv
  <2>4. DOMAIN links' \subseteq (1 .. MaxId) \X AllRoles
    BY <1>6, <1>7 DEF TablesInv
  <2>5. links' \in [DOMAIN links' -> Nat \ {0}]
    <3>1. \A l \in DOMAIN links' : links'[l] \in Nat \ {0}
      BY <1>6 DEF TablesInv
    <3>2. links' = [l \in DOMAIN links' |-> links'[l]]
      BY <1>3 DEF WithLinks
    <3> QED BY <3>1, <3>2
  <2> QED BY <1>3, <2>1, <2>2, <2>3, <2>4, <2>5 DEF TablesInv
<1>10. \A e \in Emails : UserRow(e) \in rows \/ (FindUser(e) # {} <=> FindUser(e)' # {})
  <2> SUFFICES ASSUME NEW e \in Emails, e # email PROVE FindUser(e) # {} <=> FindUser(e)' # {}
    OBVIOUS
  <2> QED BY <1>4, <1>5 DEF FindUser
<1>11. \A i \in Ids : RolesOf(i)' = RolesOf(i)
  BY <1>6, <1>7 DEF RolesOf
<1>13. LinksAreClean => LinksAreClean'
  <2> SUFFICES ASSUME LinksAreClean PROVE \A l \in DOMAIN links' : links'[l] = 1 /\ l[1] \in Ids'
    BY DEF LinksAreClean
  <2>1. \A l \in new : l \notin DOMAIN links
    BY <1>1, <1>7 DEF LinksAreClean
  <2> QED BY <1>4, <1>6, <1>7, <2>1 DEF LinksAreClean
<1>14. \A i \in Ids : i \in Ids' /\ users'[i].email = users[i].email
  BY <1>4
<1> QED BY <1>3, <1>4, <1>9, <1>10, <1>11, <1>13, <1>14 DEF Effect

\* Taking links away leaves a table of links.
LEMMA LinksAreTaken ==
    ASSUME TablesInv, NEW ls, NEW bag, bag = WithoutLinks(links, ls)
    PROVE  /\ DOMAIN bag = (DOMAIN links) \ ls /\ \A l \in DOMAIN bag : bag[l] = links[l]
           /\ bag \in [DOMAIN bag -> Nat \ {0}]
BY DEF WithoutLinks, TablesInv

\* DeleteUser: the links that were not read stay.
LEMMA UserIsDeleted ==
    ASSUME TablesInv, NEW c, NEW id, NEW held, DeleteUser(c, id, held), NEW rows, \A e \in NameOf(id) : UserRow(e) \in rows
    PROVE  /\ Effect(rows) /\ \A i \in Ids \ Ids' : i = id
           /\ LinksAreClean /\ (RolesOf(id) \subseteq held) => LinksAreClean'
<1> DEFINE gone == LinksOf(id, held)
<1>1. users' = [i \in Ids \ {id} |-> users[i]] /\ links' = WithoutLinks(links, gone) /\ roles' = roles
  BY DEF DeleteUser
<1>2. Ids' = Ids \ {id} /\ \A i \in Ids' : users'[i] = users[i]
  BY <1>1 DEF Ids
<1>3. /\ DOMAIN links' = (DOMAIN links) \ gone /\ \A l \in DOMAIN links' : links'[l] = links[l]
      /\ links' \in [DOMAIN links' -> Nat \ {0}]
  BY <1>1, LinksAreTaken
<1>4. \A i, r : <<i, r>> \in gone <=> i = id /\ r \in held
  BY DEF LinksOf
<1> HIDE DEF gone
<1>5. \A i \in Ids : i = id => UserRow(users[i].email) \in rows
  BY DEF NameOf
<1>6. TablesInv'
  <2>1. users' \in [Ids' -> UserRecords]
    BY <1>1, <1>2 DEF TablesInv
  <2>2. \A i, k \in Ids' : users'[i].email = users'[k].email => i = k
    BY <1>2 DEF TablesInv
  <2> QED BY <1>1, <1>2, <1>3, <2>1, <2>2 DEF TablesInv
<1>7. \A e \in Emails : UserRow(e) \in rows \/ (FindUser(e) # {} <=> FindUser(e)' # {})
  <2> SUFFICES ASSUME NEW e \in Emails, UserRow(e) \notin rows PROVE FindUser(e)' = FindUser(e)
    OBVIOUS
  <2>1. \A i \in Ids : users[i].email = e => i # id
    BY <1>5
  <2> QED BY <1>2, <2>1 DEF FindUser
<1>8. \A i \in Ids : i # id => RolesOf(i)' = RolesOf(i)
  BY <1>3, <1>4 DEF RolesOf
<1>9. \A i \in Ids : UserRow(users[i].email) \in rows \/ (i \in Ids' /\ users'[i].email = users[i].email)
  BY <1>2, <1>5
<1>10. \A i \in Ids : Told(rows, users[i].email) \/ RolesOf(i)' = RolesOf(i)
  BY <1>5, <1>8, RowFacts
<1>11. ASSUME LinksAreClean, RolesOf(id) \subseteq held PROVE LinksAreClean'
  <2> SUFFICES ASSUME NEW l \in DOMAIN links' PROVE links'[l] = 1 /\ l[1] \in Ids'
    BY DEF LinksAreClean
  <2>1. l \in DOMAIN links /\ l \notin gone /\ links'[l] = links[l]
    BY <1>3
  <2>2. l = <<l[1], l[2]>> /\ l[2] \in RolesOf(l[1])
    BY <2>1, LinkFacts
  <2>3. l[1] # id
    BY <1>4, <1>11, <2>1, <2>2
  <2> QED BY <1>2, <1>11, <2>1, <2>3 DEF LinksAreClean
<1> QED BY <1>1, <1>2, <1>6, <1>7, <1>9, <1>10, <1>11 DEF Effect

\* Adding links to a table of links
LEMMA WithLinksFacts ==
    ASSUME NEW bag, NEW ls, bag \in [DOMAIN bag -> Nat \ {0}], NEW sum, sum = WithLinks(bag, ls)
    PROVE  /\ DOMAIN sum = DOMAIN bag \union ls
           /\ \A l \in DOMAIN bag : sum[l] = bag[l] + IF l \in ls THEN 1 ELSE 0
           /\ \A l \in ls \ DOMAIN bag : sum[l] = 1
           /\ sum \in [DOMAIN sum -> Nat \ {0}]
BY DEF WithLinks

\* Links that are taken away and given: GiveRoles, TakeRoles, EditRolesCommits. They stay
\* clean if those that are given are new, and of users.
LEMMA LinksAreChanged ==
    ASSUME TablesInv, users' = users, roles' \subseteq AllRoles, NEW id \in 1 .. MaxId,
           NEW removed \in SUBSET AllRoles, NEW added \in SUBSET AllRoles,
           links' = WithLinks(WithoutLinks(links, LinksOf(id, removed)), LinksOf(id, added)),
           NEW made, roles' = roles \union made
    PROVE  /\ Effect(Rows({}, NameOf(id) \X (added \union removed), made)) /\ Ids' = Ids
           /\ LinksAreClean /\ id \in Ids /\ (added \intersect RolesOf(id) = {}) => LinksAreClean'
           /\ \A r \in AllRoles : <<id, r>> \in DOMAIN links' <=> (r \in RolesOf(id) /\ r \notin removed) \/ r \in added
<1> DEFINE gone == LinksOf(id, removed)
           new == LinksOf(id, added)
           bag == WithoutLinks(links, gone)
           rows == Rows({}, NameOf(id) \X (added \union removed), made)
<1>1. /\ DOMAIN bag = (DOMAIN links) \ gone /\ \A l \in DOMAIN bag : bag[l] = links[l]
      /\ bag \in [DOMAIN bag -> Nat \ {0}]
  BY LinksAreTaken
<1>2. links' = WithLinks(bag, new)
  OBVIOUS
<1>3. new \subseteq (1 .. MaxId) \X AllRoles
  BY DEF LinksOf
<1>4. \A i, r : (<<i, r>> \in gone <=> i = id /\ r \in removed) /\ (<<i, r>> \in new <=> i = id /\ r \in added)
  BY DEF LinksOf
<1>5. \A l \in new : l[1] = id /\ l[2] \in added /\ l = <<id, l[2]>>
  BY DEF LinksOf
<1>6. \A i \in Ids, r \in added \union removed : i = id => LinkRow(users[i].email, r) \in rows
  BY RowsHaveLinks
<1>7. \A r \in made : RoleRow(r) \in rows
  BY RowsHaveRole
<1> HIDE DEF bag, gone, new, rows
<1>8. /\ DOMAIN links' = DOMAIN bag \union new
      /\ \A l \in DOMAIN bag : links'[l] = bag[l] + IF l \in new THEN 1 ELSE 0
      /\ \A l \in new \ DOMAIN bag : links'[l] = 1
      /\ links' \in [DOMAIN links' -> Nat \ {0}]
  BY <1>1, <1>2, WithLinksFacts
<1>9. Ids' = Ids /\ \A e : FindUser(e)' = FindUser(e)
  BY DEF Ids, FindUser
<1>10. TablesInv'
  <2>1. DOMAIN links' \subseteq (1 .. MaxId) \X AllRoles
    BY <1>1, <1>3, <1>8 DEF TablesInv
  <2> QED BY <1>8, <1>9, <2>1 DEF TablesInv
<1>11. \A i \in Ids : Told(rows, users[i].email) \/ RolesOf(i)' = RolesOf(i)
  <2> SUFFICES ASSUME NEW i \in Ids, ~Told(rows, users[i].email) PROVE RolesOf(i)' = RolesOf(i)
    OBVIOUS
  <2>1. \A r \in added \union removed : i # id
    BY <1>6, RowFacts
  <2>2. \A r \in AllRoles : <<i, r>> \notin gone /\ <<i, r>> \notin new
    BY <1>4, <2>1
  <2> QED BY <1>1, <1>8, <2>2 DEF RolesOf
<1>12. Effect(rows)
  BY <1>7, <1>9, <1>10, <1>11 DEF Effect
<1>13. ASSUME LinksAreClean, id \in Ids, added \intersect RolesOf(id) = {} PROVE LinksAreClean'
  <2>1. \A l \in new : l \notin DOMAIN links
    <3> SUFFICES ASSUME NEW l \in new, l \in DOMAIN links PROVE FALSE
      OBVIOUS
    <3>1. l[2] \in RolesOf(id)
      BY <1>5, LinkFacts
    <3> QED BY <1>5, <1>13, <3>1
  <2>2. \A l \in new : l[1] \in Ids
    BY <1>5, <1>13
  <2> QED BY <1>1, <1>8, <1>9, <1>13, <2>1, <2>2 DEF LinksAreClean
<1>14. \A r \in AllRoles : <<id, r>> \in DOMAIN links' <=> (r \in RolesOf(id) /\ r \notin removed) \/ r \in added
  BY <1>1, <1>4, <1>8 DEF RolesOf
<1> QED BY <1>9, <1>12, <1>13, <1>14 DEF rows

\* Only adding, and only taking away
LEMMA LinksAreGiven ==
    ASSUME TablesInv, NEW c, NEW id \in 1 .. MaxId, NEW rs \in SUBSET AllRoles, GiveRoles(c, id, rs)
    PROVE  /\ Effect(Rows({}, NameOf(id) \X rs, {})) /\ Ids' = Ids
           /\ LinksAreClean /\ id \in Ids /\ (rs \intersect RolesOf(id) = {}) => LinksAreClean'
<1>1. WithoutLinks(links, LinksOf(id, {})) = links
  BY DEF WithoutLinks, LinksOf, TablesInv
<1>2. links' = WithLinks(WithoutLinks(links, LinksOf(id, {})), LinksOf(id, rs))
  BY <1>1 DEF GiveRoles
<1>3. users' = users /\ roles' = roles \union {} /\ roles' \subseteq AllRoles /\ {} \in SUBSET AllRoles /\ rs \union {} = rs
  BY DEF GiveRoles, TablesInv
<1> QED BY <1>2, <1>3, LinksAreChanged

LEMMA LinksAreTakenAway ==
    ASSUME TablesInv, NEW c, NEW id \in 1 .. MaxId, NEW rs \in SUBSET AllRoles, TakeRoles(c, id, rs)
    PROVE  /\ Effect(Rows({}, NameOf(id) \X rs, {})) /\ Ids' = Ids
           /\ LinksAreClean => LinksAreClean'
<1> DEFINE bag == WithoutLinks(links, LinksOf(id, rs))
<1>1. /\ DOMAIN bag = (DOMAIN links) \ LinksOf(id, rs) /\ \A l \in DOMAIN bag : bag[l] = links[l]
      /\ bag \in [DOMAIN bag -> Nat \ {0}]
  BY LinksAreTaken
<1>2. links' = bag
  BY DEF TakeRoles
<1>3. LinksOf(id, {}) = {}
  BY DEF LinksOf
<1> HIDE DEF bag
<1>4. links' = WithLinks(bag, LinksOf(id, {}))
  BY <1>1, <1>2, <1>3 DEF WithLinks
<1>5. users' = users /\ roles' = roles \union {} /\ roles' \subseteq AllRoles /\ {} \in SUBSET AllRoles /\ {} \union rs = rs
  BY DEF TakeRoles, TablesInv
<1>6. Effect(Rows({}, NameOf(id) \X rs, {})) /\ Ids' = Ids
  BY <1>4, <1>5, LinksAreChanged DEF bag
<1>7. LinksAreClean => LinksAreClean'
  BY <1>1, <1>2, <1>6 DEF LinksAreClean
<1> QED BY <1>6, <1>7

\* ChangePasswordCommits
LEMMA PasswordIsChanged ==
    ASSUME TablesInv, NEW id \in Ids, NEW legal \in BOOLEAN, users' = [users EXCEPT ![id].legal = legal],
           links' = links, roles' = roles, NEW rows
    PROVE  Effect(rows) /\ (LinksAreClean => LinksAreClean') /\ Ids' = Ids /\ \A i \in Ids : users'[i] # users[i] => i = id
<1> DEFINE changed == [users[id] EXCEPT !.legal = legal]
<1>1. users \in [Ids -> UserRecords] /\ users[id] \in UserRecords
  BY DEF TablesInv
<1>2. changed \in UserRecords /\ changed.email = users[id].email
  BY <1>1 DEF UserRecords
<1>3. users' = [users EXCEPT ![id] = changed]
  BY <1>1
<1> HIDE DEF changed
<1>4. /\ Ids' = Ids /\ users' \in [Ids -> UserRecords]
      /\ \A i \in Ids : users'[i].email = users[i].email
      /\ \A i \in Ids : users'[i] # users[i] => i = id
  BY <1>1, <1>2, <1>3 DEF Ids
<1>5. TablesInv'
  BY <1>4 DEF TablesInv
<1>6. \A e : FindUser(e)' = FindUser(e)
  BY <1>4 DEF FindUser
<1>7. \A i : RolesOf(i)' = RolesOf(i)
  BY DEF RolesOf
<1>8. LinksAreClean => LinksAreClean'
  BY <1>4 DEF LinksAreClean
<1> QED BY <1>4, <1>5, <1>6, <1>7, <1>8 DEF Effect

-----------------------------------------------------------------------------
(* A step of one client, and what the others know.                         *)

\* Client c has written the rows.
Notes(c, rows) ==
    /\ DOMAIN written' = Clients
    /\ \A d \in Clients \ {c} : written'[d] = IF Waits(d) THEN written[d] \union rows ELSE written[d]

\* The ways in which actions do so
LEMMA WritesNotes ==
    ASSUME NEW c \in Clients, NEW rows, Writes(c, rows) PROVE Notes(c, rows) /\ written'[c] = {}
BY DEF Writes, Notes
\* A client that writes nothing may forget what others wrote.
LEMMA SilenceNotes ==
    ASSUME ClientsInv, NEW c \in Clients, written' = written \/ written' = [written EXCEPT ![c] = {}]
    PROVE  Notes(c, {})
BY DEF ClientsInv, Notes

\* What a client d that waits has read stays so, or it is told.
LEMMA KnowledgeStays ==
    ASSUME NEW d, NEW rows, Effect(rows), written'[d] = written[d] \union rows
    PROVE  /\ \A id, email : Named(d, id, email) => Named(d, id, email)'
           /\ \A id, email, held, lacking : RolesKnown(d, id, email, held, lacking) => RolesKnown(d, id, email, held, lacking)'
           /\ \A rs : rs \subseteq AllRoles /\ NamesKnown(d, rs) => NamesKnown(d, rs)'
<1>1. \A i \in Ids : UserRow(users[i].email) \in rows \/ (i \in Ids' /\ users'[i].email = users[i].email)
  BY DEF Effect
<1>2. \A i \in Ids : Told(rows, users[i].email) \/ RolesOf(i)' = RolesOf(i)
  BY DEF Effect
<1>3. \A r \in AllRoles : RoleRow(r) \in rows \/ (r \in roles' => r \in roles)
  BY DEF Effect
<1>4. ASSUME NEW id, NEW email, Named(d, id, email) PROVE Named(d, id, email)'
  BY <1>1, <1>4 DEF Named, UserWritten, UserRow
<1>5. ASSUME NEW id, NEW email, NEW held, NEW lacking, RolesKnown(d, id, email, held, lacking)
      PROVE  RolesKnown(d, id, email, held, lacking)'
  <2>1. CASE Interfered(d, email)
    <3>1. Interfered(d, email)'
      BY <2>1 DEF Interfered
    <3> QED BY <3>1 DEF RolesKnown
  <2>2. CASE id \in Ids /\ users[id].email = email /\ Told(rows, email)
    <3>1. Interfered(d, email)'
      BY <2>2 DEF Interfered, Told
    <3> QED BY <3>1 DEF RolesKnown
  <2>3. CASE id \in Ids /\ users[id].email = email /\ ~Told(rows, email) /\ held \subseteq RolesOf(id) /\ lacking \intersect RolesOf(id) = {}
    <3>1. id \in Ids' /\ users'[id].email = email /\ RolesOf(id)' = RolesOf(id)
      BY <1>1, <1>2, <2>3, RowFacts
    <3> QED BY <2>3, <3>1 DEF RolesKnown
  <2> QED BY <1>5, <2>1, <2>2, <2>3 DEF RolesKnown
<1>6. ASSUME NEW rs, rs \subseteq AllRoles, NamesKnown(d, rs) PROVE NamesKnown(d, rs)'
  BY <1>3, <1>6 DEF NamesKnown, RolesWritten, RoleRow
<1> QED BY <1>4, <1>5, <1>6

\* So do all that others know.
LEMMA OthersKnow ==
    ASSUME UsersInv, NEW c \in Clients, NEW rows, Effect(rows), Notes(c, rows)
    PROVE  /\ c # "terminal" /\ terminal' = terminal => TerminalKnows'
           /\ \A s \in Sessions \ {c} : web'[s] = web[s] => SessionKnows(s)'
<1>1. "terminal" \in Clients /\ "terminal" \notin Sessions /\ Sessions \subseteq Clients
  BY UsersConstants DEF Clients
<1>2. ASSUME c # "terminal", terminal' = terminal PROVE TerminalKnows'
  <2>1. CASE terminal.at \in {"off", "menu", "failed"}
    BY <1>2, <2>1 DEF TerminalKnows, ActionNames, HaveUser, HaveRole
  <2>2. CASE terminal.at \notin {"off", "menu", "failed"}
    <3>1. written'["terminal"] = written["terminal"] \union rows
      BY <1>1, <1>2, <2>2 DEF Notes, Waits
    <3>2. /\ \A id, email : Named("terminal", id, email) => Named("terminal", id, email)'
          /\ \A id, email, held, lacking : RolesKnown("terminal", id, email, held, lacking) => RolesKnown("terminal", id, email, held, lacking)'
          /\ \A rs : rs \subseteq AllRoles /\ NamesKnown("terminal", rs) => NamesKnown("terminal", rs)'
      BY <3>1, KnowledgeStays
    <3>3. TerminalKnows /\ terminal.roles \subseteq AllRoles
      BY DEF UsersInv, ClientsInv, TerminalRecords
    <3>4. ASSUME terminal.at \in ActionNames, NEW e \in Emails
          PROVE  UserRow(e) \in written'["terminal"] \/ (e \in terminal.users <=> FindUser(e)' # {})
      <4>1. UserRow(e) \in written["terminal"] \/ (e \in terminal.users <=> FindUser(e) # {})
        BY <3>3, <3>4 DEF TerminalKnows
      <4>2. UserRow(e) \in rows \/ (FindUser(e) # {} <=> FindUser(e)' # {})
        BY DEF Effect
      <4> QED BY <3>1, <4>1, <4>2
    <3>5. terminal.at \in HaveUser => Named("terminal", terminal.id, terminal.user)'
      BY <1>2, <3>2, <3>3 DEF TerminalKnows
    <3>6. terminal.at = "link" => RolesKnown("terminal", terminal.id, terminal.user, {}, terminal.roles)'
      BY <1>2, <3>2, <3>3 DEF TerminalKnows
    <3>7. terminal.at = "unlink" => RolesKnown("terminal", terminal.id, terminal.user, terminal.roles, {})'
      BY <1>2, <3>2, <3>3 DEF TerminalKnows
    <3>8. terminal.at = "flush" => RolesKnown("terminal", terminal.id, terminal.user, terminal.roles, AllRoles \ terminal.roles)'
      BY <1>2, <3>2, <3>3 DEF TerminalKnows
    <3>9. terminal.at \in HaveRole => NamesKnown("terminal", terminal.roles)'
      BY <1>2, <3>2, <3>3 DEF TerminalKnows
    <3> QED BY <1>2, <3>4, <3>5, <3>6, <3>7, <3>8, <3>9 DEF TerminalKnows
  <2> QED BY <2>1, <2>2
<1>3. ASSUME NEW s \in Sessions \ {c}, web'[s] = web[s] PROVE SessionKnows(s)'
  <2>1. CASE web[s].at = "idle"
    BY <1>3, <2>1 DEF SessionKnows
  <2>2. CASE web[s].at # "idle"
    <3>1. written'[s] = written[s] \union rows
      BY <1>1, <1>3, <2>2 DEF Notes, Waits
    <3>2. /\ \A id, email : Named(s, id, email) => Named(s, id, email)'
          /\ \A id, email, held, lacking : RolesKnown(s, id, email, held, lacking) => RolesKnown(s, id, email, held, lacking)'
          /\ \A rs : rs \subseteq AllRoles /\ NamesKnown(s, rs) => NamesKnown(s, rs)'
      BY <3>1, KnowledgeStays
    <3>3. SessionKnows(s) /\ web[s].missing \subseteq AllRoles
      BY DEF UsersInv, ClientsInv, WebRequests, AllRoles
    <3>4. web[s].at \in {"page", "password", "delete", "flush"} => Named(s, web[s].id, web[s].email)'
      BY <1>3, <3>2, <3>3 DEF SessionKnows
    <3>5. web[s].at \in {"edit", "flush"} => RolesKnown(s, web[s].id, web[s].email, web[s].held, AllRoles \ web[s].held)'
      BY <1>3, <3>2, <3>3 DEF SessionKnows
    <3>6. web[s].at = "edit" => NamesKnown(s, web[s].missing)'
      BY <1>3, <3>2, <3>3 DEF SessionKnows
    <3> QED BY <1>3, <3>4, <3>5, <3>6 DEF SessionKnows
  <2> QED BY <2>1, <2>2
<1> QED BY <1>2, <1>3

\* The promises about a step
FailStep ==
    terminal.at # "failed" /\ terminal'.at = "failed" =>
        \/ Interfered("terminal", terminal'.user) \/ Duplicated(terminal'.user)
        \/ terminal.at \in {"new_role", "initialise"} /\ RolesWritten("terminal", terminal.roles)
EditStep ==
    \A s \in Sessions :
        web[s].at = "edit" /\ web'[s].at = "idle" /\ ~Interfered(s, web[s].email) /\ ~Duplicated(web[s].email) /\ ~RolesWritten(s, web[s].missing)
            => {r \in AllRoles : <<web[s].id, r>> \in DOMAIN links'} = web[s].selected \union (RolesOf(web[s].id) \ RoleNames)
CleanStep ==
    LinksAreClean /\ ~LinksAreClean' =>
        \/ terminal.at \in WritesLinks /\ terminal'.at = "menu" /\ Interfered("terminal", terminal.user)
        \/ \E s \in Sessions : web[s].at \in WritesLinks /\ web'[s].at = "idle" /\ Interfered(s, web[s].email)
PageStep ==
    \A s \in Sessions, id \in Ids :
        web[s].at = "password" /\ web'[s].at = "idle" /\ id \in Ids' /\ users'[id] # users[id]
            => users[id].email = web[s].email \/ UserWritten(s, web[s].email)
GoStep ==
    \A i \in Ids \ Ids' :
        \/ terminal.at = "flush" /\ terminal'.at = "menu" /\ (users[i].email = terminal.user \/ UserWritten("terminal", terminal.user))
        \/ \E s \in Sessions : web[s].at = "flush" /\ web'[s].at = "idle" /\ (users[i].email = web[s].email \/ UserWritten(s, web[s].email))
StepPromises == FailStep /\ EditStep /\ CleanStep /\ PageStep /\ GoStep

\* A step of FACTUM
LEMMA StepOfTerminal ==
    ASSUME UsersInv, Given("users"), input' = input, web' = web, NEW rows, Effect(rows), Notes("terminal", rows),
           terminal' \in TerminalRecords, terminal'.at \in HaveUser => terminal'.id \in 1 .. MaxId /\ terminal'.user \in Emails,
           TerminalKnows', FailStep, CleanStep, GoStep
    PROVE  UsersInv' /\ StepPromises
<1>1. "terminal" \in Clients /\ "terminal" \notin Sessions
  BY UsersConstants DEF Clients
<1>2. \A s \in Sessions : SessionKnows(s)'
  BY <1>1, OthersKnow
<1>3. ClientsInv'
  BY DEF UsersInv, ClientsInv, Notes, Given
<1>4. StepPromises
  BY DEF StepPromises, EditStep, PageStep
<1> QED BY <1>2, <1>3, <1>4 DEF UsersInv, Effect

\* A step of a request
LEMMA StepOfSession ==
    ASSUME UsersInv, Given("users"), input' = input, terminal' = terminal, NEW s \in Sessions, NEW rows, Effect(rows), Notes(s, rows),
           NEW r \in WebRequests, web' = [web EXCEPT ![s] = r], r.at \in ShowUsers => r.id \in 1 .. MaxId,
           r.at = "add" => r.email \in Emails, SessionKnows(s)'
    PROVE  /\ UsersInv' /\ web'[s] = r /\ \A d \in Sessions \ {s} : web'[d] = web[d]
           /\ (web[s].at = "edit" => r.at # "idle") => EditStep
           /\ (web[s].at = "password" => r.at # "idle") => PageStep
           /\ FailStep
<1>1. s \in Clients /\ s # "terminal"
  BY UsersConstants DEF Clients
<1>2. web \in [Sessions -> WebRequests]
  BY DEF UsersInv, ClientsInv
<1>3. web' \in [Sessions -> WebRequests] /\ web'[s] = r /\ \A d \in Sessions \ {s} : web'[d] = web[d]
  BY <1>2
<1>4. TerminalKnows' /\ \A d \in Sessions : SessionKnows(d)'
  BY <1>1, <1>3, OthersKnow
<1>5. ClientsInv'
  BY <1>3 DEF UsersInv, ClientsInv, Notes, Given
<1>6. ASSUME web[s].at = "edit" => r.at # "idle" PROVE EditStep
  BY <1>3, <1>6 DEF EditStep
<1>7. ASSUME web[s].at = "password" => r.at # "idle" PROVE PageStep
  BY <1>3, <1>7 DEF PageStep
<1>8. FailStep
  BY DEF FailStep
<1> QED BY <1>3, <1>4, <1>5, <1>6, <1>7, <1>8 DEF UsersInv, Effect

-----------------------------------------------------------------------------
(* The actions of FACTUM.                                                  *)

\* FACTUM is where it knows nothing.
LEMMA MenuKnows ==
    ASSUME terminal' = Menu \/ terminal' = AtStep("off")
    PROVE  terminal' \in TerminalRecords /\ terminal'.at \in {"menu", "off"} /\ TerminalKnows'
<1>1. Menu \in TerminalRecords /\ Menu.at = "menu" /\ AtStep("off") \in TerminalRecords /\ AtStep("off").at = "off"
  BY DEF Menu, AtStep, TerminalRecords
<1> QED BY <1>1 DEF TerminalKnows, ActionNames, HaveUser, HaveRole

\* A step of FACTUM back to its menu
LEMMA MenuStep ==
    ASSUME UsersInv, Given("users"), input' = input, web' = web, NEW rows, Effect(rows), Writes("terminal", rows),
           terminal' = Menu \/ terminal' = AtStep("off"), CleanStep, GoStep
    PROVE  UsersInv' /\ StepPromises
<1>1. Notes("terminal", rows)
  BY WritesNotes DEF Clients
<1>2. terminal' \in TerminalRecords /\ terminal'.at \in {"menu", "off"} /\ TerminalKnows'
  BY MenuKnows
<1>3. FailStep /\ (terminal'.at \in HaveUser => terminal'.id \in 1 .. MaxId /\ terminal'.user \in Emails)
  BY <1>2 DEF FailStep, HaveUser
<1> QED BY <1>1, <1>2, <1>3, StepOfTerminal

\* A step of FACTUM back to its menu that writes no user and no role of a user
LEMMA IdleStep ==
    ASSUME UsersInv, Given("users"), input' = input, web' = web, NEW rows, Writes("terminal", rows),
           terminal' = Menu \/ terminal' = AtStep("off"), users' = users, links' = links, roles' \subseteq AllRoles,
           \A r \in AllRoles : RoleRow(r) \in rows \/ (r \in roles' => r \in roles)
    PROVE  UsersInv' /\ StepPromises
<1>1. Effect(rows) /\ (LinksAreClean => LinksAreClean') /\ Ids' = Ids
  BY NothingIsWritten DEF UsersInv
<1>2. CleanStep /\ GoStep
  BY <1>1 DEF CleanStep, GoStep
<1> QED BY <1>1, <1>2, MenuStep

\* It goes back and has written nothing.
LEMMA NothingStep ==
    ASSUME UsersInv, Given("users"), Continues, web' = web, Back, WritesNothing("terminal")
    PROVE  UsersInv' /\ StepPromises
<1>1. /\ users' = users /\ links' = links /\ roles' = roles /\ Writes("terminal", {}) /\ input' = input /\ terminal' = Menu
  BY DEF WritesNothing, Continues, Back
<1>2. roles \subseteq AllRoles
  BY DEF UsersInv, TablesInv
<1> QED BY <1>1, <1>2, IdleStep

\* FACTUM reads, or ends with an error: the tables stay.
LEMMA QuietStep ==
    ASSUME UsersInv, Given("users"), Continues, web' = web, users' = users, links' = links, roles' = roles,
           written' = written \/ written' = [written EXCEPT !["terminal"] = {}],
           terminal' \in TerminalRecords, terminal'.at \in HaveUser => terminal'.id \in 1 .. MaxId /\ terminal'.user \in Emails,
           TerminalKnows', FailStep
    PROVE  UsersInv' /\ StepPromises
<1>1. TablesInv /\ ClientsInv /\ roles \subseteq AllRoles /\ "terminal" \in Clients /\ input' = input
  BY DEF UsersInv, TablesInv, Clients, Continues
<1>2. Effect({}) /\ (LinksAreClean => LinksAreClean') /\ Ids' = Ids
  BY <1>1, NothingIsWritten
<1>3. Notes("terminal", {})
  BY <1>1, SilenceNotes
<1>4. CleanStep /\ GoStep
  BY <1>2 DEF CleanStep, GoStep
<1> QED BY <1>1, <1>2, <1>3, <1>4, StepOfTerminal

\* FACTUM ends with an error.
LEMMA FailureStep ==
    ASSUME UsersInv, Given("users"), NEW email \in Emails \union {"none"}, TerminalFails(email), Continues, web' = web,
           \/ Interfered("terminal", email) \/ Duplicated(email)
           \/ terminal.at \in {"new_role", "initialise"} /\ RolesWritten("terminal", terminal.roles)
    PROVE  UsersInv' /\ StepPromises
<1>1. /\ terminal' = [AtStep("failed") EXCEPT !.user = email]
      /\ users' = users /\ links' = links /\ roles' = roles /\ written' = written
  BY DEF TerminalFails
<1>2. terminal' = [at |-> "failed", users |-> {}, roles |-> {}, user |-> email, id |-> 0]
  BY <1>1 DEF AtStep, Menu
<1>3. terminal' \in TerminalRecords /\ terminal'.at = "failed" /\ terminal'.user = email
  BY <1>2 DEF TerminalRecords
<1>4. TerminalKnows' /\ terminal'.at \notin HaveUser
  BY <1>3 DEF TerminalKnows, ActionNames, HaveUser, HaveRole
<1>5. FailStep
  BY <1>3 DEF FailStep
<1> QED BY <1>1, <1>3, <1>4, <1>5, QuietStep

\* FACTUM has found a user, and what it needs to know of its roles.
LEMMA FindStep ==
    ASSUME UsersInv, Given("users"), Continues, web' = web, NEW point \in HaveUser, NEW email \in Emails, NEW id \in FindUser(email),
           NEW rs \in SUBSET AllRoles, Finds(point, email, id, rs),
           point # "flush", point = "link" => rs \intersect RolesOf(id) = {}, point = "unlink" => rs \subseteq RolesOf(id)
    PROVE  UsersInv' /\ StepPromises
<1>1. /\ terminal' = [at |-> point, users |-> {}, roles |-> rs, user |-> email, id |-> id]
      /\ written' = [written EXCEPT !["terminal"] = {}] /\ users' = users /\ links' = links /\ roles' = roles
  BY DEF Finds
<1>2. id \in Ids /\ users[id].email = email /\ id \in 1 .. MaxId /\ MaxId \in Nat
  BY UsersConstants DEF FindUser, UsersInv, TablesInv
<1>3. /\ terminal' \in TerminalRecords /\ terminal'.at = point /\ terminal'.id = id /\ terminal'.user = email
      /\ terminal'.roles = rs
  BY <1>1, <1>2 DEF TerminalRecords
<1>4. Ids' = Ids /\ RolesOf(id)' = RolesOf(id)
  BY <1>1 DEF Ids, RolesOf
<1>5. Named("terminal", id, email)'
  BY <1>1, <1>2, <1>4 DEF Named
<1>6. point = "link" => RolesKnown("terminal", id, email, {}, rs)'
  BY <1>1, <1>2, <1>4 DEF RolesKnown
<1>7. point = "unlink" => RolesKnown("terminal", id, email, rs, {})'
  BY <1>1, <1>2, <1>4 DEF RolesKnown
<1>8. point \notin ActionNames /\ point \notin HaveRole /\ point # "failed"
  BY DEF HaveUser, ActionNames, HaveRole
<1>9. TerminalKnows'
  BY <1>3, <1>5, <1>6, <1>7, <1>8 DEF TerminalKnows, Named, RolesKnown
<1>10. FailStep
  BY <1>3, <1>8 DEF FailStep
<1> QED BY <1>1, <1>2, <1>3, <1>9, <1>10, QuietStep

\* FACTUM has seen that a role is missing.
LEMMA RoleStep ==
    ASSUME UsersInv, Given("users"), Continues, web' = web, NEW point \in HaveRole, NEW role \in AllRoles \ roles,
           Finds(point, "none", 0, {role})
    PROVE  UsersInv' /\ StepPromises
<1>1. /\ terminal' = [at |-> point, users |-> {}, roles |-> {role}, user |-> "none", id |-> 0]
      /\ written' = [written EXCEPT !["terminal"] = {}] /\ users' = users /\ links' = links /\ roles' = roles
  BY DEF Finds
<1>2. /\ terminal' \in TerminalRecords /\ terminal'.at = point /\ terminal'.roles = {role}
  BY <1>1 DEF TerminalRecords
<1>3. NamesKnown("terminal", {role})'
  BY <1>1 DEF NamesKnown
<1>4. point \notin ActionNames /\ point \notin HaveUser /\ point # "failed"
  BY DEF HaveUser, ActionNames, HaveRole
<1>5. TerminalKnows'
  BY <1>2, <1>3, <1>4 DEF TerminalKnows, NamesKnown, HaveUser
<1>6. FailStep
  BY <1>2, <1>4 DEF FailStep
<1> QED BY <1>1, <1>2, <1>4, <1>5, <1>6, QuietStep

\* Once FACTUM runs there is a database, and what was read is in order.
LEMMA AtPrompt ==
    ASSUME UsersInv, terminal.at # "off"
    PROVE  Given("users") /\ terminal.users \subseteq Emails /\ terminal.roles \subseteq AllRoles /\ terminal.user \in Emails \union {"none"}
BY DEF UsersInv, ClientsInv, TerminalRecords

\* What FACTUM has read of the users differs from the table only if others have written.
LEMMA TerminalSeesUsers ==
    ASSUME UsersInv, terminal.at \in ActionNames, NEW e \in Emails, ~(e \in terminal.users <=> FindUser(e) # {})
    PROVE  Interfered("terminal", e)
<1>1. UserRow(e) \in written["terminal"]
  BY DEF UsersInv, TerminalKnows
<1> QED BY <1>1, RowFacts DEF Interfered

\* FACTUM starts, and looks for roles that are missing.
LEMMA InitialiseRolesStep ==
    ASSUME UsersInv, InitialiseRoles PROVE UsersInv' /\ StepPromises
<1>1. /\ Given("users") /\ Continues /\ web' = web
      /\ IF RoleNames \subseteq roles THEN Back /\ WritesNothing("terminal")
         ELSE \E role \in RoleNames \ roles : Finds("initialise", "none", 0, {role})
  BY DEF InitialiseRoles
<1>2. CASE RoleNames \subseteq roles
  BY <1>1, <1>2, NothingStep
<1>3. ASSUME NEW role \in RoleNames \ roles, Finds("initialise", "none", 0, {role}) PROVE UsersInv' /\ StepPromises
  <2>1. role \in AllRoles \ roles /\ "initialise" \in HaveRole
    BY DEF AllRoles, HaveRole
  <2> QED BY <1>1, <1>3, <2>1, RoleStep
<1> QED BY <1>1, <1>2, <1>3

\* An action is chosen, and the lists are read.
LEMMA PromptLoopStep ==
    ASSUME UsersInv, PromptLoop PROVE UsersInv' /\ StepPromises
<1>1. PICK action \in ActionNames : Ask(action)
  BY DEF PromptLoop
<1>2. /\ Given("users") /\ input' = input /\ web' = web /\ Writes("terminal", {})
      /\ users' = users /\ links' = links /\ roles' = roles
  BY DEF PromptLoop, Starts, WritesNothing
<1>3. terminal' = [at |-> action, users |-> {users[i].email : i \in Ids}, roles |-> roles, user |-> "none", id |-> 0]
  BY <1>1 DEF Ask
<1>4. TablesInv /\ roles \subseteq AllRoles /\ \A i \in Ids : users[i].email \in Emails
  BY DEF UsersInv, TablesInv, UserRecords
<1>5. terminal' \in TerminalRecords /\ terminal'.at = action /\ terminal'.users = {users[i].email : i \in Ids}
  BY <1>3, <1>4 DEF TerminalRecords
<1>6. \A e \in Emails : e \in terminal'.users <=> FindUser(e)' # {}
  BY <1>2, <1>5 DEF FindUser, Ids
<1>7. action \notin HaveUser /\ action \notin HaveRole /\ action # "failed"
  BY DEF ActionNames, HaveUser, HaveRole
<1>8. TerminalKnows'
  BY <1>5, <1>6, <1>7 DEF TerminalKnows, HaveUser
<1>9. Effect({}) /\ (LinksAreClean => LinksAreClean') /\ Ids' = Ids
  BY <1>2, <1>4, NothingIsWritten
<1>10. Notes("terminal", {})
  BY <1>2, WritesNotes DEF Clients
<1>11. FailStep /\ CleanStep /\ GoStep
  BY <1>5, <1>7, <1>9 DEF FailStep, CleanStep, GoStep
<1> QED BY <1>2, <1>5, <1>7, <1>8, <1>9, <1>10, <1>11, StepOfTerminal

\* A prompt is left.
LEMMA InterruptStep ==
    ASSUME UsersInv, Interrupt PROVE UsersInv' /\ StepPromises
<1>1. terminal.at # "off" /\ Back /\ WritesNothing("terminal") /\ Continues /\ web' = web
  BY DEF Interrupt, ActionNames
<1>2. Given("users")
  BY <1>1, AtPrompt
<1> QED BY <1>1, <1>2, NothingStep

\* FACTUM creates a user.
LEMMA TerminalCreateUserStep ==
    ASSUME UsersInv, TerminalCreateUser PROVE UsersInv' /\ StepPromises
<1>1. /\ terminal.at = "create_user" /\ terminal.at \in ActionNames /\ NextId <= MaxId /\ Continues /\ input' = input /\ web' = web
  BY DEF TerminalCreateUser, Continues, ActionNames
<1>2. PICK email \in Emails :
        /\ email \notin terminal.users
        /\ IF FindUser(email) # {} THEN TerminalFails(email)
           ELSE CreateUser("terminal", email, TRUE, {"guest"}) /\ Back
  BY DEF TerminalCreateUser, ActionValidatorReverse
<1>3. Given("users") /\ TablesInv
  BY <1>1, AtPrompt DEF UsersInv
<1>4. CASE FindUser(email) # {}
  <2>1. Interfered("terminal", email)
    BY <1>1, <1>2, <1>4, TerminalSeesUsers
  <2> QED BY <1>1, <1>2, <1>3, <1>4, <2>1, FailureStep
<1>5. CASE FindUser(email) = {}
  <2> DEFINE rows == Rows({email}, {<<email, r>> : r \in {"guest"}}, {})
  <2>1. CreateUser("terminal", email, TRUE, {"guest"}) /\ terminal' = Menu
    BY <1>2, <1>5 DEF Back
  <2>2. Writes("terminal", rows) /\ UserRow(email) \in rows
    BY <2>1, RowsHave DEF CreateUser
  <2> HIDE DEF rows
  <2>3. {"guest"} \in SUBSET RoleNames
    BY UsersConstants
  <2>4. Effect(rows) /\ (LinksAreClean => LinksAreClean') /\ Ids \subseteq Ids'
    BY <1>1, <1>3, <1>5, <2>1, <2>2, <2>3, UserIsCreated
  <2>5. CleanStep /\ GoStep
    BY <2>4 DEF CleanStep, GoStep
  <2> QED BY <1>1, <1>3, <2>1, <2>2, <2>4, <2>5, MenuStep
<1> QED BY <1>4, <1>5

\* A user that cannot be deleted, or whose role cannot be taken away, holds one twice.
LEMMA TwiceIsDuplicated ==
    ASSUME TablesInv, NEW email, NEW id \in Ids, users[id].email = email, NEW held, held \subseteq RolesOf(id), ~LinksCanGo(LinksOf(id, held))
    PROVE  Duplicated(email)
<1>1. PICK l \in LinksOf(id, held) : ~(l \in DOMAIN links /\ links[l] = 1)
  BY DEF LinksCanGo
<1>2. l \in DOMAIN links /\ l[1] = id
  <2>1. PICK r \in held : l = <<id, r>>
    BY <1>1 DEF LinksOf
  <2> QED BY <2>1 DEF RolesOf
<1>3. links[l] \in Nat \ {0}
  BY <1>2 DEF TablesInv
<1>4. id \in FindUser(email)
  BY DEF FindUser
<1> QED BY <1>1, <1>2, <1>3, <1>4 DEF Duplicated

\* So a write of FACTUM that fails is explained.
LEMMA FailureIsExplained ==
    ASSUME TablesInv, NEW c, NEW id, NEW email, NEW held, NEW lacking, RolesKnown(c, id, email, held, lacking), ~LinksCanGo(LinksOf(id, held))
    PROVE  Interfered(c, email) \/ Duplicated(email)
BY TwiceIsDuplicated DEF RolesKnown

\* FACTUM looks a user up that is to be deleted.
LEMMA TerminalDeleteUserStep ==
    ASSUME UsersInv, TerminalDeleteUser PROVE UsersInv' /\ StepPromises
<1>1. /\ terminal.at = "delete_user" /\ terminal.at \in ActionNames /\ Continues /\ web' = web
  BY DEF TerminalDeleteUser, ActionNames
<1>2. PICK email \in terminal.users :
        \/ FindUser(email) = {} /\ TerminalFails(email)
        \/ \E id \in FindUser(email) : Finds("delete", email, id, {})
  BY DEF TerminalDeleteUser
<1>3. Given("users") /\ email \in Emails /\ "delete" \in HaveUser /\ {} \in SUBSET AllRoles
  BY <1>1, AtPrompt DEF HaveUser
<1>4. CASE FindUser(email) = {} /\ TerminalFails(email)
  <2>1. Interfered("terminal", email)
    BY <1>1, <1>3, <1>4, TerminalSeesUsers
  <2> QED BY <1>1, <1>3, <1>4, <2>1, FailureStep
<1>5. ASSUME NEW id \in FindUser(email), Finds("delete", email, id, {}) PROVE UsersInv' /\ StepPromises
  BY <1>1, <1>3, <1>5, FindStep
<1> QED BY <1>2, <1>4, <1>5

\* Its roles are read.
LEMMA TerminalDeleteReadsStep ==
    ASSUME UsersInv, TerminalDeleteReads PROVE UsersInv' /\ StepPromises
<1> DEFINE held == RolesOf(terminal.id)
<1>1. /\ terminal.at = "delete" /\ Continues /\ web' = web /\ users' = users /\ links' = links /\ roles' = roles /\ written' = written
      /\ terminal' = [terminal EXCEPT !.at = "flush", !.roles = held]
  BY DEF TerminalDeleteReads
<1>2. /\ Given("users") /\ terminal \in TerminalRecords /\ terminal.id \in 1 .. MaxId /\ terminal.user \in Emails
      /\ Named("terminal", terminal.id, terminal.user)
  BY <1>1, AtPrompt DEF UsersInv, ClientsInv, HaveUser, TerminalKnows
<1>3. held \in SUBSET AllRoles
  BY DEF RolesOf
<1>4. Ids' = Ids /\ \A i : {r \in AllRoles : <<i, r>> \in DOMAIN links'} = RolesOf(i)
  BY <1>1 DEF Ids, RolesOf
<1> HIDE DEF held
<1>6. terminal' \in TerminalRecords /\ terminal'.at = "flush" /\ terminal'.id = terminal.id /\ terminal'.user = terminal.user /\ terminal'.roles = held
  BY <1>1, <1>2, <1>3 DEF TerminalRecords, HaveUser
<1>7. Named("terminal", terminal.id, terminal.user)'
  BY <1>1, <1>2, <1>4, <1>6 DEF Named, UserWritten
<1>8. RolesKnown("terminal", terminal.id, terminal.user, terminal.roles, AllRoles \ terminal.roles)'
  <2>1. CASE UserWritten("terminal", terminal.user)
    <3>1. Interfered("terminal", terminal.user)'
      BY <1>1, <1>6, <2>1, RowFacts DEF Interfered, UserWritten, UserRow
    <3> QED BY <3>1 DEF RolesKnown
  <2>2. CASE terminal.id \in Ids /\ users[terminal.id].email = terminal.user
    <3>1. RolesOf(terminal.id)' = held
      BY <1>4, <1>6 DEF RolesOf, held
    <3>2. (terminal.id \in Ids /\ users[terminal.id].email = terminal.user)'
      BY <1>1, <1>4, <1>6, <2>2
    <3> QED BY <1>6, <3>1, <3>2 DEF RolesKnown
  <2> QED BY <1>2, <2>1, <2>2 DEF Named
<1>9. TerminalKnows'
  BY <1>6, <1>7, <1>8 DEF TerminalKnows, ActionNames, HaveRole
<1>10. FailStep
  BY <1>6 DEF FailStep
<1> QED BY <1>1, <1>2, <1>6, <1>9, <1>10, QuietStep

\* It is deleted.
LEMMA TerminalDeleteCommitsStep ==
    ASSUME UsersInv, TerminalDeleteCommits PROVE UsersInv' /\ StepPromises
<1> DEFINE id == terminal.id
           held == terminal.roles
           rows == Rows(NameOf(id), {}, {})
<1>1. /\ terminal.at = "flush" /\ Continues /\ web' = web /\ input' = input
      /\ IF LinksCanGo(LinksOf(id, held)) THEN DeleteUser("terminal", id, held) /\ Back ELSE TerminalFails(terminal.user)
  BY DEF TerminalDeleteCommits, Continues
<1>2. /\ Given("users") /\ TablesInv /\ terminal.user \in Emails \union {"none"}
      /\ Named("terminal", id, terminal.user) /\ RolesKnown("terminal", id, terminal.user, held, AllRoles \ held)
  BY <1>1, AtPrompt DEF UsersInv, HaveUser, TerminalKnows
<1>3. CASE ~LinksCanGo(LinksOf(id, held))
  <2>1. Interfered("terminal", terminal.user) \/ Duplicated(terminal.user)
    BY <1>2, <1>3, FailureIsExplained
  <2> QED BY <1>1, <1>2, <1>3, <2>1, FailureStep
<1>4. CASE LinksCanGo(LinksOf(id, held))
  <2>1. DeleteUser("terminal", id, held) /\ terminal' = Menu
    BY <1>1, <1>4 DEF Back
  <2>2. Writes("terminal", rows) /\ \A e \in NameOf(id) : UserRow(e) \in rows
    BY <2>1, RowsHave DEF DeleteUser
  <2> HIDE DEF rows
  <2>3. /\ Effect(rows) /\ \A i \in Ids \ Ids' : i = id
        /\ LinksAreClean /\ (RolesOf(id) \subseteq held) => LinksAreClean'
    BY <1>2, <2>1, <2>2, UserIsDeleted
  <2>4. terminal'.at = "menu"
    BY <2>1 DEF Menu
  <2>5. CleanStep
    <3>1. Interfered("terminal", terminal.user) \/ RolesOf(id) \subseteq held
      BY <1>2 DEF RolesKnown, RolesOf
    <3> QED BY <1>1, <2>3, <2>4, <3>1 DEF CleanStep, WritesLinks
  <2>6. GoStep
    BY <1>1, <1>2, <2>3, <2>4 DEF GoStep, Named
  <2> QED BY <1>1, <1>2, <2>1, <2>2, <2>3, <2>5, <2>6, MenuStep
<1> QED BY <1>3, <1>4

\* FACTUM looks whether a role exists.
LEMMA CreateRoleStep ==
    ASSUME UsersInv, CreateRole PROVE UsersInv' /\ StepPromises
<1>1. /\ terminal.at = "create_role" /\ Continues /\ web' = web
  BY DEF CreateRole
<1>2. PICK role \in AllRoles : IF role \in roles THEN Back /\ WritesNothing("terminal") ELSE Finds("new_role", "none", 0, {role})
  BY DEF CreateRole
<1>3. Given("users") /\ "new_role" \in HaveRole
  BY <1>1, AtPrompt DEF HaveRole
<1>4. CASE role \in roles
  BY <1>1, <1>2, <1>3, <1>4, NothingStep
<1>5. CASE role \notin roles
  BY <1>1, <1>2, <1>3, <1>5, RoleStep
<1> QED BY <1>4, <1>5

\* FACTUM creates a role.
LEMMA CreateRoleCommitsStep ==
    ASSUME UsersInv, CreateRoleCommits PROVE UsersInv' /\ StepPromises
<1>1. /\ terminal.at \in HaveRole /\ terminal.at # "off" /\ Continues /\ input' = input /\ web' = web
      /\ IF terminal.roles \intersect roles # {} THEN TerminalFails("none")
         ELSE /\ roles' = roles \union terminal.roles /\ UNCHANGED <<users, links>>
              /\ terminal' = IF terminal.at = "initialise" THEN AtStep("off") ELSE Menu
              /\ Writes("terminal", Rows({}, {}, terminal.roles))
  BY DEF CreateRoleCommits, Continues, HaveRole
<1>2. Given("users") /\ terminal.roles \subseteq AllRoles /\ roles \subseteq AllRoles /\ NamesKnown("terminal", terminal.roles)
  BY <1>1, AtPrompt DEF UsersInv, TablesInv, TerminalKnows
<1>3. CASE terminal.roles \intersect roles # {}
  <2>1. terminal.at \in {"new_role", "initialise"} /\ RolesWritten("terminal", terminal.roles)
    BY <1>1, <1>2, <1>3 DEF NamesKnown, HaveRole
  <2>2. "none" \in Emails \union {"none"} /\ TerminalFails("none")
    BY <1>1, <1>3
  <2> QED BY <1>1, <1>2, <2>1, <2>2, FailureStep
<1>4. CASE terminal.roles \intersect roles = {}
  <2> DEFINE rows == Rows({}, {}, terminal.roles)
  <2>1. /\ roles' = roles \union terminal.roles /\ users' = users /\ links' = links
        /\ terminal' = Menu \/ terminal' = AtStep("off")
        /\ Writes("terminal", rows)
    BY <1>1, <1>4
  <2>2. \A r \in terminal.roles : RoleRow(r) \in rows
    BY RowsHaveRole
  <2> HIDE DEF rows
  <2>3. roles' \subseteq AllRoles /\ \A r \in AllRoles : RoleRow(r) \in rows \/ (r \in roles' => r \in roles)
    BY <1>2, <2>1, <2>2
  <2> QED BY <1>1, <1>2, <2>1, <2>3, IdleStep
<1> QED BY <1>3, <1>4

\* FACTUM looks a user up that is to get a role.
LEMMA AddRoleToUserStep ==
    ASSUME UsersInv, AddRoleToUser PROVE UsersInv' /\ StepPromises
<1>1. /\ terminal.at = "add_role_to_user" /\ terminal.at \in ActionNames /\ Continues /\ web' = web
  BY DEF AddRoleToUser, ActionNames
<1>2. PICK email \in terminal.users, role \in terminal.roles :
        \/ FindUser(email) = {} /\ TerminalFails(email)
        \/ \E id \in FindUser(email) : Finds("link", email, id, RolesToAdd(id, role))
  BY DEF AddRoleToUser
<1>3. Given("users") /\ email \in Emails /\ role \in AllRoles /\ "link" \in HaveUser
  BY <1>1, AtPrompt DEF HaveUser
<1>4. CASE FindUser(email) = {} /\ TerminalFails(email)
  <2>1. Interfered("terminal", email)
    BY <1>1, <1>3, <1>4, TerminalSeesUsers
  <2> QED BY <1>1, <1>3, <1>4, <2>1, FailureStep
<1>5. ASSUME NEW id \in FindUser(email), Finds("link", email, id, RolesToAdd(id, role)) PROVE UsersInv' /\ StepPromises
  <2> DEFINE rs == RolesToAdd(id, role)
  <2>1. rs \in SUBSET AllRoles /\ rs \intersect RolesOf(id) = {}
    BY <1>3 DEF RolesToAdd
  <2>2. Finds("link", email, id, rs)
    BY <1>5
  <2> HIDE DEF rs
  <2> QED BY <1>1, <1>3, <2>1, <2>2, FindStep
<1> QED BY <1>2, <1>4, <1>5

\* It gets the role.
LEMMA AddRoleCommitsStep ==
    ASSUME UsersInv, AddRoleCommits PROVE UsersInv' /\ StepPromises
<1> DEFINE id == terminal.id
           rs == terminal.roles
           rows == Rows({}, NameOf(id) \X rs, {})
<1>1. /\ terminal.at = "link" /\ input' = input /\ web' = web /\ terminal' = Menu /\ GiveRoles("terminal", id, rs) /\ Writes("terminal", rows)
  BY DEF AddRoleCommits, Continues, Back, GiveRoles
<1>2. /\ Given("users") /\ TablesInv /\ id \in 1 .. MaxId /\ rs \in SUBSET AllRoles
      /\ RolesKnown("terminal", id, terminal.user, {}, rs)
  BY <1>1, AtPrompt DEF UsersInv, ClientsInv, HaveUser, TerminalKnows
<1>3. /\ Effect(rows) /\ Ids' = Ids
      /\ LinksAreClean /\ id \in Ids /\ (rs \intersect RolesOf(id) = {}) => LinksAreClean'
  BY <1>1, <1>2, LinksAreGiven
<1>4. terminal'.at = "menu"
  BY <1>1 DEF Menu
<1> HIDE DEF rows
<1>5. CleanStep /\ GoStep
  BY <1>1, <1>2, <1>3, <1>4 DEF CleanStep, GoStep, WritesLinks, RolesKnown
<1> QED BY <1>1, <1>2, <1>3, <1>5, MenuStep

\* FACTUM shows the key of a user.
LEMMA GetApikeyForUserStep ==
    ASSUME UsersInv, GetApikeyForUser PROVE UsersInv' /\ StepPromises
<1>1. /\ terminal.at = "get_apikey_for_user" /\ terminal.at \in ActionNames /\ Continues /\ web' = web
  BY DEF GetApikeyForUser, ActionNames
<1>2. PICK email \in terminal.users : IF FindUser(email) = {} THEN TerminalFails(email) ELSE Back /\ WritesNothing("terminal")
  BY DEF GetApikeyForUser
<1>3. Given("users") /\ email \in Emails
  BY <1>1, AtPrompt
<1>4. CASE FindUser(email) = {}
  <2>1. Interfered("terminal", email)
    BY <1>1, <1>3, <1>4, TerminalSeesUsers
  <2> QED BY <1>1, <1>2, <1>3, <1>4, <2>1, FailureStep
<1>5. CASE FindUser(email) # {}
  BY <1>1, <1>2, <1>3, <1>5, NothingStep
<1> QED BY <1>4, <1>5

\* RemoveRoleFromUser: the user is looked up after each of the two prompts.
LEMMA RemoveRoleFromUserStep ==
    ASSUME UsersInv, RemoveRoleFromUser PROVE UsersInv' /\ StepPromises
<1>1. CASE terminal.at = "remove_role_from_user"
  <2>1. Continues /\ web' = web /\ terminal.at \in ActionNames
    BY <1>1 DEF RemoveRoleFromUser, ActionNames
  <2>2. PICK email \in terminal.users :
            \/ FindUser(email) = {} /\ TerminalFails(email)
            \/ \E id \in FindUser(email) : Finds("rolename", email, id, RolesOf(id))
    BY <1>1 DEF RemoveRoleFromUser
  <2>3. Given("users") /\ email \in Emails /\ "rolename" \in HaveUser /\ \A id : RolesOf(id) \in SUBSET AllRoles
    BY <1>1, AtPrompt DEF HaveUser, RolesOf
  <2>4. CASE FindUser(email) = {} /\ TerminalFails(email)
    <3>1. Interfered("terminal", email)
      BY <2>1, <2>3, <2>4, TerminalSeesUsers
    <3> QED BY <2>1, <2>3, <2>4, <3>1, FailureStep
  <2>5. ASSUME NEW id \in FindUser(email), Finds("rolename", email, id, RolesOf(id)) PROVE UsersInv' /\ StepPromises
    BY <2>1, <2>3, <2>5, FindStep
  <2> QED BY <2>2, <2>4, <2>5
<1>2. CASE terminal.at = "rolename"
  <2>1. Continues /\ web' = web /\ terminal.at \in HaveUser /\ "unlink" \in HaveUser
    BY <1>2 DEF RemoveRoleFromUser, HaveUser
  <2>2. PICK role \in terminal.roles :
            \/ FindUser(terminal.user) = {} /\ TerminalFails(terminal.user)
            \/ \E id \in FindUser(terminal.user) : Finds("unlink", terminal.user, id, {role} \intersect RolesOf(id))
    BY <1>2 DEF RemoveRoleFromUser
  <2>3. Given("users") /\ terminal.user \in Emails /\ Named("terminal", terminal.id, terminal.user)
    BY <1>2, <2>1, AtPrompt DEF UsersInv, ClientsInv, TerminalKnows
  <2>4. CASE FindUser(terminal.user) = {} /\ TerminalFails(terminal.user)
    <3>1. UserRow(terminal.user) \in written["terminal"]
      BY <2>3, <2>4 DEF Named, FindUser, UserWritten, UserRow
    <3>2. Interfered("terminal", terminal.user)
      BY <3>1, RowFacts DEF Interfered
    <3> QED BY <2>1, <2>3, <2>4, <3>2, FailureStep
  <2>5. ASSUME NEW id \in FindUser(terminal.user), Finds("unlink", terminal.user, id, {role} \intersect RolesOf(id))
        PROVE  UsersInv' /\ StepPromises
    <3> DEFINE rs == {role} \intersect RolesOf(id)
    <3>1. rs \in SUBSET AllRoles /\ rs \subseteq RolesOf(id)
      BY DEF RolesOf
    <3>2. Finds("unlink", terminal.user, id, rs)
      BY <2>5
    <3> HIDE DEF rs
    <3> QED BY <2>1, <2>3, <3>1, <3>2, FindStep
  <2> QED BY <2>2, <2>4, <2>5
<1> QED BY <1>1, <1>2 DEF RemoveRoleFromUser

\* FACTUM takes the role away.
LEMMA RemoveRoleCommitsStep ==
    ASSUME UsersInv, RemoveRoleCommits PROVE UsersInv' /\ StepPromises
<1> DEFINE id == terminal.id
           rs == terminal.roles
           rows == Rows({}, NameOf(id) \X rs, {})
<1>1. /\ terminal.at = "unlink" /\ Continues /\ input' = input /\ web' = web
      /\ IF LinksCanGo(LinksOf(id, rs)) THEN TakeRoles("terminal", id, rs) /\ Back ELSE TerminalFails(terminal.user)
  BY DEF RemoveRoleCommits, Continues
<1>2. /\ Given("users") /\ TablesInv /\ id \in 1 .. MaxId /\ rs \in SUBSET AllRoles /\ terminal.user \in Emails
      /\ RolesKnown("terminal", id, terminal.user, rs, {})
  BY <1>1, AtPrompt DEF UsersInv, ClientsInv, HaveUser, TerminalKnows
<1>3. CASE ~LinksCanGo(LinksOf(id, rs))
  <2>1. Interfered("terminal", terminal.user) \/ Duplicated(terminal.user)
    BY <1>2, <1>3, FailureIsExplained
  <2> QED BY <1>1, <1>2, <1>3, <2>1, FailureStep
<1>4. CASE LinksCanGo(LinksOf(id, rs))
  <2>1. TakeRoles("terminal", id, rs) /\ terminal' = Menu /\ Writes("terminal", rows)
    BY <1>1, <1>4 DEF Back, TakeRoles
  <2>2. Effect(rows) /\ Ids' = Ids /\ (LinksAreClean => LinksAreClean')
    BY <1>2, <2>1, LinksAreTakenAway
  <2>3. CleanStep /\ GoStep
    BY <2>2 DEF CleanStep, GoStep
  <2> HIDE DEF rows
  <2> QED BY <1>1, <1>2, <2>1, <2>2, <2>3, MenuStep
<1> QED BY <1>3, <1>4

-----------------------------------------------------------------------------
(* The requests of administrators.                                         *)

\* A request is never FACTUM, and there is a database once it was started.
LEMMA SessionFacts ==
    ASSUME UsersInv, NEW s \in Sessions
    PROVE  /\ s \in Clients /\ s # "terminal" /\ web[s] \in WebRequests /\ web \in [Sessions -> WebRequests]
           /\ TablesInv /\ ClientsInv /\ roles \subseteq AllRoles /\ (web[s].at # "idle" => Given("users")) /\ SessionKnows(s)
           /\ web[s].at \in ShowUsers => web[s].id \in 1 .. MaxId
BY UsersConstants DEF Clients, UsersInv, ClientsInv, TablesInv

\* A request is answered.
LEMMA AnswerStep ==
    ASSUME UsersInv, Given("users"), input' = input, terminal' = terminal, NEW s \in Sessions, Answer(s),
           NEW rows, Effect(rows), Notes(s, rows)
    PROVE  /\ UsersInv' /\ web'[s].at = "idle" /\ \A d \in Sessions \ {s} : web'[d] = web[d]
           /\ web[s].at # "edit" => EditStep
           /\ web[s].at # "password" => PageStep
           /\ FailStep
<1>1. NoRequest \in WebRequests /\ NoRequest.at = "idle"
  BY DEF NoRequest, WebRequests
<1>2. web' = [web EXCEPT ![s] = NoRequest] /\ web'[s] = NoRequest
  BY SessionFacts DEF Answer, SetRequest
<1>3. SessionKnows(s)' /\ NoRequest.at \notin ShowUsers
  BY <1>1, <1>2 DEF SessionKnows, ShowUsers
<1> QED BY <1>1, <1>2, <1>3, StepOfSession

\* A request reads, the tables stay.
LEMMA ReadStep ==
    ASSUME UsersInv, Given("users"), input' = input, terminal' = terminal, NEW s \in Sessions,
           users' = users, links' = links, roles' = roles,
           written' = written \/ written' = [written EXCEPT ![s] = {}] \/ Writes(s, {}),
           NEW r \in WebRequests, SetRequest(s, r), r.at \in ShowUsers => r.id \in 1 .. MaxId,
           r.at = "add" => r.email \in Emails, r.at # "idle", web'[s] = r => SessionKnows(s)'
    PROVE  UsersInv' /\ StepPromises
<1>1. /\ s \in Clients /\ TablesInv /\ ClientsInv /\ roles \subseteq AllRoles /\ web \in [Sessions -> WebRequests]
  BY SessionFacts
<1>2. Effect({}) /\ (LinksAreClean => LinksAreClean') /\ Ids' = Ids
  BY <1>1, NothingIsWritten
<1>3. Notes(s, {})
  BY <1>1, SilenceNotes, WritesNotes
<1>4. web' = [web EXCEPT ![s] = r] /\ web'[s] = r
  BY <1>1 DEF SetRequest
<1>5. UsersInv' /\ EditStep /\ PageStep /\ FailStep
  BY <1>2, <1>3, <1>4, StepOfSession
<1>6. CleanStep /\ GoStep
  BY <1>2 DEF CleanStep, GoStep
<1> QED BY <1>5, <1>6 DEF StepPromises

\* A request is answered, and has written nothing.
LEMMA NoWriteStep ==
    ASSUME UsersInv, Given("users"), input' = input, terminal' = terminal, NEW s \in Sessions, Answer(s),
           users' = users, links' = links, roles' = roles,
           written' = written \/ written' = [written EXCEPT ![s] = {}] \/ Writes(s, {}),
           web[s].at # "edit"
    PROVE  UsersInv' /\ StepPromises
<1>1. /\ s \in Clients /\ TablesInv /\ ClientsInv /\ roles \subseteq AllRoles
  BY SessionFacts
<1>2. Effect({}) /\ (LinksAreClean => LinksAreClean') /\ Ids' = Ids
  BY <1>1, NothingIsWritten
<1>3. Notes(s, {})
  BY <1>1, SilenceNotes, WritesNotes
<1>4. UsersInv' /\ EditStep /\ FailStep
  BY <1>2, <1>3, AnswerStep
<1>5. CleanStep /\ GoStep /\ PageStep
  BY <1>2 DEF CleanStep, GoStep, PageStep
<1> QED BY <1>4, <1>5 DEF StepPromises

\* The page to add a user looks whether it exists.
LEMMA AddUserStep ==
    ASSUME UsersInv, NEW s \in Sessions, AddUser(s) PROVE UsersInv' /\ StepPromises
<1>1. PICK email \in Emails, legal \in BOOLEAN : SetRequest(s, [NoRequest EXCEPT !.at = "add", !.email = email, !.legal = legal])
  BY DEF AddUser
<1> DEFINE r == [NoRequest EXCEPT !.at = "add", !.email = email, !.legal = legal]
<1>2. r \in WebRequests /\ r.at = "add" /\ r.email \in Emails
  BY DEF NoRequest, WebRequests
<1>3. SetRequest(s, r)
  BY <1>1
<1> HIDE DEF r
<1>4. /\ Given("users") /\ input' = input /\ terminal' = terminal
      /\ users' = users /\ links' = links /\ roles' = roles /\ Writes(s, {})
  BY DEF AddUser, Starts, WritesNothing
<1>5. web'[s] = r => SessionKnows(s)'
  BY <1>2 DEF SessionKnows
<1>6. r.at \notin ShowUsers
  BY <1>2 DEF ShowUsers
<1> QED BY <1>2, <1>3, <1>4, <1>5, <1>6, ReadStep

\* The page to add a user creates it.
LEMMA AddUserCommitsStep ==
    ASSUME UsersInv, NEW s \in Sessions, AddUserCommits(s) PROVE UsersInv' /\ StepPromises
<1>1. /\ web[s].at = "add" /\ NextId <= MaxId /\ Answer(s) /\ input' = input /\ terminal' = terminal
      /\ IF FindUser(web[s].email) # {} THEN WritesNothing(s) ELSE CreateUser(s, web[s].email, web[s].legal, {})
  BY DEF AddUserCommits, Continues
<1>2. Given("users") /\ TablesInv /\ s \in Clients /\ roles \subseteq AllRoles
  BY <1>1, SessionFacts
<1>3. CASE FindUser(web[s].email) # {}
  <2>1. users' = users /\ links' = links /\ roles' = roles /\ Writes(s, {})
    BY <1>1, <1>3 DEF WritesNothing
  <2> QED BY <1>1, <1>2, <2>1, NoWriteStep
<1>4. CASE FindUser(web[s].email) = {}
  <2> DEFINE email == web[s].email
             rows == Rows({email}, {<<email, r>> : r \in {}}, {})
  <2>1. CreateUser(s, email, web[s].legal, {})
    BY <1>1, <1>4
  <2>2. Writes(s, rows) /\ UserRow(email) \in rows
    BY <2>1, RowsHave DEF CreateUser
  <2> HIDE DEF rows
  <2>3. email \in Emails /\ web[s].legal \in BOOLEAN /\ {} \in SUBSET RoleNames
    BY <1>1, SessionFacts DEF ClientsInv, WebRequests
  <2>4. Effect(rows) /\ (LinksAreClean => LinksAreClean') /\ Ids \subseteq Ids'
    BY <1>1, <1>2, <1>4, <2>1, <2>2, <2>3, UserIsCreated
  <2>5. Notes(s, rows)
    BY <1>2, <2>2, WritesNotes
  <2>6. UsersInv' /\ EditStep /\ PageStep /\ FailStep
    BY <1>1, <1>2, <2>4, <2>5, AnswerStep
  <2>7. CleanStep /\ GoStep
    BY <2>4 DEF CleanStep, GoStep
  <2> QED BY <2>6, <2>7 DEF StepPromises
<1> QED BY <1>3, <1>4

\* A user is found by its id or its name: the page of a user, and its deletion
LEMMA FoundUser ==
    ASSUME UsersInv, NEW s \in Sessions, NEW id \in Ids, NEW point \in {"page", "delete"},
           NEW r, r = [NoRequest EXCEPT !.at = point, !.id = id, !.email = users[id].email],
           users' = users
    PROVE  /\ r \in WebRequests /\ r.at = point /\ r.id \in 1 .. MaxId /\ r.at # "idle" /\ r.at # "add"
           /\ web'[s] = r => SessionKnows(s)'
<1>1. id \in 1 .. MaxId /\ users[id].email \in Emails /\ MaxId \in Nat
  BY UsersConstants DEF UsersInv, TablesInv, UserRecords
<1>2. r \in WebRequests /\ r.at = point /\ r.id = id /\ r.email = users[id].email
  <2> DEFINE email == users[id].email
  <2>1. id \in Nat /\ email \in Emails /\ r = [NoRequest EXCEPT !.at = point, !.id = id, !.email = email]
    BY <1>1
  <2> HIDE DEF email
  <2>2. r \in WebRequests /\ r.at = point /\ r.id = id /\ r.email = email
    BY <2>1 DEF NoRequest, WebRequests
  <2> QED BY <2>2 DEF email
<1>3. ASSUME web'[s] = r PROVE SessionKnows(s)'
  <2>1. Named(s, web[s].id, web[s].email)'
    BY <1>2, <1>3 DEF Named, Ids
  <2> QED BY <1>2, <1>3, <2>1 DEF SessionKnows
<1> QED BY <1>1, <1>2, <1>3

\* The page of a user is shown.
LEMMA ShowUserStep ==
    ASSUME UsersInv, NEW s \in Sessions, ShowUser(s) PROVE UsersInv' /\ StepPromises
<1>1. PICK id \in Ids : SetRequest(s, [NoRequest EXCEPT !.at = "page", !.id = id, !.email = users[id].email])
  BY DEF ShowUser
<1> DEFINE r == [NoRequest EXCEPT !.at = "page", !.id = id, !.email = users[id].email]
<1>2. /\ Given("users") /\ input' = input /\ terminal' = terminal
      /\ users' = users /\ links' = links /\ roles' = roles /\ Writes(s, {})
  BY DEF ShowUser, Starts, WritesNothing
<1>3. /\ r \in WebRequests /\ r.id \in 1 .. MaxId /\ r.at # "idle" /\ r.at # "add"
      /\ web'[s] = r => SessionKnows(s)'
  BY <1>2, FoundUser
<1>4. SetRequest(s, r)
  BY <1>1
<1> HIDE DEF r
<1> QED BY <1>2, <1>3, <1>4, ReadStep

\* The page to delete a user finds it.
LEMMA WebDeleteUserStep ==
    ASSUME UsersInv, NEW s \in Sessions, WebDeleteUser(s) PROVE UsersInv' /\ StepPromises
<1>1. PICK id \in Ids : SetRequest(s, [NoRequest EXCEPT !.at = "delete", !.id = id, !.email = users[id].email])
  BY DEF WebDeleteUser
<1> DEFINE r == [NoRequest EXCEPT !.at = "delete", !.id = id, !.email = users[id].email]
<1>2. /\ Given("users") /\ input' = input /\ terminal' = terminal
      /\ users' = users /\ links' = links /\ roles' = roles /\ Writes(s, {})
  BY DEF WebDeleteUser, Starts, WritesNothing
<1>3. /\ r \in WebRequests /\ r.id \in 1 .. MaxId /\ r.at # "idle" /\ r.at # "add"
      /\ web'[s] = r => SessionKnows(s)'
  BY <1>2, FoundUser
<1>4. SetRequest(s, r)
  BY <1>1
<1> HIDE DEF r
<1> QED BY <1>2, <1>3, <1>4, ReadStep

\* The roles of a user that is to be deleted are read.
LEMMA WebDeleteReadsStep ==
    ASSUME UsersInv, NEW s \in Sessions, WebDeleteReads(s) PROVE UsersInv' /\ StepPromises
<1> DEFINE held == RolesOf(web[s].id)
           r == [web[s] EXCEPT !.at = "flush", !.held = held]
<1>1. /\ web[s].at = "delete" /\ input' = input /\ terminal' = terminal /\ SetRequest(s, r)
      /\ users' = users /\ links' = links /\ roles' = roles /\ written' = written
  BY DEF WebDeleteReads, Continues
<1>2. /\ Given("users") /\ web[s] \in WebRequests /\ Named(s, web[s].id, web[s].email) /\ web[s].id \in 1 .. MaxId
  BY <1>1, SessionFacts DEF SessionKnows, ShowUsers
<1>3. held \in SUBSET AllRoles
  BY DEF RolesOf
<1>4. Ids' = Ids /\ \A i : {x \in AllRoles : <<i, x>> \in DOMAIN links'} = RolesOf(i)
  BY <1>1 DEF Ids, RolesOf
<1> HIDE DEF held
<1>5. r \in WebRequests /\ r.at = "flush" /\ r.id = web[s].id /\ r.email = web[s].email /\ r.held = held
  BY <1>2, <1>3 DEF WebRequests
<1> HIDE DEF r
<1>6. ASSUME web'[s] = r PROVE SessionKnows(s)'
  <2>1. Named(s, web[s].id, web[s].email)'
    BY <1>1, <1>2, <1>4, <1>5, <1>6 DEF Named, UserWritten
  <2>2. RolesKnown(s, web[s].id, web[s].email, web[s].held, AllRoles \ web[s].held)'
    <3>1. CASE UserWritten(s, web[s].email)
      <4>1. Interfered(s, web[s].email)'
        BY <1>1, <1>5, <1>6, <3>1, RowFacts DEF Interfered, UserWritten, UserRow
      <4> QED BY <4>1 DEF RolesKnown
    <3>2. CASE web[s].id \in Ids /\ users[web[s].id].email = web[s].email
      <4>1. RolesOf(web[s].id)' = held
        BY <1>4, <1>5, <1>6 DEF RolesOf, held
      <4>2. (web[s].id \in Ids /\ users[web[s].id].email = web[s].email)'
        BY <1>1, <1>4, <1>5, <1>6, <3>2
      <4> QED BY <1>5, <1>6, <4>1, <4>2 DEF RolesKnown
    <3> QED BY <1>2, <3>1, <3>2 DEF Named
  <2> QED BY <1>5, <1>6, <2>1, <2>2 DEF SessionKnows
<1> QED BY <1>1, <1>2, <1>5, <1>6, ReadStep

\* The user is deleted.
LEMMA WebDeleteCommitsStep ==
    ASSUME UsersInv, NEW s \in Sessions, WebDeleteCommits(s) PROVE UsersInv' /\ StepPromises
<1> DEFINE id == web[s].id
           held == web[s].held
           rows == Rows(NameOf(id), {}, {})
<1>1. /\ web[s].at = "flush" /\ Answer(s) /\ input' = input /\ terminal' = terminal
      /\ IF LinksCanGo(LinksOf(id, held)) THEN DeleteUser(s, id, held) ELSE WritesNothing(s)
  BY DEF WebDeleteCommits, Continues
<1>2. /\ Given("users") /\ TablesInv /\ s \in Clients
      /\ Named(s, id, web[s].email) /\ RolesKnown(s, id, web[s].email, held, AllRoles \ held)
  BY <1>1, SessionFacts DEF SessionKnows
<1>3. CASE ~LinksCanGo(LinksOf(id, held))
  <2>1. users' = users /\ links' = links /\ roles' = roles /\ Writes(s, {})
    BY <1>1, <1>3 DEF WritesNothing
  <2> QED BY <1>1, <1>2, <2>1, NoWriteStep
<1>4. CASE LinksCanGo(LinksOf(id, held))
  <2>1. DeleteUser(s, id, held)
    BY <1>1, <1>4
  <2>2. Writes(s, rows) /\ \A e \in NameOf(id) : UserRow(e) \in rows
    BY <2>1, RowsHave DEF DeleteUser
  <2> HIDE DEF rows
  <2>3. /\ Effect(rows) /\ \A i \in Ids \ Ids' : i = id
        /\ LinksAreClean /\ (RolesOf(id) \subseteq held) => LinksAreClean'
    BY <1>2, <2>1, <2>2, UserIsDeleted
  <2>4. Notes(s, rows)
    BY <1>2, <2>2, WritesNotes
  <2>5. UsersInv' /\ EditStep /\ PageStep /\ FailStep /\ web'[s].at = "idle"
    BY <1>1, <1>2, <2>3, <2>4, AnswerStep
  <2>6. CleanStep
    <3>1. Interfered(s, web[s].email) \/ RolesOf(id) \subseteq held
      BY <1>2 DEF RolesKnown, RolesOf
    <3> QED BY <1>1, <2>3, <2>5, <3>1 DEF CleanStep, WritesLinks
  <2>7. GoStep
    BY <1>1, <1>2, <2>3, <2>5 DEF GoStep, Named
  <2> QED BY <2>5, <2>6, <2>7 DEF StepPromises
<1> QED BY <1>3, <1>4

\* The page of a user finds the user whose password is to be changed.
LEMMA ChangeUserPasswordStep ==
    ASSUME UsersInv, NEW s \in Sessions, ChangeUserPassword(s) PROVE UsersInv' /\ StepPromises
<1>1. /\ web[s].at = "page" /\ input' = input /\ terminal' = terminal
      /\ users' = users /\ links' = links /\ roles' = roles /\ written' = written
  BY DEF ChangeUserPassword, Continues
<1>2. PICK legal \in BOOLEAN :
        IF PasswordIsLegal(legal) /\ web[s].id \in Ids THEN SetRequest(s, [web[s] EXCEPT !.at = "password", !.legal = legal])
        ELSE Answer(s)
  BY DEF ChangeUserPassword
<1>3. /\ Given("users") /\ web[s] \in WebRequests /\ Named(s, web[s].id, web[s].email) /\ web[s].id \in 1 .. MaxId
  BY <1>1, SessionFacts DEF SessionKnows, ShowUsers
<1>4. CASE Answer(s)
  BY <1>1, <1>3, <1>4, NoWriteStep
<1>5. CASE SetRequest(s, [web[s] EXCEPT !.at = "password", !.legal = legal])
  <2> DEFINE r == [web[s] EXCEPT !.at = "password", !.legal = legal]
  <2>1. r \in WebRequests /\ r.at = "password" /\ r.id = web[s].id /\ r.email = web[s].email
    BY <1>3 DEF WebRequests
  <2>2. SetRequest(s, r)
    BY <1>5
  <2> HIDE DEF r
  <2>3. ASSUME web'[s] = r PROVE SessionKnows(s)'
    <3>1. Named(s, web[s].id, web[s].email)'
      BY <1>1, <1>3, <2>1, <2>3 DEF Named, UserWritten, Ids
    <3> QED BY <2>1, <2>3, <3>1 DEF SessionKnows
  <2> QED BY <1>1, <1>3, <2>1, <2>2, <2>3, ReadStep
<1> QED BY <1>2, <1>4, <1>5

\* The password is changed.
LEMMA ChangePasswordCommitsStep ==
    ASSUME UsersInv, NEW s \in Sessions, ChangePasswordCommits(s) PROVE UsersInv' /\ StepPromises
<1>1. /\ web[s].at = "password" /\ Answer(s) /\ input' = input /\ terminal' = terminal
      /\ IF web[s].id \in Ids
         THEN users' = [users EXCEPT ![web[s].id].legal = web[s].legal] /\ links' = links /\ roles' = roles /\ Writes(s, {})
         ELSE WritesNothing(s)
  BY DEF ChangePasswordCommits, Continues
<1>2. /\ Given("users") /\ TablesInv /\ s \in Clients /\ web[s] \in WebRequests /\ Named(s, web[s].id, web[s].email)
      /\ web[s].legal \in BOOLEAN
  BY <1>1, SessionFacts DEF SessionKnows, WebRequests
<1>3. CASE web[s].id \notin Ids
  <2>1. users' = users /\ links' = links /\ roles' = roles /\ Writes(s, {})
    BY <1>1, <1>3 DEF WritesNothing
  <2> QED BY <1>1, <1>2, <2>1, NoWriteStep
<1>4. CASE web[s].id \in Ids
  <2>1. users' = [users EXCEPT ![web[s].id].legal = web[s].legal] /\ links' = links /\ roles' = roles /\ Writes(s, {})
    BY <1>1, <1>4
  <2>2. Effect({}) /\ (LinksAreClean => LinksAreClean') /\ Ids' = Ids /\ \A i \in Ids : users'[i] # users[i] => i = web[s].id
    BY <1>2, <1>4, <2>1, PasswordIsChanged
  <2>3. Notes(s, {})
    BY <1>2, <2>1, WritesNotes
  <2>4. UsersInv' /\ EditStep /\ FailStep /\ \A d \in Sessions \ {s} : web'[d] = web[d]
    BY <1>1, <1>2, <2>2, <2>3, AnswerStep
  <2>5. CleanStep /\ GoStep
    BY <2>2 DEF CleanStep, GoStep
  <2>6. PageStep
    <3> SUFFICES ASSUME NEW d \in Sessions, NEW id \in Ids, web[d].at = "password", web'[d].at = "idle", id \in Ids', users'[id] # users[id]
                 PROVE  users[id].email = web[d].email \/ UserWritten(d, web[d].email)
      BY DEF PageStep
    <3>1. d = s /\ id = web[s].id
      BY <2>2, <2>4
    <3> QED BY <1>2, <3>1 DEF Named
  <2> QED BY <2>4, <2>5, <2>6 DEF StepPromises
<1> QED BY <1>3, <1>4

\* An edit of roles reads what the user holds.
LEMMA EditRolesStep ==
    ASSUME UsersInv, NEW s \in Sessions, EditRoles(s) PROVE UsersInv' /\ StepPromises
<1>1. /\ web[s].at = "page" /\ input' = input /\ terminal' = terminal
      /\ users' = users /\ links' = links /\ roles' = roles /\ written' = [written EXCEPT ![s] = {}]
  BY DEF EditRoles, Continues
<1>2. /\ Given("users") /\ TablesInv /\ web[s] \in WebRequests /\ web[s].id \in 1 .. MaxId /\ s \in Clients /\ DOMAIN written = Clients
  BY <1>1, SessionFacts DEF ShowUsers, ClientsInv
<1>3. CASE web[s].id \in Ids
  <2> DEFINE id == web[s].id
             held == RolesOf(id)
  <2>1. PICK selected \in SUBSET RoleNames :
           SetRequest(s, [web[s] EXCEPT !.at = "edit", !.email = users[id].email, !.held = held, !.selected = selected,
                                        !.missing = (selected \ CurrentRoles(held)) \ roles])
    BY <1>3 DEF EditRoles
  <2> DEFINE missing == (selected \ CurrentRoles(held)) \ roles
             email == users[id].email
             r == [web[s] EXCEPT !.at = "edit", !.email = email, !.held = held, !.selected = selected, !.missing = missing]
  <2>2. SetRequest(s, r) /\ missing \in SUBSET RoleNames /\ missing \intersect roles = {} /\ email \in Emails /\ held \in SUBSET AllRoles
    BY <1>2, <1>3, <2>1 DEF TablesInv, UserRecords, RolesOf
  <2>3. Ids' = Ids /\ RolesOf(id)' = {x \in AllRoles : <<web'[s].id, x>> \in DOMAIN links} /\ users[id].email = email
    BY <1>1 DEF Ids, RolesOf
  <2>4. held = {x \in AllRoles : <<id, x>> \in DOMAIN links}
    BY DEF RolesOf
  <2> HIDE DEF missing, held, email
  <2>5. r \in WebRequests /\ r.at = "edit" /\ r.id = id /\ r.email = email /\ r.held = held /\ r.missing = missing
    BY <1>2, <2>2 DEF WebRequests
  <2> HIDE DEF r
  <2>6. ASSUME web'[s] = r PROVE SessionKnows(s)'
    <3>1. RolesOf(web[s].id)' = held
      BY <1>1, <2>4, <2>5, <2>6 DEF RolesOf
    <3>2. (web[s].id \in Ids /\ users[web[s].id].email = web[s].email)'
      BY <1>1, <1>3, <2>3, <2>5, <2>6
    <3>3. RolesKnown(s, web[s].id, web[s].email, web[s].held, AllRoles \ web[s].held)'
      BY <2>5, <2>6, <3>1, <3>2 DEF RolesKnown
    <3>4. NamesKnown(s, web[s].missing)'
      BY <1>1, <2>2, <2>5, <2>6 DEF NamesKnown
    <3> QED BY <2>5, <2>6, <3>3, <3>4 DEF SessionKnows
  <2> QED BY <1>1, <1>2, <2>2, <2>5, <2>6, ReadStep
<1>4. CASE web[s].id \notin Ids
  <2>1. Answer(s)
    BY <1>4 DEF EditRoles
  <2> QED BY <1>1, <1>2, <2>1, NoWriteStep
<1> QED BY <1>3, <1>4

\* An edit of roles writes what has changed.
LEMMA EditRolesCommitsStep ==
    ASSUME UsersInv, NEW s \in Sessions, EditRolesCommits(s) PROVE UsersInv' /\ StepPromises
<1> DEFINE id == web[s].id
           current == web[s].held \intersect RoleNames
           added == web[s].selected \ current
           removed == current \ web[s].selected
           made == web[s].missing
           rows == Rows({}, NameOf(id) \X (added \union removed), made)
           goes == LinksCanGo(LinksOf(id, removed)) /\ made \intersect roles = {}
<1>1. /\ web[s].at = "edit" /\ Answer(s) /\ input' = input /\ terminal' = terminal
      /\ IF goes
         THEN /\ roles' = roles \union made
              /\ links' = WithLinks(WithoutLinks(links, LinksOf(id, removed)), LinksOf(id, added))
              /\ Writes(s, rows) /\ users' = users
         ELSE WritesNothing(s)
  BY DEF EditRolesCommits, Continues, CurrentRoles
<1>2. /\ Given("users") /\ TablesInv /\ s \in Clients /\ roles \subseteq AllRoles /\ web[s] \in WebRequests
      /\ id \in 1 .. MaxId /\ RolesKnown(s, id, web[s].email, web[s].held, AllRoles \ web[s].held) /\ NamesKnown(s, made)
  BY <1>1, SessionFacts DEF SessionKnows, ShowUsers
<1>3. /\ web[s].selected \subseteq RoleNames /\ RoleNames \subseteq AllRoles /\ added \in SUBSET AllRoles /\ removed \in SUBSET AllRoles
      /\ made \subseteq AllRoles
  BY <1>2 DEF WebRequests, AllRoles
<1> HIDE DEF rows, goes
<1>4. ASSUME ~goes, ~Interfered(s, web[s].email), ~RolesWritten(s, made) PROVE Duplicated(web[s].email)
  <2>1. id \in Ids /\ users[id].email = web[s].email /\ web[s].held \subseteq RolesOf(id)
    BY <1>2, <1>4 DEF RolesKnown
  <2>2. ~LinksCanGo(LinksOf(id, removed))
    BY <1>2, <1>4 DEF goes, NamesKnown
  <2>3. removed \subseteq RolesOf(id)
    BY <2>1
  <2> HIDE DEF removed
  <2> QED BY <1>2, <2>1, <2>2, <2>3, TwiceIsDuplicated
<1>5. CASE ~goes
  <2>1. users' = users /\ links' = links /\ roles' = roles /\ Writes(s, {})
    BY <1>1, <1>5 DEF WritesNothing
  <2>2. Effect({}) /\ (LinksAreClean => LinksAreClean') /\ Ids' = Ids
    BY <1>2, <2>1, NothingIsWritten
  <2>3. Notes(s, {})
    BY <1>2, <2>1, WritesNotes
  <2>4. UsersInv' /\ PageStep /\ FailStep /\ \A d \in Sessions \ {s} : web'[d] = web[d]
    BY <1>1, <1>2, <2>2, <2>3, AnswerStep
  <2>5. CleanStep /\ GoStep
    BY <2>2 DEF CleanStep, GoStep
  <2>6. EditStep
    BY <1>4, <1>5, <2>4 DEF EditStep
  <2> QED BY <2>4, <2>5, <2>6 DEF StepPromises
<1>6. CASE goes
  <2>1. /\ roles' = roles \union made /\ Writes(s, rows) /\ users' = users
        /\ links' = WithLinks(WithoutLinks(links, LinksOf(id, removed)), LinksOf(id, added))
    BY <1>1, <1>6
  <2>2. roles' \subseteq AllRoles
    BY <1>2, <1>3, <2>1
  <2> HIDE DEF added, removed
  <2>3. /\ Effect(Rows({}, NameOf(id) \X (added \union removed), made)) /\ Ids' = Ids
        /\ LinksAreClean /\ id \in Ids /\ (added \intersect RolesOf(id) = {}) => LinksAreClean'
        /\ \A r \in AllRoles : <<id, r>> \in DOMAIN links' <=> (r \in RolesOf(id) /\ r \notin removed) \/ r \in added
    <3>1. TablesInv /\ id \in 1 .. MaxId
      BY <1>2
    <3> HIDE DEF id, made
    <3> QED BY <1>3, <2>1, <2>2, <3>1, LinksAreChanged
  <2>4. Effect(rows) /\ Notes(s, rows)
    BY <1>2, <2>1, <2>3, WritesNotes DEF rows
  <2>5. UsersInv' /\ PageStep /\ FailStep /\ web'[s].at = "idle" /\ \A d \in Sessions \ {s} : web'[d] = web[d]
    BY <1>1, <1>2, <2>4, AnswerStep
  <2>6. GoStep
    BY <2>3 DEF GoStep
  <2>7. ASSUME ~Interfered(s, web[s].email)
        PROVE  id \in Ids /\ web[s].held = RolesOf(id)
    <3>1. id \in Ids /\ web[s].held \subseteq RolesOf(id) /\ (AllRoles \ web[s].held) \intersect RolesOf(id) = {}
      BY <1>2, <2>7 DEF RolesKnown
    <3>2. RolesOf(id) \subseteq AllRoles
      BY DEF RolesOf
    <3> QED BY <3>1, <3>2
  <2>8. CleanStep
    <3> SUFFICES ASSUME LinksAreClean, ~LinksAreClean', ~Interfered(s, web[s].email) PROVE FALSE
      BY <1>1, <2>5 DEF CleanStep, WritesLinks
    <3>1. added \intersect RolesOf(id) = {}
      BY <1>3, <2>7 DEF added
    <3> QED BY <2>3, <2>7, <3>1
  <2>9. EditStep
    <3> SUFFICES ASSUME NEW d \in Sessions, web[d].at = "edit", web'[d].at = "idle", ~Interfered(d, web[d].email)
                 PROVE  {r \in AllRoles : <<web[d].id, r>> \in DOMAIN links'} = web[d].selected \union (RolesOf(web[d].id) \ RoleNames)
      BY DEF EditStep
    <3>1. d = s
      BY <2>5
    <3>2. web[s].held = RolesOf(id) /\ RolesOf(id) \subseteq AllRoles
      BY <2>7, <3>1 DEF RolesOf
    <3> QED BY <1>3, <2>3, <3>1, <3>2 DEF added, removed
  <2> QED BY <2>5, <2>6, <2>8, <2>9 DEF StepPromises
<1> QED BY <1>5, <1>6

-----------------------------------------------------------------------------
\* The database to begin with is in order.
LEMMA PickUserDatabaseStep ==
    ASSUME UsersInv, PickUserDatabase PROVE UsersInv' /\ StepPromises
<1>1. PICK d \in UserDatabases : input' = [kind |-> "users", arg |-> d] /\ users' = d.users /\ links' = d.links /\ roles' = d.roles
  BY DEF PickUserDatabase
<1>2. UserDatabase(d) /\ MaxId \in Nat
  BY UsersConstants
<1>3. input = Nothing /\ terminal' = terminal /\ web' = web /\ written' = written
  BY DEF PickUserDatabase, NoInput
<1>4. ~Given("users") /\ Given("users")'
  BY <1>1, <1>3 DEF Given, Nothing
<1>5. terminal.at = "off" /\ \A s \in Sessions : web[s].at = "idle"
  BY <1>4 DEF UsersInv, ClientsInv
<1>6. TablesInv' /\ LinksAreClean'
  <2>1. Ids' = DOMAIN d.users /\ Ids' \subseteq 1 .. MaxId
    BY <1>1, <1>2 DEF Ids, UserDatabase
  <2>2. users' \in [Ids' -> UserRecords] /\ \A i, k \in Ids' : users'[i].email = users'[k].email => i = k
    BY <1>1, <1>2, <2>1 DEF UserDatabase, UserRecords
  <2>3. DOMAIN links' \subseteq Ids' \X AllRoles /\ links' = [l \in DOMAIN links' |-> 1]
    BY <1>1, <1>2, <2>1 DEF UserDatabase
  <2>4. DOMAIN links' \subseteq (1 .. MaxId) \X AllRoles
    BY <2>1, <2>3
  <2>5. \A l \in DOMAIN links' : links'[l] = 1 /\ l[1] \in Ids'
    BY <2>3
  <2>6. links' \in [DOMAIN links' -> Nat \ {0}]
    BY <2>3
  <2>7. roles' \subseteq AllRoles
    BY <1>1, <1>2 DEF UserDatabase
  <2> QED BY <2>1, <2>2, <2>4, <2>5, <2>6, <2>7 DEF TablesInv, LinksAreClean
<1>7. ClientsInv'
  BY <1>3, <1>4 DEF UsersInv, ClientsInv
<1>8. TerminalKnows' /\ \A s \in Sessions : SessionKnows(s)'
  BY <1>3, <1>5 DEF TerminalKnows, ActionNames, HaveUser, HaveRole, SessionKnows
<1>9. Ids = {}
  BY <1>4 DEF UsersInv, ClientsInv
<1>10. StepPromises
  BY <1>3, <1>5, <1>6, <1>9 DEF StepPromises, FailStep, EditStep, CleanStep, PageStep, GoStep
<1> QED BY <1>6, <1>7, <1>8, <1>10 DEF UsersInv

\* The invariant holds at the start.
LEMMA UsersInitInv == input = Nothing /\ UsersInit => UsersInv
<1> SUFFICES ASSUME input = Nothing, UsersInit PROVE UsersInv
  OBVIOUS
<1>1. TablesInv
  BY DEF UsersInit, TablesInv, Ids, NoLinks
<1>2. NoRequest \in WebRequests /\ NoRequest.at = "idle"
  BY DEF NoRequest, WebRequests
<1>3. AtStep("off") \in TerminalRecords /\ AtStep("off").at = "off"
  BY DEF AtStep, Menu, TerminalRecords
<1>4. /\ terminal \in TerminalRecords /\ terminal.at = "off" /\ DOMAIN written = Clients
      /\ web \in [Sessions -> WebRequests] /\ (\A s \in Sessions : web[s].at = "idle") /\ Ids = {}
  BY <1>2, <1>3 DEF UsersInit, Ids
<1>5. ClientsInv
  BY <1>4 DEF ClientsInv, HaveUser, ShowUsers
<1>6. TerminalKnows /\ \A s \in Sessions : SessionKnows(s)
  BY <1>4 DEF TerminalKnows, ActionNames, HaveUser, HaveRole, SessionKnows
<1> QED BY <1>1, <1>5, <1>6 DEF UsersInv

\* Every step keeps the invariant and the promises.
LEMMA UsersStep ==
    ASSUME UsersInv, [PickUserDatabase \/ UsersNext]_<<input, userVars>> PROVE UsersInv' /\ StepPromises
<1>1. CASE UNCHANGED <<input, userVars>>
  <2>1. /\ input' = input /\ users' = users /\ links' = links /\ roles' = roles /\ terminal' = terminal
        /\ web' = web /\ written' = written
    BY <1>1 DEF userVars
  <2>2. UsersInv'
    <3>1. TablesInv' /\ ClientsInv'
      BY <2>1 DEF UsersInv, TablesInv, ClientsInv, Ids, Given
    <3>2. TerminalKnows'
      BY <2>1 DEF UsersInv, TerminalKnows, Named, RolesKnown, NamesKnown, Interfered, UserWritten, RolesWritten, FindUser, Ids, RolesOf
    <3>3. \A s \in Sessions : SessionKnows(s)'
      BY <2>1 DEF UsersInv, SessionKnows, Named, RolesKnown, NamesKnown, Interfered, UserWritten, RolesWritten, Ids, RolesOf
    <3> QED BY <3>1, <3>2, <3>3 DEF UsersInv
  <2>3. Ids' = Ids /\ (LinksAreClean => LinksAreClean')
    BY <2>1 DEF LinksAreClean, Ids
  <2> QED BY <2>1, <2>2, <2>3 DEF StepPromises, FailStep, EditStep, CleanStep, PageStep, GoStep
<1>2. CASE PickUserDatabase
  BY <1>2, PickUserDatabaseStep
<1>3. CASE \/ InitialiseRoles \/ PromptLoop \/ Interrupt \/ TerminalCreateUser \/ TerminalDeleteUser \/ TerminalDeleteReads \/ TerminalDeleteCommits
  BY <1>3, InitialiseRolesStep, PromptLoopStep, InterruptStep, TerminalCreateUserStep, TerminalDeleteUserStep, TerminalDeleteReadsStep,
     TerminalDeleteCommitsStep
<1>4. CASE \/ CreateRole \/ CreateRoleCommits \/ AddRoleToUser \/ AddRoleCommits \/ RemoveRoleFromUser \/ RemoveRoleCommits \/ GetApikeyForUser
  BY <1>4, CreateRoleStep, CreateRoleCommitsStep, AddRoleToUserStep, AddRoleCommitsStep, RemoveRoleFromUserStep, RemoveRoleCommitsStep,
     GetApikeyForUserStep
<1>5. ASSUME NEW s \in Sessions,
             \/ AddUser(s) \/ AddUserCommits(s) \/ ShowUser(s) \/ ChangeUserPassword(s) \/ ChangePasswordCommits(s) \/ EditRoles(s) \/ EditRolesCommits(s)
             \/ WebDeleteUser(s) \/ WebDeleteReads(s) \/ WebDeleteCommits(s)
      PROVE  UsersInv' /\ StepPromises
  BY <1>5, AddUserStep, AddUserCommitsStep, ShowUserStep, ChangeUserPasswordStep, ChangePasswordCommitsStep, EditRolesStep, EditRolesCommitsStep,
     WebDeleteUserStep, WebDeleteReadsStep, WebDeleteCommitsStep
<1> QED BY <1>1, <1>2, <1>3, <1>4, <1>5 DEF UsersNext

\* FACTUM and the web pages leave users and roles consistent, for any users, roles, number of
\* requests at the same time and order of their reads and commits: FACTUM fails only when it
\* is raced, an edit that is not overtaken gives what was selected, a role is held twice or by
\* nobody only after a commit that was overtaken, a page changes the user that it shows, and
\* the user that is named is deleted.
THEOREM AccountsAlwaysConsistent == UsersSpec => AccountsAreConsistent
<1>1. input = Nothing /\ UsersInit => UsersInv
  BY UsersInitInv
<1>2. UsersInv /\ [PickUserDatabase \/ UsersNext]_<<input, userVars>> => UsersInv' /\ FailStep /\ EditStep /\ CleanStep /\ PageStep /\ GoStep
  BY UsersStep DEF StepPromises
<1>3. TerminalEndsOnlyWhenRaced <=> [][FailStep]_userVars
  BY DEF TerminalEndsOnlyWhenRaced, FailStep
<1>4. EditsGiveTheSelection <=> [][EditStep]_userVars
  BY DEF EditsGiveTheSelection, EditStep
<1>5. LinksStayClean <=> [][CleanStep]_userVars
  BY DEF LinksStayClean, CleanStep
<1>6. PageEditsItsUser <=> [][PageStep]_userVars
  BY DEF PageEditsItsUser, PageStep
<1>7. NamedUsersGo <=> [][GoStep]_userVars
  BY DEF NamedUsersGo, GoStep
<1> QED BY <1>1, <1>2, <1>3, <1>4, <1>5, <1>6, <1>7, PTL DEF UsersSpec, AccountsAreConsistent
=============================================================================
