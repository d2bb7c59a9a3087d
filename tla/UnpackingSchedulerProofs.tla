---------------------- MODULE UnpackingSchedulerProofs ----------------------
(* Theorems about UnpackingScheduler, for every value of its constants.    *)
EXTENDS UnpackingScheduler, SequenceTheorems, FiniteSetTheorems, TLAPS

\* The tasks that are made are tasks, and a firmware's task is about the firmware itself.
LEMMA TaskFacts ==
    /\ AnyTask \in Task
    /\ \A fw \in Firmware : FirmwareTask(fw) \in Task
    /\ \A task \in Task :
          /\ task.uid \in Files
          /\ task.root \in Firmware
          /\ task.parent \in Files
          /\ task.depth \in 0 .. MaxDepth
          /\ task.kind \in {"firmware", "file"}
          /\ task.kind = "firmware" => task = FirmwareTask(task.root) /\ task.uid = task.root
    /\ \A task \in Task, f \in Files :
          task.depth < MaxDepth => ChildTask(task, f) \in FileTask
<1>1. PICK fw \in Firmware : TRUE
  BY ConstantsAssumption
<1>2. \A g \in Firmware : FirmwareTask(g) \in Task
  BY DEF Task
<1>3. AnyTask \in Task
  BY <1>1, <1>2 DEF AnyTask
<1>4. ASSUME NEW task \in Task
      PROVE  /\ task.uid \in Files
             /\ task.root \in Firmware
             /\ task.parent \in Files
             /\ task.depth \in 0 .. MaxDepth
             /\ task.kind \in {"firmware", "file"}
             /\ task.kind = "firmware" =>
                    task = FirmwareTask(task.root) /\ task.uid = task.root
  <2>1. CASE task \in FileTask
    BY <2>1 DEF FileTask
  <2>2. CASE \E g \in Firmware : task = FirmwareTask(g)
    BY <2>2, ConstantsAssumption DEF FirmwareTask
  <2> QED BY <2>1, <2>2 DEF Task
<1>5. \A task \in Task, f \in Files :
          task.depth < MaxDepth => ChildTask(task, f) \in FileTask
  BY <1>4, ConstantsAssumption DEF ChildTask, FileTask
<1> QED BY <1>2, <1>3, <1>4, <1>5

\* The entries of currently_extracted stay entries when a file is recorded.
LEMMA EntryFacts ==
    /\ NoEntry \in Entry
    /\ \A fw \in Firmware : NewEntry(fw) \in Entry
    /\ \A entry \in Entry, out \in SUBSET Files, uid \in Files :
          /\ Updated(entry, out, uid) \in Entry
          /\ NotStarted(entry, out, uid) \in SUBSET Files
          /\ LinksWritten(entry, out, uid) \in SUBSET (Files \X Files)
<1>1. NoEntry \in Entry
  BY DEF NoEntry, Entry
<1>2. \A fw \in Firmware : NewEntry(fw) \in Entry
  BY ConstantsAssumption DEF NewEntry, Entry
<1>3. ASSUME NEW entry \in Entry, NEW out \in SUBSET Files, NEW uid \in Files
      PROVE  /\ Updated(entry, out, uid) \in Entry
             /\ NotStarted(entry, out, uid) \in SUBSET Files
             /\ LinksWritten(entry, out, uid) \in SUBSET (Files \X Files)
  BY DEF Updated, Entry, NotStarted, InProgress, LinksWritten, AlreadyDone
<1> QED BY <1>1, <1>2, <1>3

\* A thread that starts, or moves to another phase, is a thread.
LEMMA ThreadFacts ==
    /\ Finished \in ThreadState
    /\ \A phase \in Phases, task \in Task : Thread(phase, task) \in ThreadState
<1>1. NoEntry \in Entry /\ AnyTask \in Task
  BY EntryFacts, TaskFacts
<1>2. "finished" \in Phases
  BY DEF Phases
<1> QED BY <1>1, <1>2 DEF Finished, Thread, ThreadState

-----------------------------------------------------------------------------
(* Type correctness.  TypeOK is not inductive: that the depth of a queued  *)
(* task is bounded rests on the depth of the tasks whose threads still     *)
(* hold files to queue.                                                    *)
FilesBelowLimit ==
    \A c \in Containers : thread[c].out # {} => thread[c].task.depth < MaxDepth

TypeInv == TypeOK /\ FilesBelowLimit

\* The scheduler starts well typed.
LEMMA InitType == Init => TypeInv
<1> SUFFICES ASSUME Init PROVE TypeInv
  OBVIOUS
<1>1. Finished \in ThreadState /\ Finished.out = {} /\ NoEntry \in Entry
  BY ThreadFacts, EntryFacts DEF Finished
<1>2. FilesBelowLimit
  BY <1>1 DEF Init, FilesBelowLimit
<1>3. canceller \in Canceller
  BY DEF Init, Canceller
<1>4. db \in Database
  BY DEF Init, Database
<1>5. budget \in Budget
  BY ConstantsAssumption DEF Init, Budget
<1>6. hist \in History
  BY DEF Init, History
<1> QED BY <1>1, <1>2, <1>3, <1>4, <1>5, <1>6 DEF Init, TypeInv, TypeOK

\* what the updates of the record-valued variables preserve
LEMMA RecordFacts ==
    ASSUME TypeOK
    PROVE  /\ \A fw \in Firmware : budget.submissions[fw] > 0 =>
                  [budget EXCEPT !.submissions[fw] = @ - 1] \in Budget
           /\ budget.failures > 0 => [budget EXCEPT !.failures = @ - 1] \in Budget
           /\ budget.cancels > 0 => [budget EXCEPT !.cancels = @ - 1] \in Budget
           /\ budget.deaths > 0 => [budget EXCEPT !.deaths = @ - 1] \in Budget
           /\ budget.stops > 0 => [budget EXCEPT !.stops = @ - 1] \in Budget
           /\ \A fw \in Firmware : [hist EXCEPT !.cancelled = @ \cup {fw}] \in History
           /\ \A S \in SUBSET (Firmware \X Files) :
                  [hist EXCEPT !.crashed = @ \cup S] \in History
           /\ \A S \in SUBSET (Firmware \X Files \X Files) :
                  /\ [hist EXCEPT !.lost = @ \cup S] \in History
                  /\ [hist EXCEPT !.found = @ \cup S] \in History
           /\ \A fw \in Firmware, f \in Files :
                  [hist EXCEPT !.posts[fw][f] = @ + 1] \in History
           /\ \A S \in SUBSET (Files \X Files) :
                  [db EXCEPT !.links = @ \cup S] \in Database
<1>0. ASSUME NEW fw \in Firmware, budget.submissions[fw] > 0
      PROVE  [budget EXCEPT !.submissions[fw] = @ - 1] \in Budget
  <2>1. budget \in Budget /\ budget.submissions \in [Firmware -> Nat]
    BY DEF TypeOK, Budget
  <2>2. [budget.submissions EXCEPT ![fw] = @ - 1] \in [Firmware -> Nat]
    BY <1>0, <2>1
  <2>3. [budget EXCEPT !.submissions[fw] = @ - 1]
            = [budget EXCEPT !.submissions = [budget.submissions EXCEPT ![fw] = @ - 1]]
    BY <2>1 DEF Budget
  <2>4. \A p \in [Firmware -> Nat] : [budget EXCEPT !.submissions = p] \in Budget
    BY <2>1 DEF Budget
  <2> QED BY <2>2, <2>3, <2>4
<1>1. /\ budget.failures > 0 => [budget EXCEPT !.failures = @ - 1] \in Budget
      /\ budget.cancels > 0 => [budget EXCEPT !.cancels = @ - 1] \in Budget
      /\ budget.deaths > 0 => [budget EXCEPT !.deaths = @ - 1] \in Budget
      /\ budget.stops > 0 => [budget EXCEPT !.stops = @ - 1] \in Budget
  <2>1. /\ budget \in Budget
        /\ budget.failures \in Nat /\ budget.cancels \in Nat
        /\ budget.deaths \in Nat /\ budget.stops \in Nat
    BY DEF TypeOK, Budget
  <2>2. \A n \in Nat : /\ [budget EXCEPT !.failures = n] \in Budget
                       /\ [budget EXCEPT !.cancels = n] \in Budget
                       /\ [budget EXCEPT !.deaths = n] \in Budget
                       /\ [budget EXCEPT !.stops = n] \in Budget
    BY <2>1 DEF Budget
  <2>3. \A n \in Nat : n > 0 => n - 1 \in Nat
    OBVIOUS
  <2> QED BY <2>1, <2>2, <2>3
<1>2. ASSUME NEW fw \in Firmware
      PROVE  [hist EXCEPT !.cancelled = @ \cup {fw}] \in History
  <2>1. hist \in History /\ hist.cancelled \cup {fw} \in SUBSET Firmware
    BY DEF TypeOK, History
  <2>2. \A S \in SUBSET Firmware : [hist EXCEPT !.cancelled = S] \in History
    BY <2>1 DEF History
  <2> QED BY <2>1, <2>2
<1>3. ASSUME NEW S \in SUBSET (Firmware \X Files)
      PROVE  [hist EXCEPT !.crashed = @ \cup S] \in History
  BY DEF TypeOK, History
<1>4. ASSUME NEW S \in SUBSET (Firmware \X Files \X Files)
      PROVE  [hist EXCEPT !.lost = @ \cup S] \in History
  BY DEF TypeOK, History
<1>5. ASSUME NEW S \in SUBSET (Firmware \X Files \X Files)
      PROVE  [hist EXCEPT !.found = @ \cup S] \in History
  BY DEF TypeOK, History
<1>6. ASSUME NEW fw \in Firmware, NEW f \in Files
      PROVE  [hist EXCEPT !.posts[fw][f] = @ + 1] \in History
  <2>1. hist \in History /\ hist.posts \in [Firmware -> [Files -> Nat]]
    BY DEF TypeOK, History
  <2>2. [hist.posts EXCEPT ![fw][f] = @ + 1] \in [Firmware -> [Files -> Nat]]
    BY <2>1
  <2>3. [hist EXCEPT !.posts[fw][f] = @ + 1]
            = [hist EXCEPT !.posts = [hist.posts EXCEPT ![fw][f] = @ + 1]]
    BY <2>1 DEF History
  <2>4. \A p \in [Firmware -> [Files -> Nat]] : [hist EXCEPT !.posts = p] \in History
    BY <2>1 DEF History
  <2> QED BY <2>2, <2>3, <2>4
<1>7. \A S \in SUBSET (Files \X Files) :
         [db EXCEPT !.links = @ \cup S] \in Database
  BY DEF TypeOK, Database
<1> QED BY <1>0, <1>1, <1>2, <1>3, <1>4, <1>5, <1>6, <1>7

\* the steps of the other processes and of the extraction loop
LEMMA EnvironmentType ==
    ASSUME TypeInv,
           \/ \E fw \in Firmware : AddTask(fw) \/ CancelCheck(fw) \/ CancelPop(fw)
           \/ \E limitReached \in {0, 1} : WorkLoadMonitor(limitReached)
           \/ Shutdown
           \/ \E c \in Containers :
                ContainerDies(c) \/ ExtractionLoop(c) \/ CheckPending(c)
    PROVE  TypeInv'
<1> USE RecordFacts DEF TypeInv, TypeOK, FilesBelowLimit, coreVars, containerVars,
                        switchVars
<1>1. ASSUME NEW fw \in Firmware, AddTask(fw) PROVE TypeInv'
  <2>1. in_queue' \in Seq(Task)
    BY <1>1, TaskFacts, AppendProperties DEF AddTask
  <2> QED BY <1>1, <2>1 DEF AddTask
<1>2. ASSUME NEW fw \in Firmware, CancelCheck(fw) PROVE TypeInv'
  <2>1. canceller' \in Canceller
    BY <1>2 DEF CancelCheck, Canceller
  <2> QED BY <1>2, <2>1 DEF CancelCheck
<1>3. ASSUME NEW fw \in Firmware, CancelPop(fw) PROVE TypeInv'
  <2>1. canceller' \in Canceller
    BY <1>3 DEF CancelPop, Canceller
  <2>2. hist' \in History /\ entries' \subseteq Firmware
    BY <1>3 DEF CancelPop
  <2>3. currently_extracted' \in [Firmware -> Entry]
    BY <1>3, EntryFacts DEF CancelPop
  <2> QED BY <1>3, <2>1, <2>2, <2>3 DEF CancelPop
<1>4. ASSUME NEW limitReached \in {0, 1}, WorkLoadMonitor(limitReached) PROVE TypeInv'
  BY <1>4 DEF WorkLoadMonitor
<1>5. ASSUME Shutdown PROVE TypeInv'
  BY <1>5 DEF Shutdown
<1>6. ASSUME NEW c \in Containers, ContainerDies(c) PROVE TypeInv'
  BY <1>6 DEF ContainerDies
<1>7. ASSUME NEW c \in Containers, ExtractionLoop(c) PROVE TypeInv'
  <2>1. in_queue # <<>>
    BY <1>7 DEF ExtractionLoop
  <2>2. Head(in_queue) \in Task /\ Tail(in_queue) \in Seq(Task)
    BY <2>1, HeadTailProperties
  <2>3. /\ Thread("start", Head(in_queue)) \in ThreadState
        /\ Thread("start", Head(in_queue)).out = {}
    BY <2>2, ThreadFacts DEF Phases, Thread
  <2>4. thread' \in [Containers -> ThreadState]
    BY <1>7, <2>3 DEF ExtractionLoop
  <2>5. FilesBelowLimit'
    BY <1>7, <2>3 DEF ExtractionLoop
  <2> QED BY <1>7, <2>2, <2>4, <2>5 DEF ExtractionLoop
<1>8. ASSUME NEW c \in Containers, CheckPending(c) PROVE TypeInv'
  <2>1. CASE pending_tasks' = pending_tasks \ {c} /\ UNCHANGED <<containerVars, loop>>
    BY <1>8, <2>1 DEF CheckPending
  <2>2. CASE Restart(c)
    <3>1. /\ workers' \in [Containers -> Nat]
          /\ running' \in [Containers -> Nat]
          /\ exception' \in [Containers -> {0, 1}]
          /\ pending_tasks' \subseteq Containers
      BY <2>2 DEF Restart
    <3> QED BY <1>8, <2>2, <3>1 DEF CheckPending, Restart
  <2>3. CASE RestartFails
    BY <1>8, <2>3 DEF CheckPending, RestartFails
  <2> QED BY <1>8, <2>1, <2>2, <2>3 DEF CheckPending
<1> QED BY <1>1, <1>2, <1>3, <1>4, <1>5, <1>6, <1>7, <1>8

\* The steps of a work thread keep the types.
LEMMA WorkThreadType ==
    ASSUME TypeInv, NEW c \in Containers, WorkThread(c)
    PROVE  TypeInv'
<1> USE DEF TypeInv, TypeOK, coreVars, containerVars, switchVars
\* the thread itself: a step moves it to another phase, finishes it, or replaces it
<1>a. /\ thread \in [Containers -> ThreadState]
      /\ thread[c] \in ThreadState
      /\ thread[c].task \in Task
      /\ thread[c].task.uid \in Files
      /\ thread[c].task.root \in Firmware
      /\ thread[c].task.parent \in Files
      /\ thread[c].out \in SUBSET Files
      /\ thread[c].copy \in Entry
  BY TaskFacts DEF ThreadState
<1>b. ASSUME NEW state \in ThreadState, thread' = [thread EXCEPT ![c] = state],
             state.out # {} => state.task.depth < MaxDepth
      PROVE  thread' \in [Containers -> ThreadState] /\ FilesBelowLimit'
  BY <1>a, <1>b DEF FilesBelowLimit
<1>c. ASSUME Finish(c)
      PROVE  thread' \in [Containers -> ThreadState] /\ FilesBelowLimit'
  <2>1. Finished \in ThreadState /\ Finished.out = {}
    BY ThreadFacts DEF Finished
  <2> QED BY <1>b, <1>c, <2>1 DEF Finish
<1>d. ASSUME NEW phase \in Phases, Goto(c, phase)
      PROVE  thread' \in [Containers -> ThreadState] /\ FilesBelowLimit'
  <2>1. [thread[c] EXCEPT !.phase = phase] \in ThreadState
    BY <1>a DEF ThreadState
  <2>2. thread' = [thread EXCEPT ![c] = [thread[c] EXCEPT !.phase = phase]]
    BY <1>d DEF Goto
  <2>3. /\ [thread[c] EXCEPT !.phase = phase].out = thread[c].out
        /\ [thread[c] EXCEPT !.phase = phase].task = thread[c].task
    BY <1>a DEF ThreadState
  <2> QED BY <1>b, <2>1, <2>2, <2>3 DEF FilesBelowLimit
<1>e. ASSUME Crash(c)
      PROVE  hist' \in History
  <2>1. {<<thread[c].task.root, thread[c].task.uid>>} \in SUBSET (Firmware \X Files)
    BY <1>a
  <2> QED BY <1>e, <2>1, RecordFacts DEF Crash
<1>1. ASSUME InitCurrentlyUnpacked(c) PROVE TypeInv'
  <2>1. "unpack" \in Phases
    BY DEF Phases
  <2>2. thread[c].task.uid \in Firmware
    BY <1>1, <1>a, TaskFacts DEF InitCurrentlyUnpacked
  <2>3. NewEntry(thread[c].task.uid) \in Entry
    BY <2>2, EntryFacts
  <2>4. entries' \subseteq Firmware /\ currently_extracted' \in [Firmware -> Entry]
    BY <1>1, <2>2, <2>3 DEF InitCurrentlyUnpacked
  <2> QED BY <1>1, <1>d, <2>1, <2>4 DEF InitCurrentlyUnpacked
<1>2. ASSUME CheckCancelled(c) PROVE TypeInv'
  <2>1. "unpack" \in Phases
    BY DEF Phases
  <2> QED BY <1>2, <1>c, <1>d, <2>1 DEF CheckCancelled
<1>3. ASSUME Unpack(c) PROVE TypeInv'
  <2> DEFINE state == [thread[c] EXCEPT !.out = Extracted(thread[c].task),
                                        !.phase = "exists"]
  <2>1. Extracted(thread[c].task) \in SUBSET Files
    BY <1>a, ConstantsAssumption DEF Extracted
  <2>2. state \in ThreadState
    BY <1>a, <2>1 DEF ThreadState, Phases
  <2>3. state.out # {} => state.task.depth < MaxDepth
    BY <1>a DEF ThreadState, Extracted
  <2>4. thread' = [thread EXCEPT ![c] = state]
    BY <1>3, <1>a DEF Unpack
  <2> QED BY <1>3, <1>b, <2>2, <2>3, <2>4 DEF Unpack
<1>4. ASSUME UnpackError(c) PROVE TypeInv'
  <2>1. "exists" \in Phases
    BY DEF Phases
  <2>2. budget' \in Budget
    BY <1>4, RecordFacts DEF UnpackError
  <2>3. exception' \in [Containers -> {0, 1}]
    BY <1>4 DEF UnpackError
  <2> QED BY <1>4, <1>d, <2>1, <2>2, <2>3 DEF UnpackError
<1>5. ASSUME UnpackCrash(c) PROVE TypeInv'
  <2>1. budget' \in Budget
    BY <1>5, RecordFacts DEF UnpackCrash
  <2> QED BY <1>5, <1>c, <1>e, <2>1 DEF UnpackCrash, Crash
<1>6. ASSUME AddObjectExists(c) PROVE TypeInv'
  <2>1. \A u : (IF u THEN "update" ELSE "insert") \in Phases
    BY DEF Phases
  <2> QED BY <1>6, <1>d, <2>1 DEF AddObjectExists
<1>7. ASSUME AddObject(c) PROVE TypeInv'
  <2>1. "post" \in Phases
    BY DEF Phases
  <2>2. /\ db.objects \in SUBSET Files /\ db.firmware \in SUBSET Files
        /\ db.links \in SUBSET (Files \X Files)
    BY DEF Database
  <2>3. <<thread[c].task.parent, thread[c].task.uid>> \in Files \X Files
    BY <1>a
  <2>4. Rows(thread[c].task) \in Database
    BY <1>a, <2>2, <2>3 DEF Rows, Database
  <2> QED BY <1>7, <1>d, <2>1, <2>4 DEF AddObject
<1>8. ASSUME AddObjectFails(c) PROVE TypeInv'
  <2> DEFINE state == [thread[c] EXCEPT !.out = {}, !.phase = "get"]
  <2>1. state \in ThreadState /\ state.out = {}
    BY <1>a DEF ThreadState, Phases
  <2>2. thread' = [thread EXCEPT ![c] = state]
    BY <1>8, <1>a DEF AddObjectFails
  <2>3. budget' \in Budget
    BY <1>8, RecordFacts DEF AddObjectFails
  <2>a. {<<thread[c].task.root, thread[c].task.parent, thread[c].task.uid>>}
           \in SUBSET (Firmware \X Files \X Files)
    BY <1>a
  <2>4. hist' \in History
    BY <1>8, <2>a, RecordFacts DEF AddObjectFails
  <2> QED BY <1>8, <1>b, <2>1, <2>2, <2>3, <2>4 DEF AddObjectFails
<1>9. ASSUME PostUnpack(c) PROVE TypeInv'
  <2>1. "get" \in Phases
    BY DEF Phases
  <2>2. hist' \in History
    BY <1>9, <1>a, RecordFacts DEF PostUnpack
  <2> QED BY <1>9, <1>d, <2>1, <2>2 DEF PostUnpack
<1>10. ASSUME GetEntry(c) PROVE TypeInv'
  <2>1. CASE thread[c].task.root \in entries
    <3> DEFINE entry == currently_extracted[thread[c].task.root]
    <3> DEFINE state == [thread[c] EXCEPT !.copy = entry, !.phase = "store"]
    <3>1. entry \in Entry
      BY <1>a
    <3>2. /\ state \in ThreadState
          /\ state.out = thread[c].out /\ state.task = thread[c].task
      BY <1>a, <3>1 DEF ThreadState, Phases
    <3>3. thread' = [thread EXCEPT ![c] = state]
      BY <1>10, <1>a, <2>1 DEF GetEntry
    <3>4. thread' \in [Containers -> ThreadState] /\ FilesBelowLimit'
      BY <1>b, <3>2, <3>3 DEF FilesBelowLimit
    <3> QED BY <1>10, <2>1, <3>4 DEF GetEntry
  <2>2. CASE thread[c].task.root \notin entries
    BY <1>10, <1>c, <2>2 DEF GetEntry
  <2> QED BY <2>1, <2>2
<1>11. ASSUME StoreEntry(c) PROVE TypeInv'
  <2> DEFINE task == thread[c].task
             new == Updated(thread[c].copy, thread[c].out, task.uid)
             links == LinksWritten(thread[c].copy, thread[c].out, task.uid)
             schedule == NotStarted(thread[c].copy, thread[c].out, task.uid)
             state == IF schedule = {} THEN Finished
                      ELSE [Thread("schedule", task) EXCEPT !.out = schedule]
  <2>1. new \in Entry /\ links \in SUBSET (Files \X Files) /\ schedule \in SUBSET Files
    BY <1>a, EntryFacts
  <2>2. schedule \subseteq thread[c].out
    BY DEF NotStarted
  <2>3. Finished \in ThreadState /\ Finished.out = {}
    BY ThreadFacts DEF Finished
  <2>4. /\ [Thread("schedule", task) EXCEPT !.out = schedule] \in ThreadState
        /\ [Thread("schedule", task) EXCEPT !.out = schedule].out = schedule
        /\ [Thread("schedule", task) EXCEPT !.out = schedule].task = task
    BY <1>a, <2>1, EntryFacts DEF ThreadState, Thread, Phases
  <2>5. state \in ThreadState /\ (state.out # {} => state.task.depth < MaxDepth)
    BY <2>2, <2>3, <2>4 DEF FilesBelowLimit
  <2>6. thread' \in [Containers -> ThreadState] /\ FilesBelowLimit'
    BY <1>11, <1>b, <2>5 DEF StoreEntry
  <2>7. db' \in Database
    BY <1>11, <2>1, RecordFacts DEF StoreEntry
  <2>8. {<<task.root, task.uid, f>> : f \in thread[c].out}
           \in SUBSET (Firmware \X Files \X Files)
    BY <1>a
  <2>9. hist' \in History
    BY <1>11, <2>8, RecordFacts DEF StoreEntry
  <2>10. entries' \subseteq Firmware /\ currently_extracted' \in [Firmware -> Entry]
    <3>1. PICK e \in Entry : currently_extracted' = [currently_extracted EXCEPT ![task.root] = e]
      BY <1>11, <2>1, EntryFacts DEF StoreEntry
    <3>2. entries' \subseteq entries \cup {task.root}
      BY <1>11 DEF StoreEntry
    <3> QED BY <1>a, <3>1, <3>2
  <2> QED BY <1>11, <2>6, <2>7, <2>9, <2>10 DEF StoreEntry
<1>12. ASSUME StoreEntryFails(c) PROVE TypeInv'
  <2> DEFINE links == LinksWritten(thread[c].copy, thread[c].out, thread[c].task.uid)
  <2>1. links \in SUBSET (Files \X Files)
    BY <1>a, EntryFacts
  <2>2. db' \in Database
    BY <1>12, <2>1, RecordFacts DEF StoreEntryFails
  <2> QED BY <1>12, <1>c, <1>e, <2>2 DEF StoreEntryFails, Crash
<1>13. ASSUME NEW f \in Files, ScheduleFile(c, f) PROVE TypeInv'
  <2> DEFINE state == IF thread[c].out = {f} THEN Finished
                      ELSE [thread[c] EXCEPT !.out = @ \ {f}]
  <2>1. Finished \in ThreadState /\ Finished.out = {}
    BY ThreadFacts DEF Finished
  <2>2. /\ [thread[c] EXCEPT !.out = @ \ {f}] \in ThreadState
        /\ [thread[c] EXCEPT !.out = @ \ {f}].task = thread[c].task
        /\ thread[c].out # {}
    BY <1>13, <1>a DEF ThreadState, ScheduleFile
  <2>3. state \in ThreadState /\ (state.out # {} => state.task.depth < MaxDepth)
    BY <2>1, <2>2 DEF FilesBelowLimit
  <2>a. thread' = [thread EXCEPT ![c] = state]
    BY <1>13 DEF ScheduleFile
  <2>4. thread' \in [Containers -> ThreadState] /\ FilesBelowLimit'
    <3> HIDE DEF state
    <3> QED BY <1>b, <2>3, <2>a
  <2>5. ChildTask(thread[c].task, f) \in Task
    BY <1>a, <2>2, TaskFacts DEF FilesBelowLimit, Task
  <2>6. in_queue' \in Seq(Task)
    BY <1>13, <2>5, AppendProperties DEF ScheduleFile
  <2> QED BY <1>13, <2>4, <2>6 DEF ScheduleFile
<1>14. ASSUME ScheduleStopped(c) PROVE TypeInv'
  BY <1>14, <1>c DEF ScheduleStopped
<1> QED BY <1>1, <1>2, <1>3, <1>4, <1>5, <1>6, <1>7, <1>8, <1>9, <1>10, <1>11,
          <1>12, <1>13, <1>14 DEF WorkThread

\* Every step keeps the types.
LEMMA NextType == TypeInv /\ [Next]_vars => TypeInv'
<1> SUFFICES ASSUME TypeInv, [Next]_vars PROVE TypeInv'
  OBVIOUS
<1>1. CASE UNCHANGED vars
  BY <1>1 DEF vars, TypeInv, TypeOK, FilesBelowLimit
<1>2. CASE Next
  BY <1>2, EnvironmentType, WorkThreadType DEF Next
<1> QED BY <1>1, <1>2

\* Every reachable state is well typed: in particular the depth of a queued task
\* never exceeds max_depth and every task belongs to an uploaded firmware.
THEOREM TypeCorrect == Spec => []TypeOK
<1>1. TypeInv => TypeOK
  BY DEF TypeInv
<1> QED BY <1>1, InitType, NextType, PTL DEF Spec
-----------------------------------------------------------------------------
(* Rows before use.  StoredBeforeUse is not inductive: that the parent of  *)
(* a queued file has a row rests on the threads that still hold files to   *)
(* queue, which have stored their own file.                                *)
StoredTask(task, objects) == task.kind = "file" => {task.root, task.parent} \subseteq objects

StoredThread(t, objects) ==
    /\ t.phase \in Working => StoredTask(t.task, objects)
    /\ t.phase = "post" => t.task.uid \in objects
    /\ t.phase \in {"get", "store", "schedule"} /\ t.out # {} =>
          {t.task.root, t.task.uid} \subseteq objects

Stored ==
    /\ \A i \in 1 .. Len(in_queue) : StoredTask(in_queue[i], db.objects)
    /\ \A c \in Containers : StoredThread(thread[c], db.objects)

\* rows are never deleted here, so what was stored stays stored
LEMMA StoredStep ==
    ASSUME TypeInv, Stored, NEW c \in Containers, NEW state,
           thread' = [thread EXCEPT ![c] = state],
           StoredThread(state, db'.objects),
           db.objects \subseteq db'.objects,
           \A i \in 1 .. Len(in_queue') : StoredTask(in_queue'[i], db'.objects)
    PROVE  Stored'
<1>1. ASSUME NEW d \in Containers PROVE StoredThread(thread'[d], db'.objects)
  <2>1. CASE d = c
    BY <2>1 DEF TypeInv, TypeOK
  <2>2. CASE d # c
    <3>1. thread'[d] = thread[d]
      BY <2>2 DEF TypeInv, TypeOK
    <3> QED BY <3>1 DEF Stored, StoredThread, StoredTask
  <2> QED BY <2>1, <2>2
<1> QED BY <1>1 DEF Stored

\* Nothing is queued at first.
LEMMA InitStored == Init => Stored
<1> SUFFICES ASSUME Init PROVE Stored
  OBVIOUS
<1>1. Len(in_queue) = 0
  BY DEF Init
<1>2. StoredThread(Finished, db.objects)
  BY DEF StoredThread, Finished, Working
<1> QED BY <1>1, <1>2 DEF Init, Stored

\* the steps of the other processes and of the extraction loop
LEMMA EnvironmentStored ==
    ASSUME TypeInv, Stored,
           \/ \E fw \in Firmware : AddTask(fw) \/ CancelCheck(fw) \/ CancelPop(fw)
           \/ \E limitReached \in {0, 1} : WorkLoadMonitor(limitReached)
           \/ Shutdown
           \/ \E c \in Containers :
                ContainerDies(c) \/ ExtractionLoop(c) \/ CheckPending(c)
    PROVE  Stored'
<1>a. in_queue \in Seq(Task)
  BY DEF TypeInv, TypeOK
<1>b. ASSUME UNCHANGED <<in_queue, thread, db>> PROVE Stored'
  BY <1>b DEF Stored
<1>1. ASSUME NEW fw \in Firmware, AddTask(fw) PROVE Stored'
  <2>1. StoredTask(FirmwareTask(fw), db.objects)
    BY DEF StoredTask, FirmwareTask
  <2>2. FirmwareTask(fw) \in Task
    BY TaskFacts
  <2>3. /\ Len(in_queue') = Len(in_queue) + 1
        /\ \A i \in 1 .. Len(in_queue) : in_queue'[i] = in_queue[i]
        /\ in_queue'[Len(in_queue) + 1] = FirmwareTask(fw)
    BY <1>1, <1>a, <2>2, AppendProperties DEF AddTask
  <2>4. \A i \in 1 .. Len(in_queue') : StoredTask(in_queue'[i], db.objects)
    BY <1>a, <2>1, <2>3 DEF Stored
  <2> QED BY <1>1, <2>4 DEF AddTask, Stored
<1>2. ASSUME NEW fw \in Firmware, CancelCheck(fw) \/ CancelPop(fw) PROVE Stored'
  BY <1>2, <1>b DEF CancelCheck, CancelPop, coreVars
<1>3. ASSUME NEW limitReached \in {0, 1}, WorkLoadMonitor(limitReached) PROVE Stored'
  BY <1>3, <1>b DEF WorkLoadMonitor, coreVars
<1>4. ASSUME Shutdown PROVE Stored'
  BY <1>4, <1>b DEF Shutdown, coreVars
<1>5. ASSUME NEW c \in Containers, ContainerDies(c) \/ CheckPending(c) PROVE Stored'
  BY <1>5, <1>b DEF ContainerDies, CheckPending, coreVars
<1>6. ASSUME NEW c \in Containers, ExtractionLoop(c) PROVE Stored'
  <2>1. in_queue # <<>>
    BY <1>6 DEF ExtractionLoop
  <2>2. /\ Head(in_queue) = in_queue[1] /\ 1 \in 1 .. Len(in_queue)
        /\ Len(in_queue') = Len(in_queue) - 1
        /\ \A i \in 1 .. Len(in_queue') :
              i + 1 \in 1 .. Len(in_queue) /\ in_queue'[i] = in_queue[i + 1]
    BY <1>6, <1>a, <2>1, HeadTailProperties DEF ExtractionLoop
  <2>3. StoredTask(Head(in_queue), db.objects)
    BY <2>2 DEF Stored
  <2>4. StoredThread(Thread("start", Head(in_queue)), db.objects)
    BY <2>3 DEF StoredThread, Thread
  <2>5. \A i \in 1 .. Len(in_queue') : StoredTask(in_queue'[i], db.objects)
    BY <2>2 DEF Stored
  <2> QED BY <1>6, <2>4, <2>5, StoredStep DEF ExtractionLoop
<1> QED BY <1>1, <1>2, <1>3, <1>4, <1>5, <1>6

\* A work thread queues files only after their parent was stored.
LEMMA WorkThreadStored ==
    ASSUME TypeInv, Stored, NEW c \in Containers, WorkThread(c)
    PROVE  Stored'
<1> DEFINE t == thread[c]
<1>a. /\ thread \in [Containers -> ThreadState]
      /\ t \in ThreadState /\ t.task \in Task
      /\ t.task.kind \in {"firmware", "file"}
      /\ t.task.kind = "firmware" => t.task.uid = t.task.root
      /\ StoredThread(t, db.objects)
      /\ \A i \in 1 .. Len(in_queue) : StoredTask(in_queue[i], db.objects)
  BY TaskFacts DEF TypeInv, TypeOK, ThreadState, Stored
<1>b. ASSUME NEW state, thread' = [thread EXCEPT ![c] = state],
             StoredThread(state, db.objects), UNCHANGED <<in_queue, db>>
      PROVE  Stored'
  BY <1>a, <1>b, StoredStep
<1>c. ASSUME Finish(c), in_queue' = in_queue, db.objects \subseteq db'.objects
      PROVE  Stored'
  <2>1. StoredThread(Finished, db'.objects)
    BY DEF StoredThread, Finished, Working
  <2>2. \A i \in 1 .. Len(in_queue') : StoredTask(in_queue'[i], db'.objects)
    BY <1>a, <1>c DEF StoredTask
  <2> QED BY <1>c, <2>1, <2>2, StoredStep DEF Finish
\* moving on to a phase that needs no more rows than the one before
<1>d. ASSUME NEW phase, Goto(c, phase), UNCHANGED <<in_queue, db>>,
             StoredThread([t EXCEPT !.phase = phase], db.objects)
      PROVE  Stored'
  <2>1. thread' = [thread EXCEPT ![c] = [t EXCEPT !.phase = phase]]
    BY <1>d DEF Goto
  <2> QED BY <1>b, <1>d, <2>1
<1>e. ASSUME NEW phase \in {"unpack", "exists", "insert", "update"}, t.phase \in Working
      PROVE  StoredThread([t EXCEPT !.phase = phase], db.objects)
  BY <1>a, <1>e DEF StoredThread, ThreadState, Working
<1>1. ASSUME InitCurrentlyUnpacked(c) PROVE Stored'
  BY <1>1, <1>d, <1>e DEF InitCurrentlyUnpacked, Working
<1>2. ASSUME CheckCancelled(c) PROVE Stored'
  BY <1>2, <1>c, <1>d, <1>e DEF CheckCancelled, Working, coreVars
<1>3. ASSUME Unpack(c) PROVE Stored'
  <2> DEFINE state == [t EXCEPT !.out = Extracted(t.task), !.phase = "exists"]
  <2>1. thread' = [thread EXCEPT ![c] = state]
    BY <1>3, <1>a DEF Unpack
  <2>2. StoredThread(state, db.objects)
    BY <1>3, <1>a DEF Unpack, StoredThread, ThreadState, Working
  <2> QED BY <1>3, <1>b, <2>1, <2>2 DEF Unpack, coreVars
<1>4. ASSUME UnpackError(c) PROVE Stored'
  BY <1>4, <1>d, <1>e DEF UnpackError, Working, coreVars
<1>5. ASSUME UnpackCrash(c) PROVE Stored'
  BY <1>5, <1>c DEF UnpackCrash, Crash, coreVars
<1>6. ASSUME AddObjectExists(c) PROVE Stored'
  <2>1. PICK phase \in {"insert", "update"} : Goto(c, phase)
    BY <1>6 DEF AddObjectExists
  <2> QED BY <1>6, <1>d, <1>e, <2>1 DEF AddObjectExists, Working, coreVars
<1>7. ASSUME AddObject(c) PROVE Stored'
  <2> DEFINE state == [t EXCEPT !.phase = "post"]
  <2>1. thread' = [thread EXCEPT ![c] = state] /\ in_queue' = in_queue
    BY <1>7 DEF AddObject, Goto, coreVars
  <2>2. db'.objects = db.objects \cup {t.task.uid}
    BY <1>7 DEF AddObject, Rows
  <2>3. StoredThread(state, db'.objects)
    BY <1>7, <1>a, <2>2 DEF AddObject, StoredThread, StoredTask, ThreadState, Working
  <2>4. \A i \in 1 .. Len(in_queue') : StoredTask(in_queue'[i], db'.objects)
    BY <1>a, <2>1, <2>2 DEF StoredTask
  <2> QED BY <2>1, <2>2, <2>3, <2>4, StoredStep
<1>8. ASSUME AddObjectFails(c) PROVE Stored'
  <2> DEFINE state == [t EXCEPT !.out = {}, !.phase = "get"]
  <2>1. thread' = [thread EXCEPT ![c] = state]
    BY <1>8, <1>a DEF AddObjectFails
  <2>2. StoredThread(state, db.objects)
    BY <1>8, <1>a DEF AddObjectFails, StoredThread, ThreadState, Working
  <2> QED BY <1>8, <1>b, <2>1, <2>2 DEF AddObjectFails, coreVars
\* the file has a row, and so has its root: it is the file, or was stored before
<1>9. ASSUME PostUnpack(c) PROVE Stored'
  <2>1. {t.task.root, t.task.uid} \subseteq db.objects
    BY <1>9, <1>a DEF PostUnpack, StoredThread, StoredTask, Working
  <2>2. StoredThread([t EXCEPT !.phase = "get"], db.objects)
    BY <1>9, <1>a, <2>1 DEF PostUnpack, StoredThread, ThreadState, Working
  <2> QED BY <1>9, <1>d, <2>2 DEF PostUnpack, coreVars
<1>10. ASSUME GetEntry(c) PROVE Stored'
  <2>1. CASE t.task.root \in entries
    <3> DEFINE state == [t EXCEPT !.copy = currently_extracted[t.task.root],
                                  !.phase = "store"]
    <3>1. thread' = [thread EXCEPT ![c] = state]
      BY <1>10, <1>a, <2>1 DEF GetEntry
    <3>2. StoredThread(state, db.objects)
      BY <1>10, <1>a DEF GetEntry, StoredThread, ThreadState, Working
    <3> QED BY <1>10, <1>b, <3>1, <3>2 DEF GetEntry
  <2>2. CASE t.task.root \notin entries
    BY <1>10, <1>c, <2>2 DEF GetEntry
  <2> QED BY <2>1, <2>2
<1>11. ASSUME StoreEntry(c) PROVE Stored'
  <2> DEFINE schedule == NotStarted(t.copy, t.out, t.task.uid)
             state == IF schedule = {} THEN Finished
                      ELSE [Thread("schedule", t.task) EXCEPT !.out = schedule]
  <2>1. thread' = [thread EXCEPT ![c] = state] /\ in_queue' = in_queue
    BY <1>11 DEF StoreEntry
  <2>2. db'.objects = db.objects
    BY <1>11 DEF StoreEntry, TypeInv, TypeOK, Database
  <2>3. schedule \subseteq t.out
    BY DEF NotStarted
  <2>4. StoredThread(state, db'.objects)
    <3>1. CASE schedule = {}
      BY <3>1 DEF StoredThread, Finished, Working
    <3>2. CASE schedule # {}
      <4>1. {t.task.root, t.task.uid} \subseteq db.objects
        BY <1>11, <1>a, <2>3, <3>2 DEF StoreEntry, StoredThread
      <4>2. state.phase = "schedule" /\ state.task = t.task
        BY <3>2 DEF Thread
      <4> QED BY <2>2, <4>1, <4>2 DEF StoredThread, Working
    <3> QED BY <3>1, <3>2
  <2>5. \A i \in 1 .. Len(in_queue') : StoredTask(in_queue'[i], db'.objects)
    BY <1>a, <2>1, <2>2
  <2> HIDE DEF state
  <2> QED BY <2>1, <2>2, <2>4, <2>5, StoredStep
<1>12. ASSUME StoreEntryFails(c) PROVE Stored'
  <2>1. db'.objects = db.objects
    BY <1>12 DEF StoreEntryFails, TypeInv, TypeOK, Database
  <2> QED BY <1>12, <1>c, <2>1 DEF StoreEntryFails, Crash
<1>13. ASSUME NEW f \in Files, ScheduleFile(c, f) PROVE Stored'
  <2> DEFINE child == ChildTask(t.task, f)
             state == IF t.out = {f} THEN Finished ELSE [t EXCEPT !.out = @ \ {f}]
  <2>1. thread' = [thread EXCEPT ![c] = state] /\ db' = db
    BY <1>13 DEF ScheduleFile
  <2>2. {t.task.root, t.task.uid} \subseteq db.objects /\ t.phase = "schedule"
    BY <1>13, <1>a DEF ScheduleFile, StoredThread
  <2>3. StoredTask(child, db'.objects)
    BY <2>1, <2>2 DEF StoredTask, ChildTask
  <2>4. StoredThread(state, db'.objects)
    BY <1>a, <2>1, <2>2 DEF StoredThread, Finished, ThreadState, Working
  <2>5. child \in Task
    BY <1>13, <1>a, TaskFacts DEF ScheduleFile, TypeInv, FilesBelowLimit, Task
  <2>6. /\ Len(in_queue') = Len(in_queue) + 1
        /\ \A i \in 1 .. Len(in_queue) : in_queue'[i] = in_queue[i]
        /\ in_queue'[Len(in_queue) + 1] = child
    BY <1>13, <2>5, AppendProperties DEF ScheduleFile, TypeInv, TypeOK
  <2>7. \A i \in 1 .. Len(in_queue') : StoredTask(in_queue'[i], db'.objects)
    <3>1. Len(in_queue) \in Nat
      BY DEF TypeInv, TypeOK
    <3> QED BY <1>a, <2>1, <2>3, <2>6, <3>1
  <2> HIDE DEF state
  <2> QED BY <2>1, <2>4, <2>7, StoredStep
<1>14. ASSUME ScheduleStopped(c) PROVE Stored'
  BY <1>14, <1>c DEF ScheduleStopped, coreVars
<1> QED BY <1>1, <1>2, <1>3, <1>4, <1>5, <1>6, <1>7, <1>8, <1>9, <1>10, <1>11,
          <1>12, <1>13, <1>14 DEF WorkThread

\* Every step keeps the parents of the queued files stored.
LEMMA NextStored == TypeInv /\ Stored /\ [Next]_vars => Stored'
<1> SUFFICES ASSUME TypeInv, Stored, [Next]_vars PROVE Stored'
  OBVIOUS
<1>1. CASE UNCHANGED vars
  BY <1>1 DEF vars, Stored
<1>2. CASE Next
  BY <1>2, EnvironmentStored, WorkThreadStored DEF Next
<1> QED BY <1>1, <1>2

\* work_thread stores a file before it submits it to the analysis and before the
\* files in it can be taken from in_queue: whatever fails, is cancelled or is
\* unpacked at the same time, no included file meets a missing root or parent.
THEOREM ParentsAreStored == Spec => []StoredBeforeUse
<1>1. TypeInv /\ Stored => StoredBeforeUse
  <2> SUFFICES ASSUME TypeInv, Stored PROVE StoredBeforeUse
    OBVIOUS
  <2>1. \A c \in Containers : thread[c].task.kind \in {"firmware", "file"}
    BY TaskFacts DEF TypeInv, TypeOK, ThreadState
  <2> QED BY <2>1 DEF Stored, StoredThread, StoredTask, StoredBeforeUse
<1> QED BY <1>1, InitType, NextType, InitStored, NextStored, PTL DEF Spec
-----------------------------------------------------------------------------
(* Containers.  ContainersAreFresh is not inductive: a thread starts in a  *)
(* container without a pending task, so such a container must not carry an *)
(* exception, and no thread may run in it.                                 *)
ContainersFree ==
    \A c \in Containers :
        /\ running[c] \in {workers[c], 0}
        /\ thread[c].phase \in {"start", "unpack"} => exception[c] = 0
        /\ ~thread[c].phase = "finished" => c \in pending_tasks
        /\ c \notin pending_tasks => exception[c] = 0

\* what every step of a work thread leaves alone: the threads of the other
\* containers, the pool of containers and the switches
LEMMA WorkThreadFrame ==
    ASSUME TypeInv, NEW c \in Containers, WorkThread(c)
    PROVE  /\ ~thread[c].phase = "finished"
           /\ \A d \in Containers \ {c} : thread'[d] = thread[d]
           /\ UNCHANGED <<pending_tasks, workers, running, loop, switchVars, canceller>>
<1> USE DEF TypeInv, TypeOK, coreVars, containerVars, switchVars
<1>a. thread \in [Containers -> ThreadState]
  OBVIOUS
<1>b. ASSUME NEW state, thread' = [thread EXCEPT ![c] = state]
      PROVE  \A d \in Containers \ {c} : thread'[d] = thread[d]
  BY <1>a, <1>b
<1>c. Finish(c) \/ (\E phase : Goto(c, phase)) =>
          \A d \in Containers \ {c} : thread'[d] = thread[d]
  BY <1>a DEF Finish, Goto
<1>1. CASE InitCurrentlyUnpacked(c)
  BY <1>1, <1>c DEF InitCurrentlyUnpacked
<1>2. CASE CheckCancelled(c)
  BY <1>2, <1>c DEF CheckCancelled
<1>3. CASE Unpack(c)
  BY <1>3, <1>a DEF Unpack
<1>4. CASE UnpackError(c)
  BY <1>4, <1>c DEF UnpackError
<1>5. CASE UnpackCrash(c)
  BY <1>5, <1>c DEF UnpackCrash, Crash
<1>6. CASE AddObjectExists(c)
  BY <1>6, <1>c DEF AddObjectExists
<1>7. CASE AddObject(c)
  BY <1>7, <1>c DEF AddObject
<1>8. CASE AddObjectFails(c)
  BY <1>8, <1>a DEF AddObjectFails
<1>9. CASE PostUnpack(c)
  BY <1>9, <1>c DEF PostUnpack
<1>10. CASE GetEntry(c)
  BY <1>10, <1>a, <1>c DEF GetEntry
<1>11. CASE StoreEntry(c)
  BY <1>11, <1>b DEF StoreEntry
<1>12. CASE StoreEntryFails(c)
  BY <1>12, <1>c DEF StoreEntryFails, Crash
<1>13. ASSUME NEW f \in Files, ScheduleFile(c, f)
       PROVE  /\ ~thread[c].phase = "finished"
              /\ \A d \in Containers \ {c} : thread'[d] = thread[d]
              /\ UNCHANGED <<pending_tasks, workers, running, loop, switchVars, canceller>>
  BY <1>13, <1>b DEF ScheduleFile
<1>14. CASE ScheduleStopped(c)
  BY <1>14, <1>c DEF ScheduleStopped
<1> QED BY <1>1, <1>2, <1>3, <1>4, <1>5, <1>6, <1>7, <1>8, <1>9, <1>10, <1>11,
          <1>12, <1>13, <1>14 DEF WorkThread

\* only UnpackError sets the exception flag, in the phase after which the thread
\* does not use the container any more
LEMMA WorkThreadException ==
    ASSUME TypeInv, NEW c \in Containers, WorkThread(c)
    PROVE  \/ /\ exception' = exception
              /\ thread'[c].phase \in {"start", "unpack"} => thread[c].phase = "start"
           \/ /\ exception' = [exception EXCEPT ![c] = 1]
              /\ thread'[c].phase = "exists"
<1> USE DEF TypeInv, TypeOK, coreVars, containerVars
<1>a. thread \in [Containers -> ThreadState] /\ thread[c] \in ThreadState
  OBVIOUS
<1>b. \A phase : Goto(c, phase) => thread'[c].phase = phase
  BY <1>a DEF Goto, ThreadState
<1>c. Finish(c) => thread'[c].phase = "finished"
  BY <1>a DEF Finish, Finished
<1>1. CASE InitCurrentlyUnpacked(c)
  BY <1>1 DEF InitCurrentlyUnpacked
<1>2. CASE CheckCancelled(c)
  BY <1>2 DEF CheckCancelled
<1>3. CASE Unpack(c)
  <2>1. thread'[c].phase = "exists"
    BY <1>3, <1>a DEF Unpack, ThreadState
  <2> QED BY <1>3, <2>1 DEF Unpack
<1>4. CASE UnpackError(c)
  BY <1>4, <1>b DEF UnpackError
<1>5. CASE UnpackCrash(c)
  BY <1>5, <1>c DEF UnpackCrash, Crash
<1>6. CASE AddObjectExists(c)
  BY <1>6, <1>b DEF AddObjectExists
<1>7. CASE AddObject(c)
  BY <1>7, <1>b DEF AddObject
<1>8. CASE AddObjectFails(c)
  <2>1. thread'[c].phase = "get"
    BY <1>8, <1>a DEF AddObjectFails, ThreadState
  <2> QED BY <1>8, <2>1 DEF AddObjectFails
<1>9. CASE PostUnpack(c)
  BY <1>9, <1>b DEF PostUnpack
<1>10. CASE GetEntry(c)
  <2>1. thread'[c].phase \in {"store", "finished"}
    BY <1>10, <1>a, <1>c DEF GetEntry, ThreadState
  <2> QED BY <1>10, <2>1 DEF GetEntry
<1>11. CASE StoreEntry(c)
  <2>1. thread'[c].phase \in {"schedule", "finished"}
    BY <1>11, <1>a DEF StoreEntry, Finished, Thread
  <2> QED BY <1>11, <2>1 DEF StoreEntry
<1>12. CASE StoreEntryFails(c)
  BY <1>12, <1>c DEF StoreEntryFails, Crash
<1>13. ASSUME NEW f \in Files, ScheduleFile(c, f)
       PROVE  /\ exception' = exception
              /\ thread'[c].phase \in {"schedule", "finished"}
  BY <1>13, <1>a DEF ScheduleFile, Finished, ThreadState
<1>14. CASE ScheduleStopped(c)
  BY <1>14, <1>c DEF ScheduleStopped
<1> QED BY <1>1, <1>2, <1>3, <1>4, <1>5, <1>6, <1>7, <1>8, <1>9, <1>10, <1>11,
          <1>12, <1>13, <1>14 DEF WorkThread

\* the containers stay free of old exceptions in every step
LEMMA NextContainers == TypeInv /\ ContainersFree /\ [Next]_vars => ContainersFree'
<1> SUFFICES ASSUME TypeInv, ContainersFree, [Next]_vars PROVE ContainersFree'
  OBVIOUS
<1> USE DEF TypeInv, TypeOK, coreVars, containerVars, ContainersFree
<1>a. ASSUME UNCHANGED <<workers, running, thread, exception, pending_tasks>>
      PROVE  ContainersFree'
  BY <1>a
<1>1. ASSUME NEW fw \in Firmware, AddTask(fw) \/ CancelCheck(fw) \/ CancelPop(fw)
      PROVE  ContainersFree'
  BY <1>1, <1>a DEF AddTask, CancelCheck, CancelPop
<1>2. ASSUME NEW limitReached \in {0, 1}, WorkLoadMonitor(limitReached) PROVE ContainersFree'
  BY <1>2, <1>a DEF WorkLoadMonitor
<1>3. ASSUME Shutdown PROVE ContainersFree'
  BY <1>3, <1>a DEF Shutdown
<1>4. ASSUME NEW c \in Containers, ContainerDies(c) PROVE ContainersFree'
  BY <1>4 DEF ContainerDies
<1>5. ASSUME NEW c \in Containers, ExtractionLoop(c) PROVE ContainersFree'
  BY <1>5 DEF ExtractionLoop
<1>6. ASSUME NEW c \in Containers, CheckPending(c) PROVE ContainersFree'
  <2>1. CASE exception[c] = 0 /\ pending_tasks' = pending_tasks \ {c}
             /\ UNCHANGED <<containerVars, loop>>
    BY <1>6, <2>1 DEF CheckPending
  <2>2. CASE Restart(c)
    BY <1>6, <2>2 DEF CheckPending, Restart
  <2>3. CASE RestartFails
    BY <1>6, <2>3, <1>a DEF CheckPending, RestartFails
  <2> QED BY <1>6, <2>1, <2>2, <2>3 DEF CheckPending
<1>7. ASSUME NEW c \in Containers, WorkThread(c) PROVE ContainersFree'
  <2>1. /\ ~thread[c].phase = "finished" /\ c \in pending_tasks
        /\ \A d \in Containers \ {c} : thread'[d] = thread[d]
        /\ UNCHANGED <<pending_tasks, workers, running>>
    BY <1>7, WorkThreadFrame
  <2>2. CASE /\ exception' = exception
             /\ thread'[c].phase \in {"start", "unpack"} => thread[c].phase = "start"
    BY <2>1, <2>2
  <2>3. CASE exception' = [exception EXCEPT ![c] = 1] /\ thread'[c].phase = "exists"
    BY <2>1, <2>3
  <2> QED BY <1>7, <2>2, <2>3, WorkThreadException
<1>8. CASE UNCHANGED vars
  BY <1>8, <1>a DEF vars
<1> QED BY <1>1, <1>2, <1>3, <1>4, <1>5, <1>6, <1>7, <1>8 DEF Next

\* check_pending: whatever fails in whichever order, a work thread never gets a
\* container in which an extraction failed before, and the id the manager list
\* stores for a container is the id of the one that runs.
THEOREM FreshContainers == Spec => []ContainersAreFresh
<1>1. Init => ContainersFree
  BY DEF Init, ContainersFree, Finished
<1>2. ContainersFree => ContainersAreFresh
  BY DEF ContainersFree, ContainersAreFresh
<1> QED BY <1>1, <1>2, InitType, NextType, NextContainers, PTL DEF Spec
-----------------------------------------------------------------------------
(* The lock.  The thread that is between its two calls to the manager      *)
(* holds sync_lock, and what it has read is still what the manager has,    *)
(* unless cancel_unpacking, which takes no lock, came in between.          *)
EntryIsHeld ==
    \A c \in Containers : thread[c].phase = "store" =>
        /\ sync_lock = {c}
        /\ thread[c].task.root \notin hist.cancelled =>
              /\ thread[c].task.root \in entries
              /\ thread[c].copy = currently_extracted[thread[c].task.root]

\* besides the two halves of the update, a work thread changes an entry only where
\* it creates it, and nothing else takes or releases the lock
LEMMA WorkThreadEntries ==
    ASSUME TypeInv, NEW c \in Containers, WorkThread(c)
    PROVE  /\ hist'.cancelled = hist.cancelled
           /\ \/ InitCurrentlyUnpacked(c)
              \/ GetEntry(c)
              \/ StoreEntry(c)
              \/ StoreEntryFails(c)
              \/ /\ UNCHANGED <<entries, currently_extracted, sync_lock>>
                 /\ ~thread[c].phase = "store"
                 /\ ~thread'[c].phase = "store"
<1> USE DEF TypeInv, TypeOK, coreVars
<1>a. thread \in [Containers -> ThreadState] /\ thread[c] \in ThreadState
  OBVIOUS
<1>b. \A phase : Goto(c, phase) => thread'[c].phase = phase
  BY <1>a DEF Goto, ThreadState
<1>c. Finish(c) => thread'[c].phase = "finished"
  BY <1>a DEF Finish, Finished
<1>d. Crash(c) => hist'.cancelled = hist.cancelled
  BY DEF Crash, History
<1>1. CASE InitCurrentlyUnpacked(c)
  BY <1>1 DEF InitCurrentlyUnpacked
<1>2. CASE CheckCancelled(c)
  BY <1>2, <1>b, <1>c DEF CheckCancelled
<1>3. CASE Unpack(c)
  <2>1. thread'[c].phase = "exists"
    BY <1>3, <1>a DEF Unpack, ThreadState
  <2> QED BY <1>3, <2>1 DEF Unpack
<1>4. CASE UnpackError(c)
  BY <1>4, <1>b DEF UnpackError
<1>5. CASE UnpackCrash(c)
  BY <1>5, <1>c, <1>d DEF UnpackCrash, Crash
<1>6. CASE AddObjectExists(c)
  BY <1>6, <1>b DEF AddObjectExists
<1>7. CASE AddObject(c)
  BY <1>7, <1>b DEF AddObject
<1>8. CASE AddObjectFails(c)
  <2>1. thread'[c].phase = "get"
    BY <1>8, <1>a DEF AddObjectFails, ThreadState
  <2>2. hist'.cancelled = hist.cancelled
    BY <1>8 DEF AddObjectFails, History
  <2> QED BY <1>8, <2>1, <2>2 DEF AddObjectFails
<1>9. CASE PostUnpack(c)
  <2>1. hist'.cancelled = hist.cancelled
    BY <1>9 DEF PostUnpack, History
  <2> QED BY <1>9, <1>b, <2>1 DEF PostUnpack
<1>10. CASE GetEntry(c)
  BY <1>10 DEF GetEntry
<1>11. CASE StoreEntry(c)
  BY <1>11 DEF StoreEntry, History
<1>12. CASE StoreEntryFails(c)
  BY <1>12, <1>d DEF StoreEntryFails
<1>13. CASE \E f \in Files : ScheduleFile(c, f)
  <2>1. thread'[c].phase \in {"schedule", "finished"}
    BY <1>13, <1>a DEF ScheduleFile, Finished, ThreadState
  <2> QED BY <1>13, <2>1 DEF ScheduleFile
<1>14. CASE ScheduleStopped(c)
  BY <1>14, <1>c DEF ScheduleStopped
<1> QED BY <1>1, <1>2, <1>3, <1>4, <1>5, <1>6, <1>7, <1>8, <1>9, <1>10, <1>11,
          <1>12, <1>13, <1>14 DEF WorkThread

\* the steps of the other processes and of the loop: they only take entries away,
\* and of those only cancelled ones; no thread enters the update by them
LEMMA EnvironmentEntries ==
    ASSUME TypeInv,
           \/ \E fw \in Firmware : AddTask(fw) \/ CancelCheck(fw) \/ CancelPop(fw)
           \/ \E limitReached \in {0, 1} : WorkLoadMonitor(limitReached)
           \/ Shutdown
           \/ \E c \in Containers :
                ContainerDies(c) \/ ExtractionLoop(c) \/ CheckPending(c)
    PROVE  /\ sync_lock' = sync_lock
           /\ hist.cancelled \subseteq hist'.cancelled
           /\ entries' \subseteq entries
           /\ \A fw \in Firmware \ hist'.cancelled :
                 /\ fw \in entries' <=> fw \in entries
                 /\ currently_extracted'[fw] = currently_extracted[fw]
           /\ \A c \in Containers : thread'[c] = thread[c] \/ thread'[c].phase = "start"
<1> USE DEF TypeInv, TypeOK, coreVars
<1>a. CASE UNCHANGED <<sync_lock, hist, entries, currently_extracted, thread>>
  BY <1>a
<1>1. ASSUME NEW fw \in Firmware, CancelPop(fw)
      PROVE  /\ UNCHANGED <<sync_lock, thread>>
             /\ hist.cancelled \subseteq hist'.cancelled
             /\ entries' \subseteq entries
             /\ \A g \in Firmware \ hist'.cancelled :
                   /\ g \in entries' <=> g \in entries
                   /\ currently_extracted'[g] = currently_extracted[g]
  <2>1. CASE fw \in entries
    <3>1. hist'.cancelled = hist.cancelled \cup {fw}
      BY <1>1, <2>1 DEF CancelPop, History
    <3> QED BY <1>1, <2>1, <3>1 DEF CancelPop
  <2>2. CASE fw \notin entries
    BY <1>1, <2>2 DEF CancelPop
  <2> QED BY <2>1, <2>2
<1>2. CASE \E fw \in Firmware : CancelPop(fw)
  BY <1>1, <1>2
<1>3. CASE \E fw \in Firmware : AddTask(fw) \/ CancelCheck(fw)
  BY <1>3, <1>a DEF AddTask, CancelCheck
<1>4. CASE \E limitReached \in {0, 1} : WorkLoadMonitor(limitReached)
  BY <1>4, <1>a DEF WorkLoadMonitor
<1>5. CASE Shutdown
  BY <1>5, <1>a DEF Shutdown
<1>6. CASE \E c \in Containers : ContainerDies(c) \/ CheckPending(c)
  BY <1>6, <1>a DEF ContainerDies, CheckPending
<1>7. CASE \E c \in Containers : ExtractionLoop(c)
  <2>1. PICK c \in Containers : ExtractionLoop(c)
    BY <1>7
  <2>2. \A d \in Containers : thread'[d] = thread[d] \/ thread'[d].phase = "start"
    BY <2>1 DEF ExtractionLoop, Thread
  <2> QED BY <2>1, <2>2 DEF ExtractionLoop
<1> QED BY <1>2, <1>3, <1>4, <1>5, <1>6, <1>7

\* the lock keeps the copy of an entry valid in every step
LEMMA NextEntries == TypeInv /\ EntryIsHeld /\ [Next]_vars => EntryIsHeld'
<1> SUFFICES ASSUME TypeInv, EntryIsHeld, [Next]_vars PROVE EntryIsHeld'
  OBVIOUS
<1>a. /\ thread \in [Containers -> ThreadState]
      /\ currently_extracted \in [Firmware -> Entry]
      /\ \A c \in Containers : thread[c] \in ThreadState /\ thread[c].task.root \in Firmware
  BY TaskFacts DEF TypeInv, TypeOK, ThreadState
<1>1. ASSUME NEW c \in Containers, WorkThread(c) PROVE EntryIsHeld'
  <2>a. /\ \A d \in Containers \ {c} : thread'[d] = thread[d]
        /\ hist'.cancelled = hist.cancelled
    BY <1>1, WorkThreadFrame, WorkThreadEntries
  <2>1. CASE InitCurrentlyUnpacked(c)
    <3>1. /\ \A d \in Containers : ~thread[d].phase = "store"
          /\ thread'[c].phase = "unpack"
      BY <2>1, <1>a DEF InitCurrentlyUnpacked, EntryIsHeld, Goto, ThreadState
    <3> QED BY <2>a, <3>1 DEF EntryIsHeld
  <2>2. CASE GetEntry(c)
    <3>1. \A d \in Containers : ~thread[d].phase = "store"
      BY <2>2 DEF GetEntry, EntryIsHeld
    <3>2. CASE thread[c].task.root \in entries
      <4>1. /\ sync_lock' = {c} /\ UNCHANGED <<entries, currently_extracted>>
            /\ thread'[c].copy = currently_extracted[thread[c].task.root]
            /\ thread'[c].task = thread[c].task
        BY <2>2, <1>a, <3>2 DEF GetEntry, ThreadState
      <4> QED BY <2>a, <3>1, <3>2, <4>1 DEF EntryIsHeld
    <3>3. CASE thread[c].task.root \notin entries
      <4>1. thread'[c].phase = "finished"
        BY <2>2, <1>a, <3>3 DEF GetEntry, Finish, Finished
      <4> QED BY <2>a, <3>1, <4>1 DEF EntryIsHeld
    <3> QED BY <3>2, <3>3
  <2>3. CASE StoreEntry(c) \/ StoreEntryFails(c)
    <3>1. sync_lock = {c} /\ thread[c].phase = "store"
      BY <2>3 DEF StoreEntry, StoreEntryFails, EntryIsHeld
    <3>2. \A d \in Containers \ {c} : ~thread[d].phase = "store"
      BY <3>1 DEF EntryIsHeld
    <3>3. thread'[c].phase \in {"schedule", "finished"}
      BY <2>3, <1>a DEF StoreEntry, StoreEntryFails, Crash, Finish, Finished, Thread
    <3> QED BY <2>a, <3>2, <3>3 DEF EntryIsHeld
  <2>4. CASE /\ UNCHANGED <<entries, currently_extracted, sync_lock>>
             /\ ~thread[c].phase = "store"
             /\ ~thread'[c].phase = "store"
    BY <2>a, <2>4 DEF EntryIsHeld
  <2> QED BY <1>1, <2>1, <2>2, <2>3, <2>4, WorkThreadEntries
<1>2. CASE \/ \E fw \in Firmware : AddTask(fw) \/ CancelCheck(fw) \/ CancelPop(fw)
           \/ \E limitReached \in {0, 1} : WorkLoadMonitor(limitReached)
           \/ Shutdown
           \/ \E c \in Containers :
                ContainerDies(c) \/ ExtractionLoop(c) \/ CheckPending(c)
  BY <1>a, <1>2, EnvironmentEntries DEF EntryIsHeld
<1>3. CASE UNCHANGED vars
  BY <1>3 DEF vars, EntryIsHeld
<1> QED BY <1>1, <1>2, <1>3 DEF Next

\* no thread is in the update at the start
LEMMA InitEntries == Init => EntryIsHeld
BY DEF Init, EntryIsHeld, Finished

\* sync_lock: however the threads of one firmware interleave, none of them writes
\* back an entry that misses what another one has done, unless the firmware is
\* cancelled.
THEOREM NoLostUpdate == Spec => UpdatesAreNotLost
<1> DEFINE Kept == \A fw \in entries \cap entries' : fw \notin hist'.cancelled =>
                       currently_extracted[fw].done \subseteq currently_extracted'[fw].done
<1>1. TypeInv /\ EntryIsHeld /\ [Next]_vars => [Kept]_vars
  <2> SUFFICES ASSUME TypeInv, EntryIsHeld, Next PROVE Kept
    OBVIOUS
  <2>a. entries \subseteq Firmware /\ currently_extracted \in [Firmware -> Entry]
    BY DEF TypeInv, TypeOK
  <2>1. ASSUME NEW c \in Containers, StoreEntry(c) PROVE Kept
    <3> DEFINE t == thread[c]
               new == Updated(t.copy, t.out, t.task.uid)
    <3>1. /\ t.phase = "store"
          /\ hist'.cancelled = hist.cancelled
          /\ t.task.root \in entries' => currently_extracted' =
                 [currently_extracted EXCEPT ![t.task.root] = new]
          /\ \A fw \in Firmware \ {t.task.root} :
                 currently_extracted'[fw] = currently_extracted[fw]
      BY <2>1, <2>a DEF StoreEntry, TypeInv, TypeOK, History
    <3>2. t.copy.done \subseteq new.done
      BY DEF Updated
    <3>3. t.task.root \notin hist'.cancelled =>
              t.copy = currently_extracted[t.task.root]
      BY <3>1 DEF EntryIsHeld
    <3> HIDE DEF new
    <3> QED BY <2>a, <3>1, <3>2, <3>3
  <2>2. ASSUME NEW c \in Containers, WorkThread(c) PROVE Kept
    <3>1. CASE InitCurrentlyUnpacked(c)
      BY <3>1, <2>a DEF InitCurrentlyUnpacked
    <3>2. CASE GetEntry(c) \/ StoreEntryFails(c)
      BY <3>2 DEF GetEntry, StoreEntryFails
    <3> QED BY <2>1, <2>2, <3>1, <3>2, WorkThreadEntries
  <2>3. CASE \/ \E fw \in Firmware : AddTask(fw) \/ CancelCheck(fw) \/ CancelPop(fw)
             \/ \E limitReached \in {0, 1} : WorkLoadMonitor(limitReached)
             \/ Shutdown
             \/ \E c \in Containers :
                  ContainerDies(c) \/ ExtractionLoop(c) \/ CheckPending(c)
    BY <2>a, <2>3, EnvironmentEntries
  <2> QED BY <2>2, <2>3 DEF Next
<1> QED BY <1>1, InitType, NextType, InitEntries, NextEntries, PTL
        DEF Spec, UpdatesAreNotLost

\* cancel_unpacking is undone only by a new upload or by the one thread that had
\* read the entry before: no leftover task of the queue brings the entry back.
THEOREM CancelHolds == Spec => CancelUndoneOnlyByOverlap
<1> DEFINE Cause(fw, c) ==
               \/ thread[c].phase = "start" /\ thread[c].task = FirmwareTask(fw)
               \/ /\ sync_lock = {c} /\ thread[c].phase = "store" /\ thread[c].task.root = fw
                  /\ fw \in hist.cancelled
           Caused == \A fw \in entries' \ entries : \E c \in Containers : Cause(fw, c)
<1>1. TypeInv /\ EntryIsHeld /\ [Next]_vars => [Caused]_vars
  <2> SUFFICES ASSUME TypeInv, EntryIsHeld, Next PROVE Caused
    OBVIOUS
  <2>1. ASSUME NEW c \in Containers, WorkThread(c) PROVE Caused
    <3> SUFFICES ASSUME NEW fw \in entries' \ entries PROVE Cause(fw, c)
      OBVIOUS
    <3>a. thread[c].task \in Task
      BY DEF TypeInv, TypeOK, ThreadState
    <3>1. CASE InitCurrentlyUnpacked(c)
      <4>1. fw = thread[c].task.uid /\ thread[c].phase = "start"
        BY <3>1 DEF InitCurrentlyUnpacked
      <4>2. thread[c].task = FirmwareTask(fw)
        BY <3>1, <3>a, <4>1, TaskFacts DEF InitCurrentlyUnpacked
      <4> QED BY <4>1, <4>2
    <3>2. CASE StoreEntry(c)
      <4>1. fw = thread[c].task.root /\ thread[c].phase = "store"
        BY <3>2 DEF StoreEntry
      <4> QED BY <4>1 DEF EntryIsHeld
    <3>3. CASE GetEntry(c) \/ StoreEntryFails(c)
      BY <3>3 DEF GetEntry, StoreEntryFails
    <3> QED BY <2>1, <3>1, <3>2, <3>3, WorkThreadEntries
  <2>2. CASE \/ \E fw \in Firmware : AddTask(fw) \/ CancelCheck(fw) \/ CancelPop(fw)
             \/ \E limitReached \in {0, 1} : WorkLoadMonitor(limitReached)
             \/ Shutdown
             \/ \E c \in Containers :
                  ContainerDies(c) \/ ExtractionLoop(c) \/ CheckPending(c)
    BY <2>2, EnvironmentEntries
  <2> QED BY <2>1, <2>2 DEF Next
<1> QED BY <1>1, InitType, NextType, InitEntries, NextEntries, PTL
        DEF Spec, CancelUndoneOnlyByOverlap
-----------------------------------------------------------------------------
(* Where the tasks are.  The lemmas of this section say how each kind of   *)
(* step moves the tasks of the files of a firmware between the queue, the  *)
(* threads that work on them and the threads that are about to queue them. *)

\* a thread that goes on with its task: every task stays where it is
LEMMA PlacesKept ==
    ASSUME TypeInv, NEW c \in Containers, NEW state \in ThreadState,
           thread' = [thread EXCEPT ![c] = state], in_queue' = in_queue,
           thread[c].phase \in Working, state.phase \in Working,
           state.task = thread[c].task
    PROVE  \A fw \in Firmware, f \in Files :
              /\ Queued(fw, f)' = Queued(fw, f)
              /\ InThread(fw, f)' = InThread(fw, f)
              /\ ToQueue(fw, f)' = ToQueue(fw, f)
              /\ \A p \in Files : TaskCarries(fw, p, f)' <=> TaskCarries(fw, p, f)
<1> SUFFICES ASSUME NEW fw \in Firmware, NEW f \in Files
             PROVE  /\ Queued(fw, f)' = Queued(fw, f)
                    /\ InThread(fw, f)' = InThread(fw, f)
                    /\ ToQueue(fw, f)' = ToQueue(fw, f)
                    /\ \A p \in Files : TaskCarries(fw, p, f)' <=> TaskCarries(fw, p, f)
  OBVIOUS
<1>1. /\ \A d \in Containers : thread'[d].task = thread[d].task
      /\ \A d \in Containers \ {c} : thread'[d] = thread[d]
      /\ thread'[c].phase \in Working
  BY DEF TypeInv, TypeOK
<1>2. Queued(fw, f)' = Queued(fw, f)
  BY DEF Queued
<1>3. InThread(fw, f)' = InThread(fw, f)
  BY <1>1 DEF InThread
<1>4. ToQueue(fw, f)' = ToQueue(fw, f)
  <2>1. ~thread[c].phase = "schedule" /\ ~thread'[c].phase = "schedule"
    BY <1>1 DEF Working
  <2> QED BY <1>1, <2>1 DEF ToQueue
<1>5. \A p \in Files : TaskCarries(fw, p, f)' <=> TaskCarries(fw, p, f)
  <2>1. InThread(fw, f) \subseteq Containers /\ ToQueue(fw, f) \subseteq Containers
    BY DEF InThread, ToQueue
  <2> QED BY <1>1, <1>2, <1>3, <1>4, <2>1 DEF TaskCarries
<1> QED BY <1>2, <1>3, <1>4, <1>5

\* nothing happens to the queue and the threads
LEMMA PlacesUnchanged ==
    ASSUME UNCHANGED <<in_queue, thread>>
    PROVE  \A fw \in Firmware, f \in Files :
              /\ Queued(fw, f)' = Queued(fw, f)
              /\ InThread(fw, f)' = InThread(fw, f)
              /\ ToQueue(fw, f)' = ToQueue(fw, f)
              /\ \A p \in Files : TaskCarries(fw, p, f)' <=> TaskCarries(fw, p, f)
BY DEF Queued, InThread, ToQueue, TaskCarries

\* add_task queues the task of a Firmware, which is not the task of a file in it
LEMMA PlacesAdd ==
    ASSUME TypeInv, NEW g \in Firmware, AddTask(g)
    PROVE  \A fw \in Firmware, f \in Files :
              /\ Queued(fw, f)' = Queued(fw, f)
              /\ InThread(fw, f)' = InThread(fw, f)
              /\ ToQueue(fw, f)' = ToQueue(fw, f)
              /\ \A p \in Files : TaskCarries(fw, p, f)' <=> TaskCarries(fw, p, f)
<1> SUFFICES ASSUME NEW fw \in Firmware, NEW f \in Files
             PROVE  /\ Queued(fw, f)' = Queued(fw, f)
                    /\ InThread(fw, f)' = InThread(fw, f)
                    /\ ToQueue(fw, f)' = ToQueue(fw, f)
                    /\ \A p \in Files : TaskCarries(fw, p, f)' <=> TaskCarries(fw, p, f)
  OBVIOUS
<1>1. /\ Len(in_queue') = Len(in_queue) + 1 /\ Len(in_queue) \in Nat
      /\ \A i \in 1 .. Len(in_queue) : in_queue'[i] = in_queue[i]
      /\ in_queue'[Len(in_queue) + 1] = FirmwareTask(g)
      /\ thread' = thread
  BY AppendProperties, TaskFacts DEF AddTask, TypeInv, TypeOK
<1>2. ~IsChild(FirmwareTask(g), fw, f)
  BY DEF IsChild, FirmwareTask
<1>3. Queued(fw, f)' = Queued(fw, f)
  BY <1>1, <1>2 DEF Queued
<1>4. \A i \in Queued(fw, f) : in_queue'[i] = in_queue[i]
  BY <1>1 DEF Queued
<1>5. InThread(fw, f)' = InThread(fw, f) /\ ToQueue(fw, f)' = ToQueue(fw, f)
  BY <1>1 DEF InThread, ToQueue
<1>6. \A p \in Files : TaskCarries(fw, p, f)' <=> TaskCarries(fw, p, f)
  BY <1>1, <1>3, <1>4, <1>5 DEF TaskCarries
<1> QED BY <1>3, <1>5, <1>6

\* a thread ends: its task is gone, the others stay where they are
LEMMA PlacesEnd ==
    ASSUME TypeInv, NEW c \in Containers, Finish(c), in_queue' = in_queue
    PROVE  \A fw \in Firmware, f \in Files :
              /\ Queued(fw, f)' = Queued(fw, f)
              /\ InThread(fw, f)' = InThread(fw, f) \ {c}
              /\ ToQueue(fw, f)' = ToQueue(fw, f) \ {c}
              /\ \A p \in Files : TaskCarries(fw, p, f) =>
                    TaskCarries(fw, p, f)' \/ c \in InThread(fw, f) \cup ToQueue(fw, f)
<1> SUFFICES ASSUME NEW fw \in Firmware, NEW f \in Files
             PROVE  /\ Queued(fw, f)' = Queued(fw, f)
                    /\ InThread(fw, f)' = InThread(fw, f) \ {c}
                    /\ ToQueue(fw, f)' = ToQueue(fw, f) \ {c}
                    /\ \A p \in Files : TaskCarries(fw, p, f) =>
                          \/ TaskCarries(fw, p, f)'
                          \/ c \in InThread(fw, f) \cup ToQueue(fw, f)
  OBVIOUS
<1>1. /\ \A d \in Containers \ {c} : thread'[d] = thread[d]
      /\ ~thread'[c].phase \in Working /\ ~thread'[c].phase = "schedule"
  BY DEF TypeInv, TypeOK, Finish, Finished, Working
<1>2. Queued(fw, f)' = Queued(fw, f)
  BY DEF Queued
<1>3. InThread(fw, f)' = InThread(fw, f) \ {c}
  BY <1>1 DEF InThread
<1>4. ToQueue(fw, f)' = ToQueue(fw, f) \ {c}
  BY <1>1 DEF ToQueue
<1>5. ASSUME NEW p \in Files, TaskCarries(fw, p, f)
      PROVE  TaskCarries(fw, p, f)' \/ c \in InThread(fw, f) \cup ToQueue(fw, f)
  <2>1. InThread(fw, f) \subseteq Containers /\ ToQueue(fw, f) \subseteq Containers
    BY DEF InThread, ToQueue
  <2> QED BY <1>1, <1>2, <1>3, <1>4, <1>5, <2>1 DEF TaskCarries
<1> QED BY <1>2, <1>3, <1>4, <1>5

\* the end of the update: the task of the thread is done, and the files that were
\* not started before are about to be queued
LEMMA PlacesStore ==
    ASSUME TypeInv, NEW c \in Containers, StoreEntry(c)
    PROVE  LET task == thread[c].task
               schedule == NotStarted(thread[c].copy, thread[c].out, task.uid)
           IN  \A fw \in Firmware, f \in Files :
                  /\ Queued(fw, f)' = Queued(fw, f)
                  /\ InThread(fw, f)' = InThread(fw, f) \ {c}
                  /\ c \in ToQueue(fw, f)' <=> fw = task.root /\ f \in schedule
                  /\ ToQueue(fw, f)' \ {c} = ToQueue(fw, f)
                  /\ \A p \in Files : p = task.uid /\ fw = task.root /\ f \in schedule =>
                        TaskCarries(fw, p, f)'
                  /\ \A p \in Files : TaskCarries(fw, p, f) =>
                        \/ TaskCarries(fw, p, f)'
                        \/ c \in InThread(fw, f) /\ p = task.parent
<1> DEFINE task == thread[c].task
           schedule == NotStarted(thread[c].copy, thread[c].out, task.uid)
<1> SUFFICES ASSUME NEW fw \in Firmware, NEW f \in Files
             PROVE  /\ Queued(fw, f)' = Queued(fw, f)
                    /\ InThread(fw, f)' = InThread(fw, f) \ {c}
                    /\ c \in ToQueue(fw, f)' <=> fw = task.root /\ f \in schedule
                    /\ ToQueue(fw, f)' \ {c} = ToQueue(fw, f)
                    /\ \A p \in Files : p = task.uid /\ fw = task.root /\ f \in schedule =>
                          TaskCarries(fw, p, f)'
                    /\ \A p \in Files : TaskCarries(fw, p, f) =>
                          \/ TaskCarries(fw, p, f)'
                          \/ c \in InThread(fw, f) /\ p = task.parent
  OBVIOUS
<1>1. /\ \A d \in Containers \ {c} : thread'[d] = thread[d]
      /\ in_queue' = in_queue
      /\ thread[c].phase = "store"
  BY DEF TypeInv, TypeOK, StoreEntry
<1>2. /\ schedule = {} => thread'[c].phase = "finished"
      /\ schedule # {} => /\ thread'[c].phase = "schedule"
                          /\ thread'[c].task = task
                          /\ thread'[c].out = schedule
  <2>1. /\ schedule = {} => thread'[c] = Finished
        /\ schedule # {} => thread'[c] = [Thread("schedule", task) EXCEPT !.out = schedule]
    BY DEF TypeInv, TypeOK, StoreEntry
  <2> QED BY <2>1 DEF Finished, Thread
<1> HIDE DEF schedule
<1>3. ~thread'[c].phase \in Working
  BY <1>2 DEF Working
<1>4. Queued(fw, f)' = Queued(fw, f)
  BY <1>1 DEF Queued
<1>5. InThread(fw, f)' = InThread(fw, f) \ {c}
  BY <1>1, <1>3 DEF InThread
<1>6. c \in ToQueue(fw, f)' <=> fw = task.root /\ f \in schedule
  BY <1>2 DEF ToQueue
<1>7. ToQueue(fw, f)' \ {c} = ToQueue(fw, f)
  BY <1>1 DEF ToQueue
<1>8. ASSUME NEW p \in Files, p = task.uid, fw = task.root, f \in schedule
      PROVE  TaskCarries(fw, p, f)'
  BY <1>2, <1>6, <1>8 DEF TaskCarries
<1>9. ASSUME NEW p \in Files, TaskCarries(fw, p, f)
      PROVE  TaskCarries(fw, p, f)' \/ (c \in InThread(fw, f) /\ p = task.parent)
  <2>1. /\ InThread(fw, f) \subseteq Containers /\ ToQueue(fw, f) \subseteq Containers
        /\ c \notin ToQueue(fw, f)
    BY <1>1 DEF InThread, ToQueue
  <2> QED BY <1>1, <1>4, <1>5, <1>7, <1>9, <2>1 DEF TaskCarries
<1> QED BY <1>4, <1>5, <1>6, <1>7, <1>8, <1>9

\* _schedule_extracted_files: one file moves from the list of the thread to the end
\* of the queue
LEMMA PlacesSchedule ==
    ASSUME TypeInv, NEW c \in Containers, NEW g \in Files, ScheduleFile(c, g)
    PROVE  LET root == thread[c].task.root
           IN  \A fw \in Firmware, f \in Files :
                  /\ Queued(fw, f)' = Queued(fw, f) \cup
                        (IF fw = root /\ f = g THEN {Len(in_queue) + 1} ELSE {})
                  /\ Len(in_queue) + 1 \notin Queued(fw, f)
                  /\ InThread(fw, f)' = InThread(fw, f)
                  /\ ToQueue(fw, f)' = ToQueue(fw, f) \
                        (IF fw = root /\ f = g THEN {c} ELSE {})
                  /\ c \in ToQueue(root, g)
                  /\ \A p \in Files : TaskCarries(fw, p, f) => TaskCarries(fw, p, f)'
<1> DEFINE task == thread[c].task
           n == Len(in_queue) + 1
<1>a. /\ thread[c] \in ThreadState /\ task \in Task
      /\ thread[c].phase = "schedule" /\ g \in thread[c].out
      /\ task.root \in Firmware
      /\ in_queue \in Seq(Task)
  BY TaskFacts DEF TypeInv, TypeOK, ThreadState, ScheduleFile
<1>b. c \in ToQueue(task.root, g)
  BY <1>a DEF ToQueue
<1> SUFFICES ASSUME NEW fw \in Firmware, NEW f \in Files
             PROVE  /\ Queued(fw, f)' = Queued(fw, f) \cup
                          (IF fw = task.root /\ f = g THEN {n} ELSE {})
                    /\ n \notin Queued(fw, f)
                    /\ InThread(fw, f)' = InThread(fw, f)
                    /\ ToQueue(fw, f)' = ToQueue(fw, f) \
                          (IF fw = task.root /\ f = g THEN {c} ELSE {})
                    /\ \A p \in Files : TaskCarries(fw, p, f) => TaskCarries(fw, p, f)'
  BY <1>b
<1>1. /\ \A d \in Containers \ {c} : thread'[d] = thread[d]
      /\ thread[c].out = {g} => thread'[c].phase = "finished"
      /\ thread[c].out # {g} => /\ thread'[c].phase = "schedule"
                                /\ thread'[c].task = task
                                /\ thread'[c].out = thread[c].out \ {g}
  <2>1. /\ thread[c].out = {g} => thread'[c] = Finished
        /\ thread[c].out # {g} => thread'[c] = [thread[c] EXCEPT !.out = @ \ {g}]
        /\ \A d \in Containers \ {c} : thread'[d] = thread[d]
    BY DEF ScheduleFile, TypeInv, TypeOK
  <2> QED BY <1>a, <2>1 DEF Finished, ThreadState
<1>2. ChildTask(task, g) \in Task
  BY <1>a, TaskFacts DEF TypeInv, FilesBelowLimit, Task
<1>3. /\ Len(in_queue') = n /\ Len(in_queue) \in Nat
      /\ \A i \in 1 .. Len(in_queue) : in_queue'[i] = in_queue[i]
      /\ in_queue'[n] = ChildTask(task, g)
  BY <1>a, <1>2, AppendProperties DEF ScheduleFile
<1>4. /\ IsChild(ChildTask(task, g), fw, f) <=> (fw = task.root /\ f = g)
      /\ ChildTask(task, g).parent = task.uid
  BY DEF IsChild, ChildTask
<1> HIDE DEF task
<1>5. /\ Queued(fw, f)' = Queued(fw, f) \cup
             (IF fw = task.root /\ f = g THEN {n} ELSE {})
      /\ n \notin Queued(fw, f)
  <2>1. Queued(fw, f)' = {i \in 1 .. n : IsChild(in_queue'[i], fw, f)}
    BY <1>3 DEF Queued
  <2>2. \A i \in 1 .. n : IsChild(in_queue'[i], fw, f) <=>
            \/ i \in 1 .. Len(in_queue) /\ IsChild(in_queue[i], fw, f)
            \/ i = n /\ fw = task.root /\ f = g
    BY <1>3, <1>4
  <2> QED BY <1>3, <2>1, <2>2 DEF Queued
<1>6. InThread(fw, f)' = InThread(fw, f)
  <2>1. ~thread[c].phase \in Working /\ ~thread'[c].phase \in Working
    BY <1>1, <1>a DEF Working
  <2> QED BY <1>1, <2>1 DEF InThread
<1>7. ToQueue(fw, f)' = ToQueue(fw, f) \
             (IF fw = task.root /\ f = g THEN {c} ELSE {})
  <2>1. c \in ToQueue(fw, f)' <=>
            c \in ToQueue(fw, f) /\ ~(fw = task.root /\ f = g)
    BY <1>1, <1>a DEF ToQueue, task
  <2>2. \A d \in Containers \ {c} : d \in ToQueue(fw, f)' <=> d \in ToQueue(fw, f)
    BY <1>1 DEF ToQueue
  <2>3. ToQueue(fw, f)' \subseteq Containers /\ ToQueue(fw, f) \subseteq Containers
    BY DEF ToQueue
  <2> QED BY <2>1, <2>2, <2>3
<1>8. ASSUME NEW p \in Files, TaskCarries(fw, p, f) PROVE TaskCarries(fw, p, f)'
  <2>1. CASE \E i \in Queued(fw, f) : in_queue[i].parent = p
    <3>1. PICK i \in Queued(fw, f) : in_queue[i].parent = p
      BY <2>1
    <3>2. i \in Queued(fw, f)' /\ in_queue'[i].parent = p
      BY <1>3, <1>5, <3>1 DEF Queued
    <3> QED BY <3>2 DEF TaskCarries
  <2>2. CASE \E d \in InThread(fw, f) : thread[d].task.parent = p
    <3>1. c \notin InThread(fw, f) /\ InThread(fw, f) \subseteq Containers
      BY <1>a DEF InThread, Working
    <3> QED BY <1>1, <1>6, <2>2, <3>1 DEF TaskCarries
  <2>3. CASE \E d \in ToQueue(fw, f) : thread[d].task.uid = p
    <3>1. PICK d \in ToQueue(fw, f) : thread[d].task.uid = p
      BY <2>3
    <3>2. CASE d = c /\ fw = task.root /\ f = g
      <4>1. n \in Queued(fw, f)' /\ in_queue'[n].parent = p
        BY <1>3, <1>4, <1>5, <3>1, <3>2 DEF task
      <4> QED BY <4>1 DEF TaskCarries
    <3>3. CASE ~(d = c /\ fw = task.root /\ f = g)
      <4>1. d \in ToQueue(fw, f)'
        BY <1>7, <3>1, <3>3
      <4>2. thread'[d].task = thread[d].task
        BY <1>1, <4>1, <1>a DEF ToQueue, task
      <4> QED BY <3>1, <4>1, <4>2 DEF TaskCarries
    <3> QED BY <3>2, <3>3
  <2> QED BY <1>8, <2>1, <2>2, <2>3 DEF TaskCarries
<1> QED BY <1>5, <1>6, <1>7, <1>8 DEF task

\* in_queue.get: the first task of the queue moves to a thread that was free
LEMMA PlacesLoop ==
    ASSUME TypeInv, ContainersFree, NEW c \in Containers, ExtractionLoop(c)
    PROVE  \A fw \in Firmware, f \in Files :
              /\ \A i \in Queued(fw, f)' : i + 1 \in Queued(fw, f)
              /\ \A i \in Queued(fw, f) : i = 1 \/ i - 1 \in Queued(fw, f)'
              /\ InThread(fw, f)' = InThread(fw, f) \cup
                    (IF 1 \in Queued(fw, f) THEN {c} ELSE {})
              /\ ToQueue(fw, f)' = ToQueue(fw, f)
              /\ \A p \in Files : TaskCarries(fw, p, f) => TaskCarries(fw, p, f)'
<1> SUFFICES ASSUME NEW fw \in Firmware, NEW f \in Files
             PROVE  /\ \A i \in Queued(fw, f)' : i + 1 \in Queued(fw, f)
                    /\ \A i \in Queued(fw, f) : i = 1 \/ i - 1 \in Queued(fw, f)'
                    /\ InThread(fw, f)' = InThread(fw, f) \cup
                          (IF 1 \in Queued(fw, f) THEN {c} ELSE {})
                    /\ ToQueue(fw, f)' = ToQueue(fw, f)
                    /\ \A p \in Files : TaskCarries(fw, p, f) => TaskCarries(fw, p, f)'
  OBVIOUS
<1>1. /\ \A d \in Containers \ {c} : thread'[d] = thread[d]
      /\ thread[c].phase = "finished"
      /\ thread'[c] = Thread("start", Head(in_queue))
      /\ in_queue # <<>> /\ in_queue \in Seq(Task)
      /\ in_queue' = Tail(in_queue)
  BY DEF ExtractionLoop, TypeInv, TypeOK, ContainersFree
<1>2. thread'[c].phase = "start" /\ thread'[c].task = in_queue[1]
  BY <1>1 DEF Thread
<1>3. /\ Len(in_queue) \in Nat /\ 1 \in 1 .. Len(in_queue)
      /\ Len(in_queue') = Len(in_queue) - 1
      /\ \A i \in 1 .. Len(in_queue') : in_queue'[i] = in_queue[i + 1]
  BY <1>1, HeadTailProperties
<1>4. \A i \in Queued(fw, f)' : i + 1 \in Queued(fw, f)
  BY <1>3 DEF Queued
<1>5. \A i \in Queued(fw, f) :
          i = 1 \/ (i - 1 \in Queued(fw, f)' /\ in_queue'[i - 1] = in_queue[i])
  BY <1>3 DEF Queued
<1>6. InThread(fw, f)' = InThread(fw, f) \cup
             (IF 1 \in Queued(fw, f) THEN {c} ELSE {})
  <2>1. c \in InThread(fw, f)' <=> 1 \in Queued(fw, f)
    BY <1>2, <1>3 DEF InThread, Queued, Working
  <2>2. c \notin InThread(fw, f)
    BY <1>1 DEF InThread, Working
  <2>3. \A d \in Containers \ {c} : d \in InThread(fw, f)' <=> d \in InThread(fw, f)
    BY <1>1 DEF InThread
  <2>4. InThread(fw, f)' \subseteq Containers /\ InThread(fw, f) \subseteq Containers
    BY DEF InThread
  <2> QED BY <2>1, <2>2, <2>3, <2>4
<1>7. ToQueue(fw, f)' = ToQueue(fw, f)
  BY <1>1, <1>2 DEF ToQueue
<1>8. ASSUME NEW p \in Files, TaskCarries(fw, p, f) PROVE TaskCarries(fw, p, f)'
  <2>1. ASSUME NEW i \in Queued(fw, f), in_queue[i].parent = p
        PROVE  TaskCarries(fw, p, f)'
    <3>1. CASE i = 1
      BY <1>2, <1>6, <2>1, <3>1 DEF TaskCarries
    <3>2. CASE i # 1
      BY <1>5, <2>1, <3>2 DEF TaskCarries
    <3> QED BY <3>1, <3>2
  <2>2. CASE \E d \in InThread(fw, f) : thread[d].task.parent = p
    <3>1. c \notin InThread(fw, f) /\ InThread(fw, f) \subseteq Containers
      BY <1>1 DEF InThread, Working
    <3> QED BY <1>1, <1>6, <2>2, <3>1 DEF TaskCarries
  <2>3. CASE \E d \in ToQueue(fw, f) : thread[d].task.uid = p
    <3>1. c \notin ToQueue(fw, f) /\ ToQueue(fw, f) \subseteq Containers
      BY <1>1 DEF ToQueue
    <3> QED BY <1>1, <1>7, <2>3, <3>1 DEF TaskCarries
  <2> QED BY <1>8, <2>1, <2>2, <2>3 DEF TaskCarries
<1> QED BY <1>4, <1>5, <1>6, <1>7, <1>8
-----------------------------------------------------------------------------
(* The bookkeeping.  UnpackedOnce and NothingIsStranded rest on each       *)
(* other: that a file gets one task rests on its being in remaining as     *)
(* long as it has one, that the links are complete on its task being the   *)
(* only one that could take it out of remaining.                           *)

\* the tasks of a firmware are accounted for in its entry; none is for itself
Tracked ==
    \A fw \in Firmware \ hist.cancelled, f \in Files : HasTask(fw, f) =>
        /\ fw \in entries
        /\ f \in currently_extracted[fw].remaining
        /\ ~f = fw

\* a file has one task, in one place
Single ==
    \A fw \in Firmware \ hist.cancelled, f \in Files :
        /\ \A i, j \in Queued(fw, f) : i = j
        /\ \A c, d \in InThread(fw, f) \cup ToQueue(fw, f) : c = d
        /\ Queued(fw, f) = {} \/ InThread(fw, f) \cup ToQueue(fw, f) = {}

\* the firmware itself is never a file that was not started
RootIsKnown ==
    \A fw \in entries \ hist.cancelled :
        fw \in currently_extracted[fw].remaining \cup currently_extracted[fw].done

\* a file is not found in itself, and once add_object is over, its link to the
\* parent of the task is stored or known to be lost
LinkOfThread(t, links, lost) ==
    /\ t.phase \in Working => t.task.uid \notin t.out
    /\ t.phase \in {"post", "get", "store"} /\ t.task.kind = "file" =>
          \/ <<t.task.parent, t.task.uid>> \in links
          \/ <<t.task.root, t.task.parent, t.task.uid>> \in lost

LinkIsKept == \A c \in Containers : LinkOfThread(thread[c], db.links, hist.lost)

\* LinksNotForgotten, where a crash or a shutdown excuses a link only if the file
\* has no task any more: such a file never leaves remaining again
LinkHasCarrier ==
    \A l \in hist.found : l[1] \notin hist.cancelled =>
        \/ <<l[2], l[3]>> \in db.links
        \/ l \in hist.lost
        \/ /\ l[1] \in entries
           /\ l[3] \in currently_extracted[l[1]].remaining
           /\ \/ TaskCarries(l[1], l[2], l[3])
              \/ l[2] \in currently_extracted[l[1]].delayed[l[3]]
              \/ /\ ~HasTask(l[1], l[3])
                 /\ ~l[3] = l[1]
                 /\ <<l[1], l[3]>> \in hist.crashed \/ stop_condition = 1

Accounted == Tracked /\ Single /\ RootIsKnown /\ RemainingHasTask /\ LinkHasCarrier

\* what every step does to the history, the links and the stop condition
Grows ==
    /\ hist.cancelled \subseteq hist'.cancelled
    /\ hist.lost \subseteq hist'.lost
    /\ hist.crashed \subseteq hist'.crashed
    /\ db.links \subseteq db'.links
    /\ stop_condition = 1 => stop_condition' = 1

\* the entries of the firmwares that are not cancelled stay as they are
SameEntries ==
    \A fw \in Firmware \ hist'.cancelled :
        /\ fw \in entries' <=> fw \in entries
        /\ currently_extracted'[fw] = currently_extracted[fw]

\* history, links and stop condition only grow
LEMMA EverythingGrows ==
    ASSUME TypeInv, Next
    PROVE  Grows /\ (hist'.found = hist.found \/ \E c \in Containers : StoreEntry(c))
<1> USE DEF TypeInv, TypeOK, coreVars, switchVars
<1>a. ASSUME UNCHANGED <<hist, db, stop_condition>> PROVE Grows /\ hist'.found = hist.found
  BY <1>a DEF Grows
<1>b. hist \in History /\ db \in Database
  OBVIOUS
<1>1. ASSUME NEW fw \in Firmware, AddTask(fw) \/ CancelCheck(fw)
      PROVE  Grows /\ hist'.found = hist.found
  BY <1>1, <1>a DEF AddTask, CancelCheck
<1>2. ASSUME NEW fw \in Firmware, CancelPop(fw) PROVE Grows /\ hist'.found = hist.found
  <2>1. CASE hist' = [hist EXCEPT !.cancelled = @ \cup {fw}]
    BY <1>2, <1>b, <2>1 DEF CancelPop, Grows, History
  <2>2. CASE hist' = hist
    BY <1>2, <1>a, <2>2 DEF CancelPop
  <2> QED BY <1>2, <2>1, <2>2 DEF CancelPop
<1>3. ASSUME NEW limitReached \in {0, 1}, WorkLoadMonitor(limitReached)
      PROVE  Grows /\ hist'.found = hist.found
  BY <1>3, <1>a DEF WorkLoadMonitor
<1>4. ASSUME Shutdown PROVE Grows /\ hist'.found = hist.found
  BY <1>4 DEF Shutdown, Grows
<1>5. ASSUME NEW c \in Containers, ContainerDies(c) \/ ExtractionLoop(c) \/ CheckPending(c)
      PROVE  Grows /\ hist'.found = hist.found
  BY <1>5, <1>a DEF ContainerDies, ExtractionLoop, CheckPending
<1>6. ASSUME NEW c \in Containers, WorkThread(c)
      PROVE  Grows /\ (hist'.found = hist.found \/ StoreEntry(c))
  <2>1. CASE InitCurrentlyUnpacked(c) \/ CheckCancelled(c) \/ Unpack(c) \/ UnpackError(c)
             \/ AddObjectExists(c) \/ GetEntry(c) \/ ScheduleStopped(c)
             \/ \E f \in Files : ScheduleFile(c, f)
    BY <2>1, <1>a DEF InitCurrentlyUnpacked, CheckCancelled, Unpack, UnpackError,
          AddObjectExists, GetEntry, ScheduleStopped, ScheduleFile
  <2>2. CASE UnpackCrash(c)
    BY <2>2, <1>b DEF UnpackCrash, Crash, Grows, History
  <2>3. CASE AddObject(c)
    BY <2>3, <1>b DEF AddObject, Rows, Grows
  <2>4. CASE AddObjectFails(c)
    BY <2>4, <1>b DEF AddObjectFails, Grows, History
  <2>5. CASE PostUnpack(c)
    BY <2>5, <1>b DEF PostUnpack, Grows, History
  <2>6. CASE StoreEntry(c)
    BY <2>6, <1>b DEF StoreEntry, Grows, History, Database
  <2>7. CASE StoreEntryFails(c)
    BY <2>7, <1>b DEF StoreEntryFails, Crash, Grows, History, Database
  <2> QED BY <1>6, <2>1, <2>2, <2>3, <2>4, <2>5, <2>6, <2>7 DEF WorkThread
<1> QED BY <1>1, <1>2, <1>3, <1>4, <1>5, <1>6 DEF Next

\* what was found are inclusions in an uploaded firmware
LEMMA FoundFacts ==
    ASSUME TypeInv
    PROVE  \A l \in hist.found : /\ l[1] \in Firmware /\ l[2] \in Files /\ l[3] \in Files
                                 /\ l = <<l[1], l[2], l[3]>>
BY DEF TypeInv, TypeOK, History

\* what a step with an effect on one thread does to the thread of the firmware itself
LEMMA RootKept ==
    ASSUME TypeInv, NEW c \in Containers, NEW state \in ThreadState,
           thread' = [thread EXCEPT ![c] = state],
           state.phase \in Working \ {"start"}, state.task = thread[c].task
    PROVE  \A fw \in Firmware : RootInThread(fw) => RootInThread(fw)'
<1>1. /\ \A d \in Containers : thread'[d].task = thread[d].task
      /\ \A d \in Containers \ {c} : thread'[d] = thread[d]
      /\ thread'[c].phase \in Working \ {"start"}
  BY DEF TypeInv, TypeOK
<1> QED BY <1>1 DEF RootInThread

\* a step that moves no task and changes no entry that counts
LEMMA AccountKept ==
    ASSUME TypeInv, TypeInv', Accounted, Grows, SameEntries, hist'.found = hist.found,
           \A fw \in Firmware : RootInThread(fw) => RootInThread(fw)',
           \A fw \in Firmware, f \in Files :
              /\ Queued(fw, f)' = Queued(fw, f)
              /\ InThread(fw, f)' = InThread(fw, f)
              /\ ToQueue(fw, f)' = ToQueue(fw, f)
              /\ \A p \in Files : TaskCarries(fw, p, f)' <=> TaskCarries(fw, p, f)
    PROVE  Accounted'
<1>a. \A fw \in Firmware, f \in Files : HasTask(fw, f)' <=> HasTask(fw, f)
  BY DEF HasTask
<1>b. /\ entries' \subseteq Firmware /\ currently_extracted' \in [Firmware -> Entry]
      /\ \A e \in Entry : e.remaining \subseteq Files
  BY DEF TypeInv, TypeOK, Entry
<1>1. Tracked'
  BY <1>a DEF Accounted, Tracked, Grows, SameEntries
<1>2. Single'
  BY DEF Accounted, Single, Grows
<1>3. RootIsKnown'
  BY <1>b DEF Accounted, RootIsKnown, Grows, SameEntries
<1>4. RemainingHasTask'
  <2> SUFFICES ASSUME NEW fw \in entries' \ hist'.cancelled,
                      NEW f \in currently_extracted'[fw].remaining
               PROVE  \/ HasTask(fw, f)'
                      \/ f = fw /\ RootInThread(fw)'
                      \/ <<fw, f>> \in hist'.crashed
                      \/ stop_condition' = 1
    BY DEF RemainingHasTask
  <2>1. fw \in Firmware /\ f \in Files
    BY <1>b
  <2>2. /\ fw \in entries \ hist.cancelled
        /\ f \in currently_extracted[fw].remaining
    BY <2>1 DEF Grows, SameEntries
  <2> QED BY <1>a, <2>1, <2>2 DEF Accounted, RemainingHasTask, Grows
<1>5. LinkHasCarrier'
  <2> SUFFICES ASSUME NEW l \in hist.found, l[1] \notin hist'.cancelled
               PROVE  \/ <<l[2], l[3]>> \in db'.links
                      \/ l \in hist'.lost
                      \/ /\ l[1] \in entries'
                         /\ l[3] \in currently_extracted'[l[1]].remaining
                         /\ \/ TaskCarries(l[1], l[2], l[3])'
                            \/ l[2] \in currently_extracted'[l[1]].delayed[l[3]]
                            \/ /\ ~HasTask(l[1], l[3])'
                               /\ ~l[3] = l[1]
                               /\ <<l[1], l[3]>> \in hist'.crashed \/ stop_condition' = 1
    BY DEF LinkHasCarrier
  <2>1. l[1] \in Firmware /\ l[2] \in Files /\ l[3] \in Files
    BY FoundFacts
  <2>2. l[1] \notin hist.cancelled
    BY DEF Grows
  <2> QED BY <1>a, <2>1, <2>2 DEF Accounted, LinkHasCarrier, Grows, SameEntries
<1> QED BY <1>1, <1>2, <1>3, <1>4, <1>5 DEF Accounted

\* a thread ends and drops its task: allowed if the firmware has no entry, or if
\* the history or the shutdown says so
LEMMA AccountEnd ==
    ASSUME TypeInv, TypeInv', Accounted, Grows, hist'.found = hist.found,
           UNCHANGED <<entries, currently_extracted, in_queue>>,
           NEW c \in Containers, Finish(c),
           \A fw \in entries \ hist.cancelled, f \in Files :
              \/ c \in InThread(fw, f) \cup ToQueue(fw, f)
              \/ /\ f = fw /\ thread[c].phase \in Working \ {"start"}
                 /\ thread[c].task = FirmwareTask(fw)
              => <<fw, f>> \in hist'.crashed \/ stop_condition' = 1
    PROVE  Accounted'
<1>a. \A fw \in Firmware, f \in Files :
          /\ Queued(fw, f)' = Queued(fw, f)
          /\ InThread(fw, f)' = InThread(fw, f) \ {c}
          /\ ToQueue(fw, f)' = ToQueue(fw, f) \ {c}
          /\ \A p \in Files : TaskCarries(fw, p, f) =>
                TaskCarries(fw, p, f)' \/ c \in InThread(fw, f) \cup ToQueue(fw, f)
  BY PlacesEnd
<1>b. \A fw \in Firmware, f \in Files :
          /\ HasTask(fw, f)' => HasTask(fw, f)
          /\ HasTask(fw, f) => HasTask(fw, f)' \/ c \in InThread(fw, f) \cup ToQueue(fw, f)
  BY <1>a DEF HasTask
<1>c. /\ entries \subseteq Firmware /\ currently_extracted \in [Firmware -> Entry]
      /\ \A e \in Entry : e.remaining \subseteq Files
  BY DEF TypeInv, TypeOK, Entry
<1>1. Tracked'
  BY <1>b DEF Accounted, Tracked, Grows
<1>2. Single'
  <2> SUFFICES ASSUME NEW fw \in Firmware \ hist'.cancelled, NEW f \in Files
               PROVE  /\ \A i, j \in Queued(fw, f)' : i = j
                      /\ \A d, e \in InThread(fw, f)' \cup ToQueue(fw, f)' : d = e
                      /\ \/ Queued(fw, f)' = {}
                         \/ InThread(fw, f)' \cup ToQueue(fw, f)' = {}
    BY DEF Single
  <2>1. fw \in Firmware \ hist.cancelled
    BY DEF Grows
  <2> QED BY <1>a, <2>1 DEF Accounted, Single
<1>3. RootIsKnown'
  BY <1>c DEF Accounted, RootIsKnown, Grows
<1>4. RemainingHasTask'
  <2> SUFFICES ASSUME NEW fw \in entries \ hist'.cancelled,
                      NEW f \in currently_extracted[fw].remaining
               PROVE  \/ HasTask(fw, f)'
                      \/ f = fw /\ RootInThread(fw)'
                      \/ <<fw, f>> \in hist'.crashed
                      \/ stop_condition' = 1
    BY DEF RemainingHasTask
  <2>1. fw \in Firmware /\ f \in Files /\ fw \in entries \ hist.cancelled
    BY <1>c DEF Grows
  <2>2. RootInThread(fw) => \/ RootInThread(fw)'
                            \/ /\ thread[c].phase \in Working \ {"start"}
                               /\ thread[c].task = FirmwareTask(fw)
    <3>1. \A d \in Containers \ {c} : thread'[d] = thread[d]
      BY DEF Finish, TypeInv, TypeOK
    <3> QED BY <3>1 DEF RootInThread
  <2> QED BY <1>b, <2>1, <2>2 DEF Accounted, RemainingHasTask, Grows
<1>5. LinkHasCarrier'
  <2> SUFFICES ASSUME NEW l \in hist.found, l[1] \notin hist'.cancelled
               PROVE  \/ <<l[2], l[3]>> \in db'.links
                      \/ l \in hist'.lost
                      \/ /\ l[1] \in entries
                         /\ l[3] \in currently_extracted[l[1]].remaining
                         /\ \/ TaskCarries(l[1], l[2], l[3])'
                            \/ l[2] \in currently_extracted[l[1]].delayed[l[3]]
                            \/ /\ ~HasTask(l[1], l[3])'
                               /\ ~l[3] = l[1]
                               /\ <<l[1], l[3]>> \in hist'.crashed \/ stop_condition' = 1
    BY DEF LinkHasCarrier
  <2>1. /\ l[1] \in Firmware /\ l[2] \in Files /\ l[3] \in Files
        /\ l[1] \notin hist.cancelled
    BY FoundFacts DEF Grows
  <2>2. ASSUME c \in InThread(l[1], l[3]) \cup ToQueue(l[1], l[3])
        PROVE  /\ ~HasTask(l[1], l[3])'
               /\ ~l[3] = l[1]
               /\ l[1] \in entries
    <3>1. HasTask(l[1], l[3])
      BY <2>2 DEF HasTask
    <3>2. /\ \A d \in InThread(l[1], l[3]) \cup ToQueue(l[1], l[3]) : d = c
          /\ Queued(l[1], l[3]) = {}
      BY <2>1, <2>2 DEF Accounted, Single
    <3>3. ~HasTask(l[1], l[3])'
      BY <1>a, <2>1, <3>2 DEF HasTask
    <3> QED BY <2>1, <3>1, <3>3 DEF Accounted, Tracked
  <2> QED BY <1>a, <1>b, <2>1, <2>2 DEF Accounted, LinkHasCarrier, Grows
<1> QED BY <1>1, <1>2, <1>3, <1>4, <1>5 DEF Accounted

\* _init_currently_unpacked creates an entry that waits for the firmware itself
LEMMA AccountInit ==
    ASSUME TypeInv, TypeInv', Accounted, Grows, hist'.found = hist.found,
           NEW c \in Containers, InitCurrentlyUnpacked(c)
    PROVE  Accounted'
<1> PICK fw0 \in Firmware : fw0 = thread[c].task.uid /\ thread[c].task = FirmwareTask(fw0)
  BY TaskFacts DEF TypeInv, TypeOK, ThreadState, InitCurrentlyUnpacked
<1> DEFINE state == [thread[c] EXCEPT !.phase = "unpack"]
<1>a. /\ thread[c] \in ThreadState /\ thread[c].task \in Task
      /\ thread[c].phase = "start" /\ "start" \in Working
      /\ in_queue' = in_queue
      /\ entries \subseteq Firmware /\ currently_extracted \in [Firmware -> Entry]
  BY TaskFacts DEF TypeInv, TypeOK, ThreadState, InitCurrentlyUnpacked, Working
<1>b. /\ thread' = [thread EXCEPT ![c] = state]
      /\ state \in ThreadState /\ state.task = thread[c].task
      /\ state.phase \in Working \ {"start"}
  BY <1>a DEF InitCurrentlyUnpacked, Goto, ThreadState, Phases, Working
<1> HIDE DEF state
<1>c. \A fw \in Firmware, f \in Files :
          /\ Queued(fw, f)' = Queued(fw, f)
          /\ InThread(fw, f)' = InThread(fw, f)
          /\ ToQueue(fw, f)' = ToQueue(fw, f)
          /\ \A p \in Files : TaskCarries(fw, p, f)' <=> TaskCarries(fw, p, f)
  BY <1>a, <1>b, PlacesKept
<1>d. \A fw \in Firmware : RootInThread(fw) => RootInThread(fw)'
  BY <1>b, RootKept
<1>1. CASE fw0 \in entries
  <2>1. SameEntries
    BY <1>1 DEF InitCurrentlyUnpacked, SameEntries
  <2> QED BY <1>c, <1>d, <2>1, AccountKept
<1>2. CASE fw0 \notin entries
  <2>a. /\ entries' = entries \cup {fw0}
        /\ currently_extracted' = [currently_extracted EXCEPT ![fw0] = NewEntry(fw0)]
        /\ hist' = hist
    BY <1>2 DEF InitCurrentlyUnpacked
  <2>b. /\ currently_extracted'[fw0].remaining = {fw0}
        /\ \A fw \in Firmware \ {fw0} : currently_extracted'[fw] = currently_extracted[fw]
    BY <1>a, <2>a DEF NewEntry
  <2>c. \A fw \in Firmware, f \in Files : HasTask(fw, f)' <=> HasTask(fw, f)
    BY <1>c DEF HasTask
  <2>d. \A f \in Files : fw0 \in hist.cancelled \/ ~HasTask(fw0, f)
    BY <1>a, <1>2 DEF Accounted, Tracked
  <2>e. RootInThread(fw0)'
    <3>1. thread'[c].task = FirmwareTask(fw0) /\ thread'[c].phase \in Working \ {"start"}
      BY <1>a, <1>b DEF TypeInv, TypeOK
    <3> QED BY <3>1 DEF RootInThread
  <2>f. \A e \in Entry : e.remaining \subseteq Files
    BY DEF Entry
  <2>1. Tracked'
    BY <2>a, <2>b, <2>c, <2>d DEF Accounted, Tracked
  <2>2. Single'
    BY <1>c, <2>a DEF Accounted, Single
  <2>3. RootIsKnown'
    BY <1>a, <2>a, <2>b DEF Accounted, RootIsKnown
  <2>4. RemainingHasTask'
    <3> SUFFICES ASSUME NEW fw \in entries' \ hist.cancelled,
                        NEW f \in currently_extracted'[fw].remaining
                 PROVE  \/ HasTask(fw, f)'
                        \/ f = fw /\ RootInThread(fw)'
                        \/ <<fw, f>> \in hist.crashed
                        \/ stop_condition' = 1
      BY <2>a DEF RemainingHasTask
    <3>1. CASE fw = fw0
      BY <2>b, <2>e, <3>1
    <3>2. CASE fw # fw0
      <4>1. /\ fw \in entries /\ fw \in Firmware
            /\ f \in currently_extracted[fw].remaining /\ f \in Files
        BY <1>a, <2>a, <2>b, <2>f, <3>2
      <4> QED BY <1>d, <2>c, <4>1 DEF Accounted, RemainingHasTask, Grows
    <3> QED BY <3>1, <3>2
  <2>5. LinkHasCarrier'
    <3> SUFFICES ASSUME NEW l \in hist.found, l[1] \notin hist.cancelled
                 PROVE  \/ <<l[2], l[3]>> \in db'.links
                        \/ l \in hist.lost
                        \/ /\ l[1] \in entries'
                           /\ l[3] \in currently_extracted'[l[1]].remaining
                           /\ \/ TaskCarries(l[1], l[2], l[3])'
                              \/ l[2] \in currently_extracted'[l[1]].delayed[l[3]]
                              \/ /\ ~HasTask(l[1], l[3])'
                                 /\ ~l[3] = l[1]
                                 /\ <<l[1], l[3]>> \in hist.crashed \/ stop_condition' = 1
      BY <2>a DEF LinkHasCarrier
    <3>1. l[1] \in Firmware /\ l[2] \in Files /\ l[3] \in Files
      BY FoundFacts
    <3> QED BY <1>2, <1>c, <2>a, <2>b, <2>c, <3>1 DEF Accounted, LinkHasCarrier, Grows
  <2> QED BY <2>1, <2>2, <2>3, <2>4, <2>5 DEF Accounted
<1> QED BY <1>1, <1>2

\* _schedule_extracted_files moves one task from the thread to the queue
LEMMA AccountSchedule ==
    ASSUME TypeInv, TypeInv', Accounted, Grows, hist'.found = hist.found,
           NEW c \in Containers, NEW g \in Files, ScheduleFile(c, g)
    PROVE  Accounted'
<1> PICK root \in Firmware : root = thread[c].task.root
  BY TaskFacts DEF TypeInv, TypeOK, ThreadState
<1> PICK n : n = Len(in_queue) + 1
  OBVIOUS
<1>a. \A fw \in Firmware, f \in Files :
          /\ Queued(fw, f)' = Queued(fw, f) \cup (IF fw = root /\ f = g THEN {n} ELSE {})
          /\ n \notin Queued(fw, f)
          /\ InThread(fw, f)' = InThread(fw, f)
          /\ ToQueue(fw, f)' = ToQueue(fw, f) \ (IF fw = root /\ f = g THEN {c} ELSE {})
          /\ c \in ToQueue(root, g)
          /\ \A p \in Files : TaskCarries(fw, p, f) => TaskCarries(fw, p, f)'
  BY PlacesSchedule
<1>b. \A fw \in Firmware, f \in Files : HasTask(fw, f)' <=> HasTask(fw, f)
  BY <1>a DEF HasTask
<1>c. /\ entries \subseteq Firmware /\ currently_extracted \in [Firmware -> Entry]
      /\ \A e \in Entry : e.remaining \subseteq Files
      /\ UNCHANGED <<entries, currently_extracted, hist, db, stop_condition>>
  BY DEF TypeInv, TypeOK, Entry, ScheduleFile, switchVars
<1>d. \A fw \in Firmware : RootInThread(fw) => RootInThread(fw)'
  <2>1. \A d \in Containers \ {c} : thread'[d] = thread[d]
    BY DEF ScheduleFile, TypeInv, TypeOK
  <2>2. ~thread[c].phase \in Working
    BY DEF ScheduleFile, Working
  <2> QED BY <2>1, <2>2 DEF RootInThread
<1>1. Tracked'
  BY <1>b, <1>c DEF Accounted, Tracked
<1>2. Single'
  <2> SUFFICES ASSUME NEW fw \in Firmware \ hist.cancelled, NEW f \in Files
               PROVE  /\ \A i, j \in Queued(fw, f)' : i = j
                      /\ \A d, e \in InThread(fw, f)' \cup ToQueue(fw, f)' : d = e
                      /\ \/ Queued(fw, f)' = {}
                         \/ InThread(fw, f)' \cup ToQueue(fw, f)' = {}
    BY <1>c DEF Single
  <2>1. CASE fw = root /\ f = g
    <3>1. Queued(fw, f) = {} /\ \A d \in InThread(fw, f) \cup ToQueue(fw, f) : d = c
      BY <1>a, <2>1 DEF Accounted, Single
    <3>2. c \notin InThread(fw, f)
      BY DEF InThread, ScheduleFile, Working
    <3>3. Queued(fw, f)' = {n} /\ InThread(fw, f)' \cup ToQueue(fw, f)' = {}
      BY <1>a, <2>1, <3>1, <3>2
    <3> QED BY <3>3
  <2>2. CASE ~(fw = root /\ f = g)
    BY <1>a, <2>2 DEF Accounted, Single
  <2> QED BY <2>1, <2>2
<1>3. RootIsKnown'
  BY <1>c DEF Accounted, RootIsKnown
<1>4. RemainingHasTask'
  <2>1. \A fw \in entries, f \in Files : f \in currently_extracted[fw].remaining =>
            /\ HasTask(fw, f) => HasTask(fw, f)'
            /\ RootInThread(fw) => RootInThread(fw)'
    BY <1>b, <1>c, <1>d
  <2> QED BY <1>c, <2>1 DEF Accounted, RemainingHasTask
<1>5. LinkHasCarrier'
  <2>1. \A l \in hist.found :
            /\ TaskCarries(l[1], l[2], l[3]) => TaskCarries(l[1], l[2], l[3])'
            /\ HasTask(l[1], l[3])' => HasTask(l[1], l[3])
    BY <1>a, <1>b, FoundFacts
  <2> QED BY <1>c, <2>1 DEF Accounted, LinkHasCarrier
<1> QED BY <1>1, <1>2, <1>3, <1>4, <1>5 DEF Accounted

\* in_queue.get moves one task from the queue to the thread that is started
LEMMA AccountLoop ==
    ASSUME TypeInv, TypeInv', ContainersFree, Accounted, Grows,
           NEW c \in Containers, ExtractionLoop(c)
    PROVE  Accounted'
<1>a. \A fw \in Firmware, f \in Files :
          /\ \A i \in Queued(fw, f)' : i + 1 \in Queued(fw, f)
          /\ \A i \in Queued(fw, f) : i = 1 \/ i - 1 \in Queued(fw, f)'
          /\ InThread(fw, f)' = InThread(fw, f) \cup
                (IF 1 \in Queued(fw, f) THEN {c} ELSE {})
          /\ ToQueue(fw, f)' = ToQueue(fw, f)
          /\ \A p \in Files : TaskCarries(fw, p, f) => TaskCarries(fw, p, f)'
  BY PlacesLoop
<1>b. \A fw \in Firmware, f \in Files : HasTask(fw, f)' <=> HasTask(fw, f)
  <2> SUFFICES ASSUME NEW fw \in Firmware, NEW f \in Files
               PROVE  HasTask(fw, f)' <=> HasTask(fw, f)
    OBVIOUS
  <2>1. Queued(fw, f)' # {} => Queued(fw, f) # {}
    BY <1>a
  <2>2. Queued(fw, f) # {} => 1 \in Queued(fw, f) \/ Queued(fw, f)' # {}
    BY <1>a
  <2> QED BY <1>a, <2>1, <2>2 DEF HasTask
<1>c. /\ entries \subseteq Firmware /\ currently_extracted \in [Firmware -> Entry]
      /\ \A e \in Entry : e.remaining \subseteq Files
      /\ UNCHANGED <<entries, currently_extracted, hist, db, stop_condition>>
  BY DEF TypeInv, TypeOK, Entry, ExtractionLoop, switchVars
<1>d. \A fw \in Firmware : RootInThread(fw) => RootInThread(fw)'
  <2>1. \A d \in Containers \ {c} : thread'[d] = thread[d]
    BY DEF ExtractionLoop, TypeInv, TypeOK
  <2>2. ~thread[c].phase \in Working
    BY DEF ExtractionLoop, ContainersFree, Working
  <2> QED BY <2>1, <2>2 DEF RootInThread
<1>1. Tracked'
  BY <1>b, <1>c DEF Accounted, Tracked
<1>2. Single'
  <2> SUFFICES ASSUME NEW fw \in Firmware \ hist.cancelled, NEW f \in Files
               PROVE  /\ \A i, j \in Queued(fw, f)' : i = j
                      /\ \A d, e \in InThread(fw, f)' \cup ToQueue(fw, f)' : d = e
                      /\ \/ Queued(fw, f)' = {}
                         \/ InThread(fw, f)' \cup ToQueue(fw, f)' = {}
    BY <1>c DEF Single
  <2>a. /\ \A i, j \in Queued(fw, f) : i = j
        /\ \A d, e \in InThread(fw, f) \cup ToQueue(fw, f) : d = e
        /\ Queued(fw, f) = {} \/ InThread(fw, f) \cup ToQueue(fw, f) = {}
    BY DEF Accounted, Single
  <2>b. \A i \in Queued(fw, f)' : i \in Nat /\ i > 0
    BY DEF Queued
  <2>1. \A i, j \in Queued(fw, f)' : i = j
    BY <1>a, <2>a, <2>b
  <2>2. CASE 1 \in Queued(fw, f)
    <3>1. InThread(fw, f)' \cup ToQueue(fw, f)' = {c}
      BY <1>a, <2>2, <2>a
    <3>2. Queued(fw, f)' = {}
      <4>1. ASSUME NEW i \in Queued(fw, f)' PROVE FALSE
        BY <1>a, <2>2, <2>a, <2>b
      <4> QED BY <4>1
    <3> QED BY <3>1, <3>2
  <2>3. CASE 1 \notin Queued(fw, f)
    <3>1. Queued(fw, f) = {} => Queued(fw, f)' = {}
      BY <1>a
    <3> QED BY <1>a, <2>1, <2>3, <2>a, <3>1
  <2> QED BY <2>2, <2>3
<1>3. RootIsKnown'
  BY <1>c DEF Accounted, RootIsKnown
<1>4. RemainingHasTask'
  <2>1. \A fw \in entries, f \in Files : f \in currently_extracted[fw].remaining =>
            /\ HasTask(fw, f) => HasTask(fw, f)'
            /\ RootInThread(fw) => RootInThread(fw)'
    BY <1>b, <1>c, <1>d
  <2> QED BY <1>c, <2>1 DEF Accounted, RemainingHasTask
<1>5. LinkHasCarrier'
  <2>1. \A l \in hist.found :
            /\ TaskCarries(l[1], l[2], l[3]) => TaskCarries(l[1], l[2], l[3])'
            /\ HasTask(l[1], l[3])' => HasTask(l[1], l[3])
    BY <1>a, <1>b, FoundFacts
  <2> QED BY <1>c, <2>1 DEF Accounted, LinkHasCarrier
<1> QED BY <1>1, <1>2, <1>3, <1>4, <1>5 DEF Accounted

\* the end of _update_currently_unpacked: the file leaves remaining together with
\* its only task, the new files enter it together with theirs, and each inclusion
\* that was found is written, delayed or carried by a task
LEMMA AccountStore ==
    ASSUME TypeInv, TypeInv', EntryIsHeld, Accounted, LinkIsKept, Grows,
           NEW c \in Containers, StoreEntry(c)
    PROVE  Accounted'
<1>a. /\ thread[c] \in ThreadState /\ thread[c].task \in Task
      /\ thread[c].phase = "store" /\ thread[c].phase \in Working
      /\ thread[c].out \in SUBSET Files /\ thread[c].copy \in Entry
      /\ entries \subseteq Firmware /\ currently_extracted \in [Firmware -> Entry]
      /\ entries' \subseteq Firmware /\ currently_extracted' \in [Firmware -> Entry]
      /\ hist'.cancelled = hist.cancelled
      /\ hist'.crashed = hist.crashed /\ hist'.lost = hist.lost
      /\ stop_condition' = stop_condition
  BY DEF TypeInv, TypeOK, ThreadState, StoreEntry, Working, History, switchVars
<1> PICK root \in Firmware : root = thread[c].task.root
  BY <1>a, TaskFacts
<1> PICK uid \in Files : uid = thread[c].task.uid
  BY <1>a, TaskFacts
<1> PICK parent \in Files : parent = thread[c].task.parent
  BY <1>a, TaskFacts
<1> PICK kind \in {"firmware", "file"} :
           kind = thread[c].task.kind /\ (kind = "firmware" => uid = root)
  BY <1>a, TaskFacts
<1> PICK out \in SUBSET Files : out = thread[c].out
  BY <1>a
<1> PICK entry \in Entry : entry = thread[c].copy
  BY <1>a
<1> DEFINE schedule == NotStarted(entry, out, uid)
           new == Updated(entry, out, uid)
\* the entry of the firmware, unless it was cancelled
<1>b. root \notin hist.cancelled => root \in entries /\ entry = currently_extracted[root]
  BY <1>a DEF EntryIsHeld
<1>c. /\ new.remaining = (entry.remaining \cup schedule) \ {uid}
      /\ new.done = entry.done \cup {uid}
      /\ \A f \in Files : entry.delayed[f] \subseteq new.delayed[f]
      /\ \A f \in Files : f \in out \cap entry.remaining => uid \in new.delayed[f]
      /\ schedule = out \ (entry.remaining \cup entry.done \cup {uid})
      /\ entry.remaining \subseteq Files
  BY DEF Updated, NotStarted, InProgress, Entry
<1>d. /\ new.remaining = {} => entries' = entries \ {root}
      /\ new.remaining # {} => root \in entries' /\ currently_extracted'[root] = new
      /\ \A fw \in Firmware \ {root} :
            /\ fw \in entries' <=> fw \in entries
            /\ currently_extracted'[fw] = currently_extracted[fw]
  BY <1>a DEF StoreEntry
<1>e. /\ \A p \in entry.delayed[uid] : <<p, uid>> \in db'.links
      /\ \A f \in out : f \notin entry.remaining /\ f \in entry.done \cup {uid} =>
            <<uid, f>> \in db'.links
  <2>1. db'.links = db.links \cup LinksWritten(entry, out, uid)
    BY DEF StoreEntry, TypeInv, TypeOK, Database
  <2> QED BY <2>1 DEF LinksWritten, AlreadyDone
<1>f. hist'.found = hist.found \cup {<<root, uid, f>> : f \in out}
  BY DEF StoreEntry, TypeInv, TypeOK, History
<1>g. \A fw \in Firmware, f \in Files :
          /\ Queued(fw, f)' = Queued(fw, f)
          /\ InThread(fw, f)' = InThread(fw, f) \ {c}
          /\ c \in ToQueue(fw, f)' <=> fw = root /\ f \in schedule
          /\ ToQueue(fw, f)' \ {c} = ToQueue(fw, f)
          /\ fw = root /\ f \in schedule => TaskCarries(fw, uid, f)'
          /\ \A p \in Files : TaskCarries(fw, p, f) =>
                \/ TaskCarries(fw, p, f)'
                \/ c \in InThread(fw, f) /\ p = parent
  BY PlacesStore
<1> HIDE DEF schedule, new
\* the task of the thread itself
<1>h. \A fw \in Firmware, f \in Files :
          /\ c \in InThread(fw, f) <=> (kind = "file" /\ fw = root /\ f = uid)
          /\ c \notin ToQueue(fw, f)
  BY <1>a DEF InThread, IsChild, ToQueue
<1>i. \A fw \in Firmware \ {root}, f \in Files : HasTask(fw, f)' <=> HasTask(fw, f)
  BY <1>g, <1>h DEF HasTask
<1>j. \A f \in Files : /\ HasTask(root, f)' => HasTask(root, f) \/ f \in schedule
                       /\ f \in schedule => HasTask(root, f)'
                       /\ HasTask(root, f) /\ f # uid => HasTask(root, f)'
  BY <1>g, <1>h DEF HasTask
\* the task of the file was its only one
<1>k. root \notin hist.cancelled => ~HasTask(root, uid)'
  <2> SUFFICES ASSUME root \notin hist.cancelled PROVE ~HasTask(root, uid)'
    OBVIOUS
  <2>1. uid \notin schedule
    BY <1>c
  <2>2. CASE kind = "file"
    <3>1. c \in InThread(root, uid)
      BY <1>h, <2>2
    <3>2. /\ \A d \in InThread(root, uid) \cup ToQueue(root, uid) : d = c
          /\ Queued(root, uid) = {}
      BY <3>1 DEF Accounted, Single
    <3> QED BY <1>g, <2>1, <3>2 DEF HasTask
  <2>3. CASE kind = "firmware"
    <3>1. ~HasTask(root, uid)
      BY <2>3 DEF Accounted, Tracked
    <3> QED BY <1>j, <2>1, <3>1
  <2> QED BY <2>2, <2>3
<1>1. Tracked'
  <2> SUFFICES ASSUME NEW fw \in Firmware \ hist.cancelled, NEW f \in Files, HasTask(fw, f)'
               PROVE  /\ fw \in entries'
                      /\ f \in currently_extracted'[fw].remaining
                      /\ ~f = fw
    BY <1>a DEF Tracked
  <2>1. CASE fw # root
    BY <1>d, <1>i, <2>1 DEF Accounted, Tracked
  <2>2. CASE fw = root
    <3>1. f # uid
      BY <1>k, <2>2
    <3>2. f \in new.remaining /\ ~f = root
      <4>1. CASE HasTask(root, f)
        BY <1>b, <1>c, <2>2, <3>1, <4>1 DEF Accounted, Tracked
      <4>2. CASE f \in schedule
        BY <1>b, <1>c, <2>2, <3>1, <4>2 DEF Accounted, RootIsKnown
      <4> QED BY <1>j, <2>2, <4>1, <4>2
    <3> QED BY <1>d, <2>2, <3>2
  <2> QED BY <2>1, <2>2
<1>2. Single'
  <2> SUFFICES ASSUME NEW fw \in Firmware \ hist.cancelled, NEW f \in Files
               PROVE  /\ \A i, j \in Queued(fw, f)' : i = j
                      /\ \A d, e \in InThread(fw, f)' \cup ToQueue(fw, f)' : d = e
                      /\ \/ Queued(fw, f)' = {}
                         \/ InThread(fw, f)' \cup ToQueue(fw, f)' = {}
    BY <1>a DEF Single
  <2>1. CASE fw = root /\ f \in schedule
    <3>1. ~HasTask(fw, f)
      BY <1>b, <1>c, <2>1 DEF Accounted, Tracked
    <3>2. Queued(fw, f)' = {} /\ InThread(fw, f)' \cup ToQueue(fw, f)' = {c}
      BY <1>g, <2>1, <3>1 DEF HasTask
    <3> QED BY <3>2
  <2>2. CASE ~(fw = root /\ f \in schedule)
    <3>1. /\ Queued(fw, f)' = Queued(fw, f)
          /\ InThread(fw, f)' \cup ToQueue(fw, f)' \subseteq InThread(fw, f) \cup ToQueue(fw, f)
      BY <1>g, <2>2
    <3> QED BY <3>1 DEF Accounted, Single
  <2> QED BY <2>1, <2>2
<1>3. RootIsKnown'
  <2> SUFFICES ASSUME NEW fw \in entries' \ hist.cancelled
               PROVE  \/ fw \in currently_extracted'[fw].remaining
                      \/ fw \in currently_extracted'[fw].done
    BY <1>a DEF RootIsKnown
  <2>1. CASE fw # root
    BY <1>a, <1>d, <2>1 DEF Accounted, RootIsKnown
  <2>2. CASE fw = root
    BY <1>b, <1>c, <1>d, <2>2 DEF Accounted, RootIsKnown
  <2> QED BY <2>1, <2>2
<1>4. RemainingHasTask'
  <2> SUFFICES ASSUME NEW fw \in entries' \ hist.cancelled,
                      NEW f \in currently_extracted'[fw].remaining
               PROVE  \/ HasTask(fw, f)'
                      \/ f = fw /\ RootInThread(fw)'
                      \/ <<fw, f>> \in hist.crashed
                      \/ stop_condition = 1
    BY <1>a DEF RemainingHasTask
  <2>a. fw \in Firmware /\ f \in Files
    BY <1>a DEF Entry
  <2>b. RootInThread(fw) => RootInThread(fw)' \/ (fw = root /\ uid = fw)
    <3>1. \A d \in Containers \ {c} : thread'[d] = thread[d]
      BY DEF StoreEntry, TypeInv, TypeOK
    <3> QED BY <3>1 DEF RootInThread, FirmwareTask
  <2>1. CASE fw # root
    BY <1>a, <1>d, <1>i, <2>1, <2>a, <2>b DEF Accounted, RemainingHasTask
  <2>2. CASE fw = root
    <3>1. f \in new.remaining
      BY <1>d, <2>2
    <3>2. f # uid
      BY <1>c, <3>1
    <3>3. CASE f \in schedule
      BY <1>j, <2>2, <2>a, <3>3
    <3>4. CASE f \in entry.remaining
      <4>1. \/ HasTask(root, f)
            \/ f = root /\ RootInThread(root)
            \/ <<root, f>> \in hist.crashed
            \/ stop_condition = 1
        BY <1>b, <2>2, <3>4 DEF Accounted, RemainingHasTask
      <4> QED BY <1>j, <2>2, <2>a, <2>b, <3>2, <4>1
    <3> QED BY <1>c, <3>1, <3>3, <3>4
  <2> QED BY <2>1, <2>2
<1>5. LinkHasCarrier'
  <2> DEFINE kept(l) ==
               \/ <<l[2], l[3]>> \in db'.links
               \/ l \in hist.lost
               \/ /\ l[1] \in entries'
                  /\ l[3] \in currently_extracted'[l[1]].remaining
                  /\ \/ TaskCarries(l[1], l[2], l[3])'
                     \/ l[2] \in currently_extracted'[l[1]].delayed[l[3]]
                     \/ /\ ~HasTask(l[1], l[3])'
                        /\ ~l[3] = l[1]
                        /\ <<l[1], l[3]>> \in hist.crashed \/ stop_condition = 1
  <2>1. ASSUME NEW f \in out, root \notin hist.cancelled PROVE kept(<<root, uid, f>>)
    <3>1. f # uid /\ f \in Files
      BY <1>a DEF LinkIsKept, LinkOfThread
    <3>2. CASE f \in schedule
      BY <1>c, <1>d, <1>g, <3>1, <3>2
    <3>3. CASE f \in entry.remaining
      BY <1>c, <1>d, <3>1, <3>3
    <3>4. CASE f \notin entry.remaining /\ f \notin schedule
      BY <1>c, <1>e, <3>1, <3>4
    <3> QED BY <3>2, <3>3, <3>4
  <2>2. ASSUME NEW l \in hist.found, l[1] \notin hist.cancelled PROVE kept(l)
    <3>a. /\ l[1] \in Firmware /\ l[2] \in Files /\ l[3] \in Files
          /\ l = <<l[1], l[2], l[3]>>
      BY FoundFacts
    <3>b. \/ <<l[2], l[3]>> \in db.links
          \/ l \in hist.lost
          \/ /\ l[1] \in entries
             /\ l[3] \in currently_extracted[l[1]].remaining
             /\ \/ TaskCarries(l[1], l[2], l[3])
                \/ l[2] \in currently_extracted[l[1]].delayed[l[3]]
                \/ /\ ~HasTask(l[1], l[3])
                   /\ ~l[3] = l[1]
                   /\ <<l[1], l[3]>> \in hist.crashed \/ stop_condition = 1
      BY <2>2 DEF Accounted, LinkHasCarrier
    <3>1. CASE <<l[2], l[3]>> \in db.links \/ l \in hist.lost
      BY <3>1 DEF Grows
    <3>2. CASE l[1] # root
      BY <1>d, <1>g, <1>h, <1>i, <3>1, <3>2, <3>a, <3>b
    <3>3. CASE /\ l[1] = root
               /\ <<l[2], l[3]>> \notin db.links /\ l \notin hist.lost
      <4>a. root \notin hist.cancelled /\ entry = currently_extracted[root]
        BY <1>b, <2>2, <3>3
      <4>b. /\ l[3] \in entry.remaining
            /\ \/ TaskCarries(root, l[2], l[3])
               \/ l[2] \in entry.delayed[l[3]]
               \/ /\ ~HasTask(root, l[3])
                  /\ ~l[3] = root
                  /\ <<root, l[3]>> \in hist.crashed \/ stop_condition = 1
        BY <3>3, <3>b, <4>a
      <4>1. CASE l[3] = uid
        <5>1. CASE kind = "firmware"
          <6>1. ~HasTask(root, uid)
            BY <4>a, <5>1 DEF Accounted, Tracked
          <6>2. ~TaskCarries(root, l[2], uid)
            BY <6>1 DEF TaskCarries, HasTask
          <6>3. l[2] \in entry.delayed[uid]
            BY <4>1, <4>b, <5>1, <6>2
          <6> QED BY <1>e, <4>1, <6>3
        <5>2. CASE kind = "file"
          <6>1. c \in InThread(root, uid)
            BY <1>h, <5>2
          <6>2. HasTask(root, uid)
            BY <6>1 DEF HasTask
          <6>3. /\ \A d \in InThread(root, uid) \cup ToQueue(root, uid) : d = c
                /\ Queued(root, uid) = {}
            BY <4>a, <6>1 DEF Accounted, Single
          <6>4. ASSUME TaskCarries(root, l[2], uid) PROVE l[2] = parent
            BY <1>h, <6>3, <6>4 DEF TaskCarries
          <6>5. <<parent, uid>> \in db.links \/ <<root, parent, uid>> \in hist.lost
            BY <1>a, <5>2 DEF LinkIsKept, LinkOfThread
          <6>6. ~TaskCarries(root, l[2], uid)
            BY <3>3, <3>a, <4>1, <6>4, <6>5
          <6>7. l[2] \in entry.delayed[uid]
            BY <4>1, <4>b, <6>2, <6>6
          <6> QED BY <1>e, <4>1, <6>7
        <5> QED BY <5>1, <5>2
      <4>2. CASE l[3] # uid
        <5>1. l[3] \in new.remaining /\ l[3] \notin schedule
          BY <1>c, <4>2, <4>b
        <5>2. root \in entries' /\ currently_extracted'[root] = new
          BY <1>d, <5>1
        <5>3. c \notin InThread(root, l[3])
          BY <1>h, <3>a, <4>2
        <5>4. TaskCarries(root, l[2], l[3]) => TaskCarries(root, l[2], l[3])'
          BY <1>g, <3>a, <5>3
        <5>5. l[2] \in entry.delayed[l[3]] => l[2] \in new.delayed[l[3]]
          BY <1>c, <3>a
        <5>6. ~HasTask(root, l[3]) => ~HasTask(root, l[3])'
          BY <1>j, <3>a, <5>1
        <5> QED BY <3>3, <4>b, <5>1, <5>2, <5>4, <5>5, <5>6
      <4> QED BY <4>1, <4>2
    <3> QED BY <3>1, <3>2, <3>3
  <2>3. \A l \in hist'.found : l[1] \notin hist.cancelled => kept(l)
    <3> SUFFICES ASSUME NEW l \in hist'.found, l[1] \notin hist.cancelled PROVE kept(l)
      OBVIOUS
    <3>1. CASE l \in hist.found
      BY <2>2, <3>1
    <3>2. CASE \E f \in out : l = <<root, uid, f>>
      <4>1. PICK f \in out : l = <<root, uid, f>>
        BY <3>2
      <4>2. root \notin hist.cancelled
        BY <4>1
      <4>3. kept(<<root, uid, f>>)
        BY <2>1, <4>2
      <4> HIDE DEF kept
      <4> QED BY <4>1, <4>3
    <3> QED BY <1>f, <3>1, <3>2
  <2> QED BY <1>a, <2>3 DEF LinkHasCarrier
<1> QED BY <1>1, <1>2, <1>3, <1>4, <1>5 DEF Accounted

\* the links of the threads: each step changes one thread, and links and losses
\* only grow
LEMMA NextLinks == TypeInv /\ LinkIsKept /\ [Next]_vars => LinkIsKept'
<1> SUFFICES ASSUME TypeInv, LinkIsKept, [Next]_vars PROVE LinkIsKept'
  OBVIOUS
<1>a. thread \in [Containers -> ThreadState] /\ hist \in History /\ db \in Database
  BY DEF TypeInv, TypeOK
<1>b. ASSUME UNCHANGED <<thread, db, hist>> PROVE LinkIsKept'
  BY <1>b DEF LinkIsKept
\* a step of one thread
<1>c. ASSUME NEW c \in Containers, NEW state, thread' = [thread EXCEPT ![c] = state],
             LinkOfThread(state, db'.links, hist'.lost), Grows
      PROVE  LinkIsKept'
  <2>1. ASSUME NEW d \in Containers PROVE LinkOfThread(thread'[d], db'.links, hist'.lost)
    <3>1. CASE d = c
      BY <1>a, <1>c, <3>1
    <3>2. CASE d # c
      <4>1. thread'[d] = thread[d] /\ LinkOfThread(thread[d], db.links, hist.lost)
        BY <1>a, <1>c, <3>2 DEF LinkIsKept
      <4> QED BY <1>c, <4>1 DEF Grows, LinkOfThread
    <3> QED BY <3>1, <3>2
  <2> QED BY <2>1 DEF LinkIsKept
\* a thread out of the working phases owes nothing
<1>d. ASSUME NEW t, ~t.phase \in Working, NEW links, NEW lost
      PROVE  LinkOfThread(t, links, lost)
  BY <1>d DEF LinkOfThread, Working
<1>e. ASSUME NEW c \in Containers, Finish(c), Grows PROVE LinkIsKept'
  <2>1. ~Finished.phase \in Working
    BY DEF Finished, Working
  <2>2. LinkOfThread(Finished, db'.links, hist'.lost)
    BY <1>d, <2>1
  <2> QED BY <1>c, <1>e, <2>2 DEF Finish
<1>f. ASSUME NEW c \in Containers, NEW phase, Goto(c, phase), thread[c].phase \in Working,
             phase \in {"unpack", "exists", "insert", "update"} \/
                (phase = "get" /\ thread[c].phase = "post"), Grows
      PROVE  LinkIsKept'
  <2> DEFINE state == [thread[c] EXCEPT !.phase = phase]
  <2>1. thread' = [thread EXCEPT ![c] = state]
    BY <1>f DEF Goto
  <2>2. /\ state.task = thread[c].task /\ state.out = thread[c].out /\ state.phase = phase
    BY <1>a DEF ThreadState
  <2>3. LinkOfThread(thread[c], db.links, hist.lost)
    BY DEF LinkIsKept
  <2>4. LinkOfThread(state, db'.links, hist'.lost)
    BY <1>f, <2>2, <2>3 DEF LinkOfThread, Grows
  <2> QED BY <1>c, <1>f, <2>1, <2>4
<1>1. ASSUME NEW c \in Containers, WorkThread(c) PROVE LinkIsKept'
  <2> DEFINE t == thread[c]
  <2>a. Grows
    BY <1>1, EverythingGrows DEF Next
  <2>b. /\ t \in ThreadState /\ t.task \in Task
        /\ LinkOfThread(t, db.links, hist.lost)
    BY <1>a DEF ThreadState, LinkIsKept
  <2>1. CASE InitCurrentlyUnpacked(c)
    BY <1>f, <2>1, <2>a DEF InitCurrentlyUnpacked, Working
  <2>2. CASE CheckCancelled(c)
    BY <1>e, <1>f, <2>2, <2>a DEF CheckCancelled, Working
  <2>3. CASE Unpack(c)
    <3> DEFINE state == [t EXCEPT !.out = Extracted(t.task), !.phase = "exists"]
    <3>1. thread' = [thread EXCEPT ![c] = state]
      BY <1>a, <2>3 DEF Unpack
    <3>2. LinkOfThread(state, db'.links, hist'.lost)
      BY <2>b DEF LinkOfThread, Extracted, ThreadState
    <3> QED BY <1>c, <2>a, <3>1, <3>2
  <2>4. CASE UnpackError(c)
    BY <1>f, <2>4, <2>a DEF UnpackError, Working
  <2>5. CASE UnpackCrash(c)
    BY <1>e, <2>5, <2>a DEF UnpackCrash, Crash
  <2>6. CASE AddObjectExists(c)
    BY <1>f, <2>6, <2>a DEF AddObjectExists, Working
  <2>7. CASE AddObject(c)
    <3> DEFINE state == [t EXCEPT !.phase = "post"]
    <3>1. thread' = [thread EXCEPT ![c] = state]
      BY <2>7 DEF AddObject, Goto
    <3>2. t.task.kind = "file" => <<t.task.parent, t.task.uid>> \in db'.links
      BY <2>7 DEF AddObject, Rows
    <3>3. state.task = t.task /\ state.out = t.out /\ t.phase \in Working
      BY <2>7, <2>b DEF AddObject, ThreadState, Working
    <3>4. LinkOfThread(state, db'.links, hist'.lost)
      BY <2>b, <3>2, <3>3 DEF LinkOfThread
    <3> QED BY <1>c, <2>a, <3>1, <3>4
  <2>8. CASE AddObjectFails(c)
    <3> DEFINE state == [t EXCEPT !.out = {}, !.phase = "get"]
    <3>1. thread' = [thread EXCEPT ![c] = state]
      BY <1>a, <2>8 DEF AddObjectFails
    <3>2. <<t.task.root, t.task.parent, t.task.uid>> \in hist'.lost
      BY <1>a, <2>8 DEF AddObjectFails, History
    <3>3. LinkOfThread(state, db'.links, hist'.lost)
      BY <2>b, <3>2 DEF LinkOfThread, ThreadState
    <3> QED BY <1>c, <2>a, <3>1, <3>3
  <2>9. CASE PostUnpack(c)
    BY <1>f, <2>9, <2>a DEF PostUnpack, Working
  <2>10. CASE GetEntry(c)
    <3>1. CASE t.task.root \in entries
      <4> DEFINE state == [t EXCEPT !.copy = currently_extracted[t.task.root],
                                    !.phase = "store"]
      <4>1. thread' = [thread EXCEPT ![c] = state]
        BY <1>a, <2>10, <3>1 DEF GetEntry
      <4>2. /\ state.task = t.task /\ state.out = t.out /\ t.phase = "get"
        BY <2>10, <2>b DEF GetEntry, ThreadState
      <4>3. LinkOfThread(state, db'.links, hist'.lost)
        BY <2>a, <2>b, <4>2 DEF LinkOfThread, Grows, Working
      <4> QED BY <1>c, <2>a, <4>1, <4>3
    <3>2. CASE t.task.root \notin entries
      BY <1>e, <2>10, <2>a, <3>2 DEF GetEntry
    <3> QED BY <3>1, <3>2
  <2>11. CASE StoreEntry(c)
    <3> DEFINE schedule == NotStarted(t.copy, t.out, t.task.uid)
               state == IF schedule = {} THEN Finished
                        ELSE [Thread("schedule", t.task) EXCEPT !.out = schedule]
    <3>1. thread' = [thread EXCEPT ![c] = state]
      BY <2>11 DEF StoreEntry
    <3>2. ~state.phase \in Working
      BY DEF Finished, Thread, Working
    <3> HIDE DEF state
    <3>3. LinkOfThread(state, db'.links, hist'.lost)
      BY <1>d, <3>2
    <3> QED BY <1>c, <2>a, <3>1, <3>3
  <2>12. CASE StoreEntryFails(c)
    BY <1>e, <2>12, <2>a DEF StoreEntryFails, Crash
  <2>13. ASSUME NEW f \in Files, ScheduleFile(c, f) PROVE LinkIsKept'
    <3> DEFINE state == IF t.out = {f} THEN Finished ELSE [t EXCEPT !.out = @ \ {f}]
    <3>1. thread' = [thread EXCEPT ![c] = state]
      BY <2>13 DEF ScheduleFile
    <3>2. ~state.phase \in Working
      BY <2>13, <2>b DEF ScheduleFile, Finished, ThreadState, Working
    <3> HIDE DEF state
    <3>3. LinkOfThread(state, db'.links, hist'.lost)
      BY <1>d, <3>2
    <3> QED BY <1>c, <2>a, <3>1, <3>3
  <2>14. CASE ScheduleStopped(c)
    BY <1>e, <2>14, <2>a DEF ScheduleStopped
  <2> QED BY <1>1, <2>1, <2>2, <2>3, <2>4, <2>5, <2>6, <2>7, <2>8, <2>9, <2>10, <2>11,
            <2>12, <2>13, <2>14 DEF WorkThread
<1>2. ASSUME NEW c \in Containers, ExtractionLoop(c) PROVE LinkIsKept'
  <2>1. Grows
    BY <1>2, EverythingGrows DEF Next
  <2>2. LinkOfThread(Thread("start", Head(in_queue)), db'.links, hist'.lost)
    BY DEF LinkOfThread, Thread
  <2> QED BY <1>2, <1>c, <2>1, <2>2 DEF ExtractionLoop
<1>3. ASSUME NEW c \in Containers, ContainerDies(c) \/ CheckPending(c) PROVE LinkIsKept'
  BY <1>3, <1>b DEF ContainerDies, CheckPending
<1>4. ASSUME NEW fw \in Firmware, AddTask(fw) \/ CancelCheck(fw) PROVE LinkIsKept'
  BY <1>4, <1>b DEF AddTask, CancelCheck
<1>5. ASSUME NEW fw \in Firmware, CancelPop(fw) PROVE LinkIsKept'
  <2>1. hist'.lost = hist.lost /\ UNCHANGED <<thread, db>>
    BY <1>5, <1>a DEF CancelPop, History
  <2> QED BY <2>1 DEF LinkIsKept
<1>6. ASSUME NEW limitReached \in {0, 1}, WorkLoadMonitor(limitReached) PROVE LinkIsKept'
  BY <1>6, <1>b DEF WorkLoadMonitor
<1>7. ASSUME Shutdown PROVE LinkIsKept'
  BY <1>7, <1>b DEF Shutdown
<1>8. CASE UNCHANGED vars
  BY <1>8, <1>b DEF vars
<1> QED BY <1>1, <1>2, <1>3, <1>4, <1>5, <1>6, <1>7, <1>8 DEF Next

\* the invariant of the bookkeeping, with what it rests on
Bookkeeping == TypeInv /\ ContainersFree /\ EntryIsHeld /\ LinkIsKept /\ Accounted

\* a work thread keeps the accounts
LEMMA WorkThreadAccount ==
    ASSUME Bookkeeping, TypeInv', NEW c \in Containers, WorkThread(c)
    PROVE  Accounted'
<1> DEFINE t == thread[c]
<1>a. /\ TypeInv /\ EntryIsHeld /\ LinkIsKept /\ Accounted
      /\ thread \in [Containers -> ThreadState]
      /\ t \in ThreadState /\ t.task \in Task
  BY DEF Bookkeeping, TypeInv, TypeOK, ThreadState
<1>b. Grows /\ (hist'.found = hist.found \/ \E d \in Containers : StoreEntry(d))
  BY <1>a, EverythingGrows DEF Next
<1> USE <1>a
\* the thread goes on with its task, and no entry changes
<1>c. ASSUME NEW state \in ThreadState, thread' = [thread EXCEPT ![c] = state],
             t.phase \in Working, state.phase \in Working \ {"start"}, state.task = t.task,
             hist'.found = hist.found, UNCHANGED <<in_queue, entries, currently_extracted>>
      PROVE  Accounted'
  <2>1. SameEntries
    BY <1>c DEF SameEntries
  <2>2. \A fw \in Firmware : RootInThread(fw) => RootInThread(fw)'
    BY <1>c, RootKept
  <2>3. state.phase \in Working /\ in_queue' = in_queue
    BY <1>c
  <2>4. \A fw \in Firmware, f \in Files :
            /\ Queued(fw, f)' = Queued(fw, f)
            /\ InThread(fw, f)' = InThread(fw, f)
            /\ ToQueue(fw, f)' = ToQueue(fw, f)
            /\ \A p \in Files : TaskCarries(fw, p, f)' <=> TaskCarries(fw, p, f)
    BY <1>c, <2>3, PlacesKept
  <2> QED BY <1>b, <1>c, <2>1, <2>2, <2>4, AccountKept
<1>d. ASSUME NEW phase \in Phases, Goto(c, phase), t.phase \in Working,
             phase \in Working \ {"start"},
             hist'.found = hist.found, UNCHANGED <<in_queue, entries, currently_extracted>>
      PROVE  Accounted'
  <2> DEFINE state == [t EXCEPT !.phase = phase]
  <2>1. thread' = [thread EXCEPT ![c] = state]
    BY <1>d DEF Goto
  <2>2. state \in ThreadState /\ state.phase = phase /\ state.task = t.task
    BY DEF ThreadState
  <2> HIDE DEF state
  <2> QED BY <1>c, <1>d, <2>1, <2>2
\* the thread ends with an exception, which the history records
<1>e. ASSUME Crash(c), t.phase \in Working,
             hist'.found = hist.found, UNCHANGED <<in_queue, entries, currently_extracted>>
      PROVE  Accounted'
  <2>1. <<t.task.root, t.task.uid>> \in hist'.crashed
    BY <1>e DEF Crash, TypeInv, TypeOK, History
  <2>2. ASSUME NEW fw \in entries \ hist.cancelled, NEW f \in Files,
               \/ c \in InThread(fw, f) \cup ToQueue(fw, f)
               \/ /\ f = fw /\ t.phase \in Working \ {"start"}
                  /\ t.task = FirmwareTask(fw)
        PROVE  <<fw, f>> \in hist'.crashed \/ stop_condition' = 1
    <3>1. c \notin ToQueue(fw, f)
      BY <1>e DEF ToQueue, Working
    <3>2. fw = t.task.root /\ f = t.task.uid
      BY <2>2, <3>1 DEF InThread, IsChild, FirmwareTask
    <3> QED BY <2>1, <3>2
  <2>3. Finish(c)
    BY <1>e DEF Crash
  <2> QED BY <1>b, <1>e, <2>2, <2>3, AccountEnd
\* the thread ends because its firmware has no entry any more
<1>f. ASSUME Finish(c), t.phase \in Working, t.task.root \notin entries,
             hist'.found = hist.found, UNCHANGED <<in_queue, entries, currently_extracted>>
      PROVE  Accounted'
  <2>1. ASSUME NEW fw \in entries \ hist.cancelled, NEW f \in Files,
               \/ c \in InThread(fw, f) \cup ToQueue(fw, f)
               \/ /\ f = fw /\ t.phase \in Working \ {"start"}
                  /\ t.task = FirmwareTask(fw)
        PROVE  <<fw, f>> \in hist'.crashed \/ stop_condition' = 1
    BY <1>f, <2>1 DEF InThread, IsChild, ToQueue, FirmwareTask
  <2> QED BY <1>b, <1>f, <2>1, AccountEnd
<1> USE DEF coreVars, switchVars
<1>1. CASE InitCurrentlyUnpacked(c)
  <2>1. hist'.found = hist.found
    BY <1>1 DEF InitCurrentlyUnpacked
  <2> QED BY <1>1, <1>b, <2>1, AccountInit
<1>2. CASE CheckCancelled(c)
  BY <1>2, <1>d, <1>f DEF CheckCancelled, Working, Phases
<1>3. CASE Unpack(c)
  <2> DEFINE state == [t EXCEPT !.out = Extracted(t.task), !.phase = "exists"]
  <2>1. thread' = [thread EXCEPT ![c] = state]
    BY <1>3 DEF Unpack
  <2>2. Extracted(t.task) \in SUBSET Files
    BY TaskFacts, ConstantsAssumption DEF Extracted
  <2>3. state \in ThreadState /\ state.phase = "exists" /\ state.task = t.task
    BY <2>2 DEF ThreadState, Phases
  <2> HIDE DEF state
  <2> QED BY <1>3, <1>c, <2>1, <2>3 DEF Unpack, Working
<1>4. CASE UnpackError(c)
  BY <1>4, <1>d DEF UnpackError, Working, Phases
<1>5. CASE UnpackCrash(c)
  BY <1>5, <1>e DEF UnpackCrash, Crash, Working, TypeInv, TypeOK, History
<1>6. CASE AddObjectExists(c)
  BY <1>6, <1>d DEF AddObjectExists, Working, Phases
<1>7. CASE AddObject(c)
  BY <1>7, <1>d DEF AddObject, Working, Phases
<1>8. CASE AddObjectFails(c)
  <2> DEFINE state == [t EXCEPT !.out = {}, !.phase = "get"]
  <2>1. thread' = [thread EXCEPT ![c] = state]
    BY <1>8 DEF AddObjectFails
  <2>2. state \in ThreadState /\ state.phase = "get" /\ state.task = t.task
    BY DEF ThreadState, Phases
  <2>3. hist'.found = hist.found
    BY <1>8 DEF AddObjectFails, TypeInv, TypeOK, History
  <2> HIDE DEF state
  <2> QED BY <1>8, <1>c, <2>1, <2>2, <2>3 DEF AddObjectFails, Working
<1>9. CASE PostUnpack(c)
  <2>1. hist'.found = hist.found
    BY <1>9 DEF PostUnpack, TypeInv, TypeOK, History
  <2> QED BY <1>9, <1>d, <2>1 DEF PostUnpack, Working, Phases
<1>10. CASE GetEntry(c)
  <2>1. CASE t.task.root \in entries
    <3> DEFINE state == [t EXCEPT !.copy = currently_extracted[t.task.root],
                                  !.phase = "store"]
    <3>1. thread' = [thread EXCEPT ![c] = state]
      BY <1>10, <2>1 DEF GetEntry
    <3>2. currently_extracted[t.task.root] \in Entry
      BY TaskFacts DEF TypeInv, TypeOK
    <3>3. state \in ThreadState /\ state.phase = "store" /\ state.task = t.task
      BY <3>2 DEF ThreadState, Phases
    <3> HIDE DEF state
    <3> QED BY <1>10, <1>c, <3>1, <3>3 DEF GetEntry, Working
  <2>2. CASE t.task.root \notin entries
    BY <1>10, <1>f, <2>2 DEF GetEntry, Working
  <2> QED BY <2>1, <2>2
<1>11. CASE StoreEntry(c)
  BY <1>11, <1>b, AccountStore
<1>12. CASE StoreEntryFails(c)
  <2>1. Crash(c) /\ t.phase \in Working /\ UNCHANGED <<in_queue, entries, currently_extracted>>
    BY <1>12 DEF StoreEntryFails, Working
  <2>2. hist'.found = hist.found
    BY <2>1 DEF Crash, TypeInv, TypeOK, History
  <2> QED BY <1>e, <2>1, <2>2
<1>13. ASSUME NEW f \in Files, ScheduleFile(c, f) PROVE Accounted'
  <2>1. hist'.found = hist.found
    BY <1>13 DEF ScheduleFile
  <2> QED BY <1>13, <1>b, <2>1, AccountSchedule
<1>14. CASE ScheduleStopped(c)
  <2>1. ASSUME NEW fw \in entries \ hist.cancelled, NEW f \in Files
        PROVE  <<fw, f>> \in hist'.crashed \/ stop_condition' = 1
    BY <1>14 DEF ScheduleStopped
  <2>2. Finish(c) /\ hist'.found = hist.found
        /\ UNCHANGED <<in_queue, entries, currently_extracted>>
    BY <1>14 DEF ScheduleStopped
  <2> QED BY <1>b, <2>1, <2>2, AccountEnd
<1> QED BY <1>1, <1>2, <1>3, <1>4, <1>5, <1>6, <1>7, <1>8, <1>9, <1>10, <1>11,
          <1>12, <1>13, <1>14 DEF WorkThread

\* the steps of the other processes and of the loop keep the accounts
LEMMA EnvironmentAccount ==
    ASSUME Bookkeeping, TypeInv',
           \/ \E fw \in Firmware : AddTask(fw) \/ CancelCheck(fw) \/ CancelPop(fw)
           \/ \E limitReached \in {0, 1} : WorkLoadMonitor(limitReached)
           \/ Shutdown
           \/ \E c \in Containers :
                ContainerDies(c) \/ ExtractionLoop(c) \/ CheckPending(c)
    PROVE  Accounted'
<1>a. TypeInv /\ ContainersFree /\ Accounted
  BY DEF Bookkeeping
<1>b. Grows
  BY <1>a, EverythingGrows DEF Next
<1>c. SameEntries
  BY <1>a, EnvironmentEntries DEF SameEntries
<1>d. thread' = thread => \A fw \in Firmware : RootInThread(fw) => RootInThread(fw)'
  BY DEF RootInThread
<1>e. ASSUME UNCHANGED <<in_queue, thread>>, hist'.found = hist.found PROVE Accounted'
  <2>1. \A fw \in Firmware, f \in Files :
            /\ Queued(fw, f)' = Queued(fw, f)
            /\ InThread(fw, f)' = InThread(fw, f)
            /\ ToQueue(fw, f)' = ToQueue(fw, f)
            /\ \A p \in Files : TaskCarries(fw, p, f)' <=> TaskCarries(fw, p, f)
    BY <1>e, PlacesUnchanged
  <2> QED BY <1>a, <1>b, <1>c, <1>d, <1>e, <2>1, AccountKept
<1> USE DEF coreVars
<1>1. ASSUME NEW fw \in Firmware, AddTask(fw) PROVE Accounted'
  <2>1. \A g \in Firmware, f \in Files :
            /\ Queued(g, f)' = Queued(g, f)
            /\ InThread(g, f)' = InThread(g, f)
            /\ ToQueue(g, f)' = ToQueue(g, f)
            /\ \A p \in Files : TaskCarries(g, p, f)' <=> TaskCarries(g, p, f)
    BY <1>1, <1>a, PlacesAdd
  <2>2. thread' = thread /\ hist'.found = hist.found
    BY <1>1 DEF AddTask
  <2> QED BY <1>a, <1>b, <1>c, <1>d, <2>1, <2>2, AccountKept
<1>2. ASSUME NEW fw \in Firmware, CancelCheck(fw) \/ CancelPop(fw) PROVE Accounted'
  <2>1. UNCHANGED <<in_queue, thread>>
    BY <1>2 DEF CancelCheck, CancelPop
  <2>2. hist'.found = hist.found
    BY <1>2, <1>a DEF CancelCheck, CancelPop, TypeInv, TypeOK, History
  <2> QED BY <1>e, <2>1, <2>2
<1>3. ASSUME NEW limitReached \in {0, 1}, WorkLoadMonitor(limitReached) PROVE Accounted'
  BY <1>3, <1>e DEF WorkLoadMonitor
<1>4. ASSUME Shutdown PROVE Accounted'
  BY <1>4, <1>e DEF Shutdown
<1>5. ASSUME NEW c \in Containers, ContainerDies(c) \/ CheckPending(c) PROVE Accounted'
  BY <1>5, <1>e DEF ContainerDies, CheckPending
<1>6. ASSUME NEW c \in Containers, ExtractionLoop(c) PROVE Accounted'
  BY <1>6, <1>a, <1>b, AccountLoop
<1> QED BY <1>1, <1>2, <1>3, <1>4, <1>5, <1>6

\* nothing is queued, found or extracted at the start
LEMMA InitBookkeeping == Init => Bookkeeping
<1> SUFFICES ASSUME Init PROVE Bookkeeping
  OBVIOUS
<1>1. TypeInv /\ EntryIsHeld
  BY InitType, InitEntries
<1>2. ContainersFree
  BY DEF Init, ContainersFree, Finished
<1>3. \A c \in Containers : thread[c].phase = "finished"
  BY DEF Init, Finished
<1>4. LinkIsKept
  BY <1>3 DEF LinkIsKept, LinkOfThread, Working
<1>5. \A fw \in Firmware, f \in Files :
          Queued(fw, f) = {} /\ InThread(fw, f) = {} /\ ToQueue(fw, f) = {}
  <2>1. Len(in_queue) = 0
    BY DEF Init
  <2> QED BY <1>3, <2>1 DEF Queued, InThread, ToQueue, Working
<1>6. Accounted
  <2>1. \A fw \in Firmware, f \in Files : ~HasTask(fw, f)
    BY <1>5 DEF HasTask
  <2>2. entries = {} /\ hist.found = {}
    BY DEF Init
  <2> QED BY <1>5, <2>1, <2>2
          DEF Accounted, Tracked, Single, RootIsKnown, RemainingHasTask, LinkHasCarrier
<1> QED BY <1>1, <1>2, <1>4, <1>6 DEF Bookkeeping

\* every step preserves the bookkeeping
LEMMA NextBookkeeping == Bookkeeping /\ [Next]_vars => Bookkeeping'
<1> SUFFICES ASSUME Bookkeeping, [Next]_vars PROVE Bookkeeping'
  OBVIOUS
<1>a. TypeInv' /\ ContainersFree' /\ EntryIsHeld' /\ LinkIsKept'
  BY NextType, NextContainers, NextEntries, NextLinks DEF Bookkeeping
<1>1. CASE Next
  <2>1. Accounted'
    BY <1>1, <1>a, WorkThreadAccount, EnvironmentAccount DEF Next
  <2> QED BY <1>a, <2>1 DEF Bookkeeping
<1>2. CASE UNCHANGED vars
  <2>1. UNCHANGED <<in_queue, thread, entries, currently_extracted, hist, db, stop_condition>>
    BY <1>2 DEF vars
  <2>2. \A fw \in Firmware, f \in Files :
            /\ Queued(fw, f)' = Queued(fw, f)
            /\ InThread(fw, f)' = InThread(fw, f)
            /\ ToQueue(fw, f)' = ToQueue(fw, f)
            /\ \A p \in Files : TaskCarries(fw, p, f)' <=> TaskCarries(fw, p, f)
    BY <2>1, PlacesUnchanged
  <2>3. Grows /\ SameEntries /\ hist'.found = hist.found
    BY <2>1 DEF Grows, SameEntries
  <2>4. \A fw \in Firmware : RootInThread(fw) => RootInThread(fw)'
    BY <2>1 DEF RootInThread
  <2>5. Accounted'
    BY <1>a, <2>2, <2>3, <2>4, AccountKept DEF Bookkeeping
  <2> QED BY <1>a, <2>5 DEF Bookkeeping
<1> QED BY <1>1, <1>2

\* the bookkeeping holds in every reachable state
LEMMA BookkeepingInvariant == Spec => []Bookkeeping
BY InitBookkeeping, NextBookkeeping, PTL DEF Spec

\* Whatever crashes, fails, is cancelled, restarted or stopped, and however the
\* threads interleave: an entry waits only for files that have a task, and no
\* inclusion that the unpacker found is forgotten.
THEOREM NothingStranded == Spec => []NothingIsStranded
<1>1. Bookkeeping => NothingIsStranded
  <2> SUFFICES ASSUME Bookkeeping PROVE NothingIsStranded
    OBVIOUS
  <2>1. RemainingHasTask
    BY DEF Bookkeeping, Accounted
  <2>2. LinksNotForgotten
    BY DEF Bookkeeping, Accounted, LinkHasCarrier, LinksNotForgotten
  <2> QED BY <2>1, <2>2 DEF NothingIsStranded
<1> QED BY <1>1, BookkeepingInvariant, PTL

\* "Unpacking of firmware ... completed" is true: when the entry is dropped, each
\* inclusion that was found is in the database or add_object rejected it.
THEOREM CompletionIsTrue == Spec => []CompletedIsStored
<1>1. Bookkeeping => CompletedIsStored
  BY DEF Bookkeeping, Accounted, LinkHasCarrier, CompletedIsStored
<1> QED BY <1>1, BookkeepingInvariant, PTL
-----------------------------------------------------------------------------
(* Once per upload.  Each upload is one task of the Firmware, and only     *)
(* such a task creates an entry.  So what is still to come is counted with *)
(* what was submitted already: for the firmware itself its tasks that have *)
(* not been submitted, for a file in it the tasks of the firmware that may *)
(* still create an entry, and the current entry if the file has not been   *)
(* submitted under it.                                                     *)
BeforePost == {"start", "unpack", "exists", "insert", "update", "post"}
RootQueued(fw) == {i \in 1 .. Len(in_queue) : in_queue[i] = FirmwareTask(fw)}
RootAtStart(fw) ==
    {c \in Containers : thread[c].phase = "start" /\ thread[c].task = FirmwareTask(fw)}
RootBeforePost(fw) ==
    {c \in Containers : thread[c].phase \in BeforePost /\ thread[c].task = FirmwareTask(fw)}
Uploads(fw) == MaxSubmissions - budget.submissions[fw]

Pending(fw, f) ==
    \/ Queued(fw, f) # {} \/ ToQueue(fw, f) # {}
    \/ \E c \in InThread(fw, f) : thread[c].phase \in BeforePost

MayBePosted(fw, f) ==
    /\ fw \in entries
    /\ \/ f \notin currently_extracted[fw].remaining \cup currently_extracted[fw].done
       \/ Pending(fw, f)

RootToCome(fw) == Cardinality(RootQueued(fw)) + Cardinality(RootBeforePost(fw))
EntriesToCome(fw) == Cardinality(RootQueued(fw)) + Cardinality(RootAtStart(fw))

Counted ==
    \A fw \in Firmware \ hist.cancelled :
        /\ RootToCome(fw) + hist.posts[fw][fw] <= Uploads(fw)
        /\ \A f \in Files \ {fw} :
              /\ EntriesToCome(fw) + hist.posts[fw][f] <= Uploads(fw)
              /\ MayBePosted(fw, f) =>
                    EntriesToCome(fw) + hist.posts[fw][f] < Uploads(fw)

\* the numbers that are compared are numbers
CountNumbers ==
    \A fw \in Firmware :
        /\ IsFiniteSet(RootQueued(fw)) /\ Cardinality(RootQueued(fw)) \in Nat
        /\ IsFiniteSet(RootAtStart(fw)) /\ Cardinality(RootAtStart(fw)) \in Nat
        /\ IsFiniteSet(RootBeforePost(fw)) /\ Cardinality(RootBeforePost(fw)) \in Nat
        /\ RootToCome(fw) \in Nat /\ EntriesToCome(fw) \in Nat
        /\ Uploads(fw) \in Int
        /\ \A f \in Files : hist.posts[fw][f] \in Nat

\* they are: the queue and the pool of containers are finite
LEMMA CountType == TypeInv => CountNumbers
<1> SUFFICES ASSUME TypeInv, NEW fw \in Firmware
             PROVE  /\ IsFiniteSet(RootQueued(fw)) /\ Cardinality(RootQueued(fw)) \in Nat
                    /\ IsFiniteSet(RootAtStart(fw)) /\ Cardinality(RootAtStart(fw)) \in Nat
                    /\ IsFiniteSet(RootBeforePost(fw))
                    /\ Cardinality(RootBeforePost(fw)) \in Nat
                    /\ RootToCome(fw) \in Nat /\ EntriesToCome(fw) \in Nat
                    /\ Uploads(fw) \in Int
                    /\ \A f \in Files : hist.posts[fw][f] \in Nat
  BY DEF CountNumbers
<1>1. IsFiniteSet(RootQueued(fw))
  <2>1. Len(in_queue) \in Nat
    BY DEF TypeInv, TypeOK
  <2>2. IsFiniteSet(1 .. Len(in_queue))
    BY <2>1, FS_Interval
  <2> QED BY <2>2, FS_Subset DEF RootQueued
<1>2. IsFiniteSet(RootAtStart(fw)) /\ IsFiniteSet(RootBeforePost(fw))
  <2>1. RootAtStart(fw) \in SUBSET Containers /\ RootBeforePost(fw) \in SUBSET Containers
    BY DEF RootAtStart, RootBeforePost
  <2> QED BY <2>1, FS_Subset, ConstantsAssumption
<1>3. /\ Cardinality(RootQueued(fw)) \in Nat
      /\ Cardinality(RootAtStart(fw)) \in Nat
      /\ Cardinality(RootBeforePost(fw)) \in Nat
  BY <1>1, <1>2, FS_CardinalityType
<1>4. Uploads(fw) \in Int
  BY ConstantsAssumption DEF Uploads, TypeInv, TypeOK, Budget
<1>5. \A f \in Files : hist.posts[fw][f] \in Nat
  BY DEF TypeInv, TypeOK, History
<1> QED BY <1>1, <1>2, <1>3, <1>4, <1>5 DEF RootToCome, EntriesToCome

\* a step after which no more is to come than before
LEMMA CountKept ==
    ASSUME TypeInv, TypeInv', Counted,
           hist.cancelled \subseteq hist'.cancelled,
           hist'.posts = hist.posts, budget'.submissions = budget.submissions,
           \A fw \in Firmware : /\ RootToCome(fw)' <= RootToCome(fw)
                                /\ EntriesToCome(fw)' <= EntriesToCome(fw),
           \A fw \in Firmware \ hist'.cancelled, f \in Files :
              MayBePosted(fw, f)' => MayBePosted(fw, f)
    PROVE  Counted'
<1> SUFFICES ASSUME NEW fw \in Firmware \ hist'.cancelled
             PROVE  /\ RootToCome(fw)' + hist.posts[fw][fw] <= Uploads(fw)'
                    /\ \A f \in Files \ {fw} :
                          /\ EntriesToCome(fw)' + hist.posts[fw][f] <= Uploads(fw)'
                          /\ MayBePosted(fw, f)' =>
                                EntriesToCome(fw)' + hist.posts[fw][f] < Uploads(fw)'
  BY DEF Counted
<1>1. Uploads(fw)' = Uploads(fw)
  BY DEF Uploads
<1>2. /\ RootToCome(fw) \in Nat /\ EntriesToCome(fw) \in Nat /\ Uploads(fw) \in Int
      /\ RootToCome(fw)' \in Nat /\ EntriesToCome(fw)' \in Nat
      /\ \A f \in Files : hist.posts[fw][f] \in Nat
  <2>1. TypeInv' => CountNumbers'
    BY CountType, PTL
  <2> QED BY <2>1, CountType DEF CountNumbers
<1>3. /\ RootToCome(fw) + hist.posts[fw][fw] <= Uploads(fw)
      /\ \A f \in Files \ {fw} :
            /\ EntriesToCome(fw) + hist.posts[fw][f] <= Uploads(fw)
            /\ MayBePosted(fw, f) => EntriesToCome(fw) + hist.posts[fw][f] < Uploads(fw)
  BY DEF Counted
<1>4. fw \in Files
  BY ConstantsAssumption
<1> QED BY <1>1, <1>2, <1>3, <1>4

\* the counts do not grow if the queue is the same and the one thread that changes
\* is not put back to an earlier phase
LEMMA CountThread ==
    ASSUME TypeInv, NEW c \in Containers, in_queue' = in_queue,
           \A d \in Containers \ {c} : thread'[d] = thread[d],
           thread'[c].phase \in BeforePost =>
              thread[c].phase \in BeforePost /\ thread'[c].task = thread[c].task,
           ~thread'[c].phase = "start"
    PROVE  \A fw \in Firmware : /\ RootToCome(fw)' <= RootToCome(fw)
                                /\ EntriesToCome(fw)' <= EntriesToCome(fw)
<1> SUFFICES ASSUME NEW fw \in Firmware
             PROVE  /\ RootToCome(fw)' <= RootToCome(fw)
                    /\ EntriesToCome(fw)' <= EntriesToCome(fw)
  OBVIOUS
<1>1. RootQueued(fw)' = RootQueued(fw)
  BY DEF RootQueued
<1>2. RootAtStart(fw)' \subseteq RootAtStart(fw)
  BY DEF RootAtStart
<1>3. RootBeforePost(fw)' \subseteq RootBeforePost(fw)
  BY DEF RootBeforePost
<1>4. /\ IsFiniteSet(RootAtStart(fw)) /\ IsFiniteSet(RootBeforePost(fw))
      /\ Cardinality(RootQueued(fw)) \in Nat
      /\ Cardinality(RootAtStart(fw)) \in Nat /\ Cardinality(RootBeforePost(fw)) \in Nat
  BY CountType DEF CountNumbers
<1>5. /\ Cardinality(RootAtStart(fw)') <= Cardinality(RootAtStart(fw))
      /\ Cardinality(RootBeforePost(fw)') <= Cardinality(RootBeforePost(fw))
      /\ Cardinality(RootAtStart(fw)') \in Nat
      /\ Cardinality(RootBeforePost(fw)') \in Nat
  BY <1>2, <1>3, <1>4, FS_Subset, FS_CardinalityType
<1> QED BY <1>1, <1>4, <1>5 DEF RootToCome, EntriesToCome

\* nothing may be submitted that could not be before: the tasks stay or end, and the
\* entries that count stay
LEMMA MayKept ==
    ASSUME SameEntries,
           \A fw \in Firmware, f \in Files : /\ Queued(fw, f)' \subseteq Queued(fw, f)
                                             /\ ToQueue(fw, f)' \subseteq ToQueue(fw, f)
                                             /\ InThread(fw, f)' \subseteq InThread(fw, f),
           \A d \in Containers : thread'[d].phase \in BeforePost => thread[d].phase \in BeforePost
    PROVE  \A fw \in Firmware \ hist'.cancelled, f \in Files :
              MayBePosted(fw, f)' => MayBePosted(fw, f)
<1> SUFFICES ASSUME NEW fw \in Firmware \ hist'.cancelled, NEW f \in Files,
                    MayBePosted(fw, f)'
             PROVE  MayBePosted(fw, f)
  OBVIOUS
<1>1. InThread(fw, f) \subseteq Containers
  BY DEF InThread
<1>2. Pending(fw, f)' => Pending(fw, f)
  <2>1. /\ Queued(fw, f)' \subseteq Queued(fw, f)
        /\ ToQueue(fw, f)' \subseteq ToQueue(fw, f)
        /\ InThread(fw, f)' \subseteq InThread(fw, f)
    OBVIOUS
  <2> QED BY <1>1, <2>1 DEF Pending
<1>3. /\ fw \in entries' <=> fw \in entries
      /\ currently_extracted'[fw] = currently_extracted[fw]
  BY DEF SameEntries
<1> QED BY <1>2, <1>3 DEF MayBePosted

\* in_queue.get moves the first task of the queue to a thread that was free
LEMMA CountLoop ==
    ASSUME TypeInv, TypeInv', ContainersFree, Counted, Grows,
           NEW c \in Containers, ExtractionLoop(c)
    PROVE  Counted'
<1>a. /\ \A d \in Containers \ {c} : thread'[d] = thread[d]
      /\ thread[c].phase = "finished"
      /\ thread'[c] = Thread("start", Head(in_queue))
      /\ in_queue # <<>> /\ in_queue \in Seq(Task)
      /\ in_queue' = Tail(in_queue)
      /\ UNCHANGED <<entries, currently_extracted, hist, budget>>
  BY DEF ExtractionLoop, TypeInv, TypeOK, ContainersFree
<1>b. thread'[c].phase = "start" /\ thread'[c].task = in_queue[1]
  BY <1>a DEF Thread
<1>c. /\ Len(in_queue) \in Nat /\ 1 \in 1 .. Len(in_queue)
      /\ Len(in_queue') = Len(in_queue) - 1
      /\ \A i \in 1 .. Len(in_queue') : in_queue'[i] = in_queue[i + 1]
  BY <1>a, HeadTailProperties
<1>d. CountNumbers /\ CountNumbers'
  <2>1. TypeInv' => CountNumbers'
    BY CountType, PTL
  <2> QED BY <2>1, CountType
<1>1. ASSUME NEW fw \in Firmware
      PROVE  RootToCome(fw)' <= RootToCome(fw) /\ EntriesToCome(fw)' <= EntriesToCome(fw)
  <2> DEFINE S == RootQueued(fw)
             T == RootQueued(fw)'
             shift == [i \in T |-> i + 1]
  <2>a. /\ IsFiniteSet(S) /\ Cardinality(S) \in Nat
        /\ IsFiniteSet(RootAtStart(fw)) /\ Cardinality(RootAtStart(fw)) \in Nat
        /\ IsFiniteSet(RootBeforePost(fw)) /\ Cardinality(RootBeforePost(fw)) \in Nat
        /\ IsFiniteSet(T) /\ Cardinality(T) \in Nat
    BY <1>d DEF CountNumbers
  <2>1. \A i \in T : i \in Nat /\ i + 1 \in S \ {1}
    BY <1>c DEF RootQueued
  <2>2. 1 \in S <=> in_queue[1] = FirmwareTask(fw)
    BY <1>c DEF RootQueued
  <2>3. Cardinality(T) <= Cardinality(S \ {1})
    <3>1. IsFiniteSet(S \ {1})
      BY <2>a, FS_RemoveElement
    <3>2. shift \in Injection(T, S \ {1})
      BY <2>1 DEF Injection, IsInjective
    <3> HIDE DEF S, T, shift
    <3> QED BY <3>1, <3>2, FS_Injection
  <2>4. /\ Cardinality(S \ {1}) = IF 1 \in S THEN Cardinality(S) - 1 ELSE Cardinality(S)
        /\ Cardinality(RootAtStart(fw) \cup {c}) <= Cardinality(RootAtStart(fw)) + 1
        /\ Cardinality(RootBeforePost(fw) \cup {c}) <= Cardinality(RootBeforePost(fw)) + 1
    <3>1. Cardinality(S \ {1}) = IF 1 \in S THEN Cardinality(S) - 1 ELSE Cardinality(S)
      BY <2>a, FS_RemoveElement
    <3>2. ASSUME NEW U, IsFiniteSet(U), Cardinality(U) \in Nat
          PROVE  Cardinality(U \cup {c}) <= Cardinality(U) + 1
      <4>1. Cardinality(U \cup {c}) = IF c \in U THEN Cardinality(U) ELSE Cardinality(U) + 1
        BY <3>2, FS_AddElement
      <4> QED BY <3>2, <4>1
    <3> QED BY <2>a, <3>1, <3>2
  <2>5. CASE 1 \in S
    <3>1. /\ RootAtStart(fw)' = RootAtStart(fw) \cup {c}
          /\ RootBeforePost(fw)' = RootBeforePost(fw) \cup {c}
      <4>1. thread'[c].task = FirmwareTask(fw)
        BY <1>b, <2>2, <2>5
      <4> QED BY <1>a, <1>b, <4>1 DEF RootAtStart, RootBeforePost, BeforePost
    <3>2. /\ Cardinality(RootAtStart(fw)') \in Nat
          /\ Cardinality(RootBeforePost(fw)') \in Nat
      BY <1>d DEF CountNumbers
    <3>3. /\ Cardinality(T) <= Cardinality(S) - 1
          /\ Cardinality(RootAtStart(fw)') <= Cardinality(RootAtStart(fw)) + 1
          /\ Cardinality(RootBeforePost(fw)') <= Cardinality(RootBeforePost(fw)) + 1
      BY <2>3, <2>4, <2>5, <3>1
    <3> HIDE DEF S, T
    <3>4. /\ Cardinality(T) + Cardinality(RootAtStart(fw)')
                <= Cardinality(S) + Cardinality(RootAtStart(fw))
          /\ Cardinality(T) + Cardinality(RootBeforePost(fw)')
                <= Cardinality(S) + Cardinality(RootBeforePost(fw))
      BY <2>a, <3>2, <3>3
    <3> QED BY <3>4 DEF RootToCome, EntriesToCome, S, T
  <2>6. CASE 1 \notin S
    <3>1. /\ RootAtStart(fw)' = RootAtStart(fw)
          /\ RootBeforePost(fw)' = RootBeforePost(fw)
      <4>1. ~thread'[c].task = FirmwareTask(fw)
        BY <1>b, <2>2, <2>6
      <4>2. ~thread[c].phase \in BeforePost /\ ~thread[c].phase = "start"
        BY <1>a DEF BeforePost
      <4> QED BY <1>a, <4>1, <4>2 DEF RootAtStart, RootBeforePost
    <3> HIDE DEF S, T
    <3>2. Cardinality(T) <= Cardinality(S)
      BY <2>3, <2>4, <2>6
    <3>3. /\ Cardinality(T) + Cardinality(RootAtStart(fw))
                <= Cardinality(S) + Cardinality(RootAtStart(fw))
          /\ Cardinality(T) + Cardinality(RootBeforePost(fw))
                <= Cardinality(S) + Cardinality(RootBeforePost(fw))
      BY <2>a, <3>2
    <3> QED BY <3>1, <3>3 DEF RootToCome, EntriesToCome, S, T
  <2> QED BY <2>5, <2>6
<1>2. ASSUME NEW fw \in Firmware, NEW f \in Files, MayBePosted(fw, f)'
      PROVE  MayBePosted(fw, f)
  <2>1. /\ \A i \in Queued(fw, f)' : i + 1 \in Queued(fw, f)
        /\ InThread(fw, f)' = InThread(fw, f) \cup
              (IF 1 \in Queued(fw, f) THEN {c} ELSE {})
        /\ ToQueue(fw, f)' = ToQueue(fw, f)
    BY PlacesLoop
  <2>2. Queued(fw, f)' # {} => Queued(fw, f) # {}
    BY <2>1
  <2>3. InThread(fw, f) \subseteq Containers /\ c \notin InThread(fw, f)
    BY <1>a DEF InThread, Working
  <2>4. Pending(fw, f)' => Pending(fw, f)
    BY <1>a, <2>1, <2>2, <2>3 DEF Pending
  <2> QED BY <1>2, <1>a, <2>4 DEF MayBePosted
<1> QED BY <1>1, <1>2, <1>a, CountKept

\* _schedule_extracted_files: the file that is queued had not been submitted
LEMMA CountSchedule ==
    ASSUME TypeInv, TypeInv', Counted, NEW c \in Containers, NEW g \in Files,
           ScheduleFile(c, g)
    PROVE  Counted'
<1> PICK root \in Firmware : root = thread[c].task.root
  BY TaskFacts DEF TypeInv, TypeOK, ThreadState
<1>a. /\ \A d \in Containers \ {c} : thread'[d] = thread[d]
      /\ ~thread[c].phase \in BeforePost
      /\ ~thread'[c].phase \in BeforePost
      /\ UNCHANGED <<entries, currently_extracted, hist, budget>>
  <2>1. /\ \A d \in Containers \ {c} : thread'[d] = thread[d]
        /\ UNCHANGED <<entries, currently_extracted, hist, budget>>
        /\ thread[c].phase = "schedule"
    BY DEF ScheduleFile, TypeInv, TypeOK
  <2>2. thread'[c].phase \in {"schedule", "finished"}
    BY DEF ScheduleFile, TypeInv, TypeOK, ThreadState, Finished
  <2> QED BY <2>1, <2>2 DEF BeforePost
<1>b. CountNumbers
  BY CountType
<1>1. ASSUME NEW fw \in Firmware
      PROVE  RootToCome(fw)' = RootToCome(fw) /\ EntriesToCome(fw)' = EntriesToCome(fw)
  <2>1. RootAtStart(fw)' = RootAtStart(fw) /\ RootBeforePost(fw)' = RootBeforePost(fw)
    BY <1>a DEF RootAtStart, RootBeforePost, BeforePost
  <2>2. RootQueued(fw)' = RootQueued(fw)
    <3>1. ChildTask(thread[c].task, g) \in Task
      BY TaskFacts DEF TypeInv, TypeOK, FilesBelowLimit, Task, ThreadState, ScheduleFile
    <3>2. /\ Len(in_queue') = Len(in_queue) + 1 /\ Len(in_queue) \in Nat
          /\ \A i \in 1 .. Len(in_queue) : in_queue'[i] = in_queue[i]
          /\ in_queue'[Len(in_queue) + 1] = ChildTask(thread[c].task, g)
      BY <3>1, AppendProperties DEF ScheduleFile, TypeInv, TypeOK
    <3>3. ChildTask(thread[c].task, g) # FirmwareTask(fw)
      BY DEF ChildTask, FirmwareTask
    <3> QED BY <3>2, <3>3 DEF RootQueued
  <2> QED BY <2>1, <2>2 DEF RootToCome, EntriesToCome
<1>2. \A fw \in Firmware : /\ RootToCome(fw)' <= RootToCome(fw)
                           /\ EntriesToCome(fw)' <= EntriesToCome(fw)
  BY <1>1, <1>b DEF CountNumbers
<1>3. ASSUME NEW fw \in Firmware, NEW f \in Files, MayBePosted(fw, f)'
      PROVE  MayBePosted(fw, f)
  <2>a. /\ Queued(fw, f)' = Queued(fw, f) \cup
              (IF fw = root /\ f = g THEN {Len(in_queue) + 1} ELSE {})
        /\ InThread(fw, f)' = InThread(fw, f)
        /\ ToQueue(fw, f)' = ToQueue(fw, f) \ (IF fw = root /\ f = g THEN {c} ELSE {})
        /\ c \in ToQueue(root, g)
    BY PlacesSchedule
  <2>1. /\ fw = root /\ f = g => c \in ToQueue(fw, f)
        /\ ~(fw = root /\ f = g) => Queued(fw, f)' = Queued(fw, f)
        /\ InThread(fw, f)' = InThread(fw, f)
        /\ ToQueue(fw, f)' \subseteq ToQueue(fw, f)
    BY <2>a
  <2>2. InThread(fw, f) \subseteq Containers
    BY DEF InThread
  <2>3. Pending(fw, f)' => Pending(fw, f)
    BY <1>a, <2>1, <2>2 DEF Pending
  <2> QED BY <1>3, <1>a, <2>3 DEF MayBePosted
<1> QED BY <1>2, <1>3, <1>a, CountKept

\* the end of the update: what is scheduled had not been started, what is done is
\* not started again under this entry
LEMMA CountStore ==
    ASSUME Bookkeeping, TypeInv', Accounted', Counted, Grows, NEW c \in Containers,
           StoreEntry(c)
    PROVE  Counted'
<1>a. /\ TypeInv /\ EntryIsHeld /\ Accounted
      /\ thread[c].task \in Task /\ thread[c].phase = "store"
      /\ thread[c].copy \in Entry
      /\ currently_extracted \in [Firmware -> Entry]
      /\ hist'.cancelled = hist.cancelled
      /\ hist'.posts = hist.posts /\ budget' = budget /\ in_queue' = in_queue
      /\ \A d \in Containers \ {c} : thread'[d] = thread[d]
  BY DEF Bookkeeping, TypeInv, TypeOK, ThreadState, StoreEntry, History
<1>b. ~thread[c].phase \in BeforePost /\ ~thread'[c].phase \in BeforePost
  <2>1. thread'[c].phase \in {"schedule", "finished"}
    BY <1>a DEF StoreEntry, Finished, Thread, TypeInv, TypeOK
  <2> QED BY <1>a, <2>1 DEF BeforePost
<1> PICK root \in Firmware : root = thread[c].task.root
  BY <1>a, TaskFacts
<1> PICK uid \in Files : uid = thread[c].task.uid
  BY <1>a, TaskFacts
<1> PICK entry \in Entry : entry = thread[c].copy
  BY <1>a
<1> PICK out : out = thread[c].out
  OBVIOUS
<1> DEFINE schedule == NotStarted(entry, out, uid)
           new == Updated(entry, out, uid)
<1>c. root \notin hist.cancelled => root \in entries /\ entry = currently_extracted[root]
  BY <1>a DEF EntryIsHeld
<1>d. /\ new.remaining = (entry.remaining \cup schedule) \ {uid}
      /\ new.done = entry.done \cup {uid}
      /\ schedule \cap (entry.remaining \cup entry.done) = {}
  BY DEF Updated, NotStarted
<1>e. /\ root \in entries' => currently_extracted'[root] = new
      /\ \A fw \in Firmware \ {root} :
            /\ fw \in entries' <=> fw \in entries
            /\ currently_extracted'[fw] = currently_extracted[fw]
  BY <1>a DEF StoreEntry
<1>f. \A fw \in Firmware, f \in Files :
          /\ Queued(fw, f)' = Queued(fw, f)
          /\ InThread(fw, f)' = InThread(fw, f) \ {c}
          /\ c \in ToQueue(fw, f)' <=> fw = root /\ f \in schedule
          /\ ToQueue(fw, f)' \ {c} = ToQueue(fw, f)
  BY <1>a, PlacesStore
<1> HIDE DEF schedule, new
<1>1. \A fw \in Firmware : /\ RootToCome(fw)' <= RootToCome(fw)
                           /\ EntriesToCome(fw)' <= EntriesToCome(fw)
  <2>1. ~thread'[c].phase = "start"
    BY <1>b DEF BeforePost
  <2> QED BY <1>a, <1>b, <2>1, CountThread
<1>2. ASSUME NEW fw \in Firmware \ hist.cancelled, NEW f \in Files, MayBePosted(fw, f)'
      PROVE  MayBePosted(fw, f)
  <2>a. InThread(fw, f) \subseteq Containers
    BY DEF InThread
  <2>1. Pending(fw, f)' => Pending(fw, f) \/ (fw = root /\ f \in schedule)
    BY <1>a, <1>f, <2>a DEF Pending
  <2>2. CASE fw # root
    BY <1>2, <1>e, <2>1, <2>2 DEF MayBePosted
  <2>3. CASE fw = root
    <3>1. /\ root \in entries /\ entry = currently_extracted[root]
          /\ root \in entries' /\ currently_extracted'[root] = new
      BY <1>2, <1>c, <1>e, <2>3 DEF MayBePosted
    <3>2. CASE f \notin new.remaining \cup new.done
      BY <1>d, <2>3, <3>1, <3>2 DEF MayBePosted
    <3>3. CASE f \in schedule
      BY <1>d, <2>3, <3>1, <3>3 DEF MayBePosted
    <3>4. CASE Pending(fw, f)
      BY <2>3, <3>1, <3>4 DEF MayBePosted
    <3> QED BY <1>2, <2>1, <2>3, <3>1, <3>2, <3>3, <3>4 DEF MayBePosted
  <2> QED BY <2>2, <2>3
<1>3. \A fw \in Firmware \ hist'.cancelled, f \in Files :
          MayBePosted(fw, f)' => MayBePosted(fw, f)
  BY <1>2, <1>a
<1> QED BY <1>1, <1>3, <1>a, CountKept

\* _init_currently_unpacked: a task of the firmware that might create an entry is
\* used up, whether it creates one or not
LEMMA CountInit ==
    ASSUME TypeInv, TypeInv', Counted, NEW c \in Containers, InitCurrentlyUnpacked(c)
    PROVE  Counted'
<1> PICK fw0 \in Firmware : fw0 = thread[c].task.uid /\ thread[c].task = FirmwareTask(fw0)
  BY TaskFacts DEF TypeInv, TypeOK, ThreadState, InitCurrentlyUnpacked
<1>a. /\ thread[c].phase = "start" /\ thread[c].phase \in BeforePost
      /\ thread'[c].phase = "unpack" /\ thread'[c].phase \in BeforePost
      /\ thread'[c].task = thread[c].task
      /\ \A d \in Containers \ {c} : thread'[d] = thread[d]
      /\ UNCHANGED <<in_queue, hist, budget>>
      /\ currently_extracted \in [Firmware -> Entry]
      /\ \A fw \in Firmware \ {fw0} :
            /\ fw \in entries' <=> fw \in entries
            /\ currently_extracted'[fw] = currently_extracted[fw]
  BY DEF InitCurrentlyUnpacked, Goto, TypeInv, TypeOK, ThreadState, BeforePost
<1>b. CountNumbers
  BY CountType
<1>c. CountNumbers'
  <2>1. TypeInv' => CountNumbers'
    BY CountType, PTL
  <2> QED BY <2>1
<1>1. ASSUME NEW fw \in Firmware
      PROVE  /\ RootToCome(fw)' = RootToCome(fw)
             /\ fw # fw0 => EntriesToCome(fw)' = EntriesToCome(fw)
             /\ fw = fw0 => EntriesToCome(fw)' = EntriesToCome(fw) - 1
  <2>1. RootQueued(fw)' = RootQueued(fw)
    BY <1>a DEF RootQueued
  <2>2. RootBeforePost(fw)' = RootBeforePost(fw)
    BY <1>a DEF RootBeforePost
  <2>3. CASE fw # fw0
    <3>1. thread[c].task # FirmwareTask(fw)
      BY <2>3 DEF FirmwareTask
    <3>2. RootAtStart(fw)' = RootAtStart(fw)
      BY <1>a, <3>1 DEF RootAtStart
    <3> QED BY <2>1, <2>2, <2>3, <3>2 DEF RootToCome, EntriesToCome
  <2>4. CASE fw = fw0
    <3>1. RootAtStart(fw)' = RootAtStart(fw) \ {c} /\ c \in RootAtStart(fw)
      BY <1>a, <2>4 DEF RootAtStart
    <3>2. /\ IsFiniteSet(RootAtStart(fw)) /\ Cardinality(RootAtStart(fw)) \in Nat
          /\ Cardinality(RootQueued(fw)) \in Nat
      BY <1>b DEF CountNumbers
    <3>3. Cardinality(RootAtStart(fw) \ {c}) = Cardinality(RootAtStart(fw)) - 1
      BY <3>1, <3>2, FS_RemoveElement
    <3>4. RootToCome(fw)' = RootToCome(fw)
      BY <2>1, <2>2 DEF RootToCome
    <3>5. EntriesToCome(fw)' = Cardinality(RootQueued(fw)) + Cardinality(RootAtStart(fw) \ {c})
      BY <2>1, <3>1 DEF EntriesToCome
    <3>6. EntriesToCome(fw)' = EntriesToCome(fw) - 1
      BY <3>2, <3>3, <3>5 DEF EntriesToCome
    <3> QED BY <2>4, <3>4, <3>6
  <2> QED BY <2>3, <2>4
<1>2. ASSUME NEW fw \in Firmware \ {fw0}, NEW f \in Files, MayBePosted(fw, f)'
      PROVE  MayBePosted(fw, f)
  <2>1. /\ InThread(fw, f) \subseteq Containers
        /\ Queued(fw, f)' = Queued(fw, f)
    BY <1>a DEF InThread, Queued
  <2>2. InThread(fw, f)' = InThread(fw, f)
    BY <1>a DEF InThread, Working
  <2>3. ToQueue(fw, f)' = ToQueue(fw, f)
    BY <1>a DEF ToQueue
  <2>4. Pending(fw, f)' => Pending(fw, f)
    BY <1>a, <2>1, <2>2, <2>3 DEF Pending
  <2> QED BY <1>2, <1>a, <2>4 DEF MayBePosted
<1>3. ASSUME NEW fw \in Firmware \ hist.cancelled
      PROVE  /\ RootToCome(fw)' + hist.posts[fw][fw] <= Uploads(fw)
             /\ \A f \in Files \ {fw} :
                   /\ EntriesToCome(fw)' + hist.posts[fw][f] <= Uploads(fw)
                   /\ MayBePosted(fw, f)' =>
                         EntriesToCome(fw)' + hist.posts[fw][f] < Uploads(fw)
  <2>1. /\ RootToCome(fw) + hist.posts[fw][fw] <= Uploads(fw)
        /\ \A f \in Files \ {fw} :
              /\ EntriesToCome(fw) + hist.posts[fw][f] <= Uploads(fw)
              /\ MayBePosted(fw, f) => EntriesToCome(fw) + hist.posts[fw][f] < Uploads(fw)
    BY DEF Counted
  <2>2. /\ EntriesToCome(fw) \in Nat /\ Uploads(fw) \in Int
        /\ \A f \in Files : hist.posts[fw][f] \in Nat
    BY <1>b DEF CountNumbers
  <2>3. CASE fw = fw0
    <3>1. RootToCome(fw)' = RootToCome(fw) /\ EntriesToCome(fw)' = EntriesToCome(fw) - 1
      BY <1>1, <2>3
    <3>2. \A f \in Files \ {fw} : EntriesToCome(fw)' + hist.posts[fw][f] < Uploads(fw)
      BY <2>1, <2>2, <3>1
    <3>3. \A f \in Files \ {fw} : EntriesToCome(fw)' + hist.posts[fw][f] <= Uploads(fw)
      BY <2>1, <2>2, <3>1
    <3> QED BY <2>1, <3>1, <3>2, <3>3
  <2>4. CASE fw # fw0
    BY <1>1, <1>2, <2>1, <2>2, <2>4
  <2> QED BY <2>3, <2>4
<1>4. \A fw \in Firmware : Uploads(fw)' = Uploads(fw)
  BY <1>a DEF Uploads
<1> QED BY <1>3, <1>4, <1>a DEF Counted

\* post_unpack: what was still to come is submitted
LEMMA CountPost ==
    ASSUME Bookkeeping, TypeInv', Counted, NEW c \in Containers, PostUnpack(c)
    PROVE  Counted'
<1>a. /\ TypeInv /\ Accounted
      /\ thread[c] \in ThreadState /\ thread[c].task \in Task
      /\ thread[c].phase = "post" /\ thread[c].phase \in Working
      /\ thread[c].phase \in BeforePost
      /\ thread'[c].phase = "get" /\ ~thread'[c].phase \in BeforePost
      /\ ~thread'[c].phase = "start"
      /\ thread'[c].task = thread[c].task
      /\ \A d \in Containers \ {c} : thread'[d] = thread[d]
      /\ UNCHANGED <<in_queue, entries, currently_extracted, budget>>
      /\ hist'.cancelled = hist.cancelled
  <2>1. /\ TypeInv /\ Accounted /\ thread \in [Containers -> ThreadState]
        /\ thread[c] \in ThreadState /\ thread[c].task \in Task /\ hist \in History
    BY DEF Bookkeeping, TypeInv, TypeOK, ThreadState
  <2>2. /\ thread[c].phase = "post"
        /\ thread' = [thread EXCEPT ![c].phase = "get"]
        /\ UNCHANGED <<in_queue, entries, currently_extracted, budget>>
    BY DEF PostUnpack, Goto, coreVars
  <2>3. /\ thread'[c].phase = "get" /\ thread'[c].task = thread[c].task
        /\ \A d \in Containers \ {c} : thread'[d] = thread[d]
    BY <2>1, <2>2 DEF ThreadState
  <2>4. hist'.cancelled = hist.cancelled
    BY <2>1 DEF PostUnpack, History
  <2>5. thread[c].phase \in Working /\ thread[c].phase \in BeforePost
    BY <2>2 DEF Working, BeforePost
  <2>6. ~thread'[c].phase \in BeforePost /\ ~thread'[c].phase = "start"
    BY <2>3 DEF BeforePost
  <2> QED BY <2>1, <2>2, <2>3, <2>4, <2>5, <2>6
<1> PICK root \in Firmware : root = thread[c].task.root
  BY <1>a, TaskFacts
<1> PICK uid \in Files : uid = thread[c].task.uid
  BY <1>a, TaskFacts
<1> PICK kind \in {"firmware", "file"} :
           /\ kind = thread[c].task.kind
           /\ kind = "firmware" => uid = root /\ thread[c].task = FirmwareTask(root)
  BY <1>a, TaskFacts
<1>b. hist'.posts = [hist.posts EXCEPT ![root][uid] = @ + 1]
  BY <1>a DEF PostUnpack, TypeInv, TypeOK, History
<1>c. \A fw \in Firmware, f \in Files :
          hist'.posts[fw][f] = IF fw = root /\ f = uid THEN hist.posts[fw][f] + 1
                               ELSE hist.posts[fw][f]
  <2>1. hist.posts \in [Firmware -> [Files -> Nat]]
    BY <1>a DEF TypeInv, TypeOK, History
  <2>2. hist.posts[root] \in [Files -> Nat]
    BY <2>1
  <2>3. /\ hist'.posts[root] = [hist.posts[root] EXCEPT ![uid] = @ + 1]
        /\ \A fw \in Firmware \ {root} : hist'.posts[fw] = hist.posts[fw]
    BY <1>b, <2>1
  <2> QED BY <2>2, <2>3
<1>d. CountNumbers
  BY <1>a, CountType
<1>e. \A fw \in Firmware, f \in Files :
          /\ Queued(fw, f)' = Queued(fw, f)
          /\ InThread(fw, f)' = InThread(fw, f)
          /\ ToQueue(fw, f)' = ToQueue(fw, f)
  <2> DEFINE state == [thread[c] EXCEPT !.phase = "get"]
  <2>1. thread' = [thread EXCEPT ![c] = state]
    BY DEF PostUnpack, Goto
  <2>2. state \in ThreadState /\ state.task = thread[c].task /\ state.phase \in Working
    BY <1>a DEF ThreadState, Phases, Working
  <2> HIDE DEF state
  <2> QED BY <1>a, <2>1, <2>2, PlacesKept
<1>1. ASSUME NEW fw \in Firmware
      PROVE  /\ EntriesToCome(fw)' = EntriesToCome(fw)
             /\ kind = "firmware" /\ fw = root => RootToCome(fw)' = RootToCome(fw) - 1
             /\ ~(kind = "firmware" /\ fw = root) => RootToCome(fw)' = RootToCome(fw)
  <2>1. RootQueued(fw)' = RootQueued(fw)
    BY <1>a DEF RootQueued
  <2>2. EntriesToCome(fw)' = EntriesToCome(fw)
    <3>1. RootAtStart(fw)' = RootAtStart(fw)
      BY <1>a DEF RootAtStart
    <3> QED BY <2>1, <3>1 DEF EntriesToCome
  <2>3. CASE kind = "firmware" /\ fw = root
    <3>1. RootBeforePost(fw)' = RootBeforePost(fw) \ {c} /\ c \in RootBeforePost(fw)
      BY <1>a, <2>3 DEF RootBeforePost
    <3>2. /\ IsFiniteSet(RootBeforePost(fw)) /\ Cardinality(RootBeforePost(fw)) \in Nat
          /\ Cardinality(RootQueued(fw)) \in Nat
      BY <1>d DEF CountNumbers
    <3>3. Cardinality(RootBeforePost(fw) \ {c}) = Cardinality(RootBeforePost(fw)) - 1
      BY <3>1, <3>2, FS_RemoveElement
    <3>4. RootToCome(fw)' = Cardinality(RootQueued(fw)) + Cardinality(RootBeforePost(fw) \ {c})
      BY <2>1, <3>1 DEF RootToCome
    <3>5. RootToCome(fw)' = RootToCome(fw) - 1
      BY <3>2, <3>3, <3>4 DEF RootToCome
    <3> QED BY <2>2, <2>3, <3>5
  <2>4. CASE ~(kind = "firmware" /\ fw = root)
    <3>1. thread[c].task # FirmwareTask(fw)
      BY <2>4 DEF FirmwareTask
    <3>2. RootBeforePost(fw)' = RootBeforePost(fw)
      BY <1>a, <3>1 DEF RootBeforePost
    <3>3. RootToCome(fw)' = RootToCome(fw)
      BY <2>1, <3>2 DEF RootToCome
    <3> QED BY <2>2, <2>4, <3>3
  <2> QED BY <2>3, <2>4
<1>2. ASSUME NEW fw \in Firmware, NEW f \in Files, MayBePosted(fw, f)'
      PROVE  MayBePosted(fw, f)
  <2>1. InThread(fw, f) \subseteq Containers
    BY DEF InThread
  <2>2. Pending(fw, f)' => Pending(fw, f)
    BY <1>a, <1>e, <2>1 DEF Pending
  <2> QED BY <1>2, <1>a, <2>2 DEF MayBePosted
\* a file in a firmware: it could be submitted, and cannot any more
<1>3. ASSUME kind = "file", root \notin hist.cancelled
      PROVE  uid # root /\ MayBePosted(root, uid) /\ ~MayBePosted(root, uid)'
  <2>1. c \in InThread(root, uid)
    BY <1>3, <1>a DEF InThread, IsChild
  <2>2. HasTask(root, uid)
    BY <2>1 DEF HasTask
  <2>3. /\ root \in entries /\ uid \in currently_extracted[root].remaining
        /\ uid # root
    BY <1>3, <1>a, <2>2 DEF Accounted, Tracked
  <2>4. /\ \A d \in InThread(root, uid) \cup ToQueue(root, uid) : d = c
        /\ Queued(root, uid) = {}
    BY <1>3, <1>a, <2>1 DEF Accounted, Single
  <2>5. c \notin ToQueue(root, uid)
    BY <1>a DEF ToQueue
  <2>6. Pending(root, uid)
    BY <1>a, <2>1 DEF Pending
  <2>7. ~Pending(root, uid)'
    <3>1. /\ Queued(root, uid)' = {} /\ ToQueue(root, uid)' = {}
          /\ \A d \in InThread(root, uid)' : d = c
      BY <1>e, <2>4, <2>5
    <3> QED BY <1>a, <3>1 DEF Pending
  <2> QED BY <1>a, <2>3, <2>6, <2>7 DEF MayBePosted
<1>4. ASSUME NEW fw \in Firmware \ hist.cancelled
      PROVE  /\ RootToCome(fw)' + hist'.posts[fw][fw] <= Uploads(fw)
             /\ \A f \in Files \ {fw} :
                   /\ EntriesToCome(fw)' + hist'.posts[fw][f] <= Uploads(fw)
                   /\ MayBePosted(fw, f)' =>
                         EntriesToCome(fw)' + hist'.posts[fw][f] < Uploads(fw)
  <2>1. /\ RootToCome(fw) + hist.posts[fw][fw] <= Uploads(fw)
        /\ \A f \in Files \ {fw} :
              /\ EntriesToCome(fw) + hist.posts[fw][f] <= Uploads(fw)
              /\ MayBePosted(fw, f) => EntriesToCome(fw) + hist.posts[fw][f] < Uploads(fw)
    BY DEF Counted
  <2>2. /\ EntriesToCome(fw) \in Nat /\ RootToCome(fw) \in Nat /\ Uploads(fw) \in Int
        /\ \A f \in Files : hist.posts[fw][f] \in Nat
        /\ fw \in Files
    BY <1>d, ConstantsAssumption DEF CountNumbers
  <2>3. RootToCome(fw)' + hist'.posts[fw][fw] <= Uploads(fw)
    <3>1. CASE kind = "firmware" /\ fw = root
      <4>1. /\ RootToCome(fw)' = RootToCome(fw) - 1
            /\ hist'.posts[fw][fw] = hist.posts[fw][fw] + 1
        BY <1>1, <1>c, <2>2, <3>1
      <4> QED BY <2>1, <2>2, <4>1
    <3>2. CASE ~(kind = "firmware" /\ fw = root)
      <4>1. RootToCome(fw)' = RootToCome(fw)
        BY <1>1, <3>2
      <4>2. hist'.posts[fw][fw] = hist.posts[fw][fw]
        BY <1>3, <1>c, <2>2, <3>2
      <4> QED BY <2>1, <4>1, <4>2
    <3> QED BY <3>1, <3>2
  <2>4. ASSUME NEW f \in Files \ {fw}
        PROVE  /\ EntriesToCome(fw)' + hist'.posts[fw][f] <= Uploads(fw)
               /\ MayBePosted(fw, f)' =>
                     EntriesToCome(fw)' + hist'.posts[fw][f] < Uploads(fw)
    <3>a. EntriesToCome(fw)' = EntriesToCome(fw) /\ hist.posts[fw][f] \in Nat
      BY <1>1, <2>2
    <3>1. CASE fw = root /\ f = uid
      <4>1. kind = "file"
        BY <3>1
      <4>2. MayBePosted(fw, f) /\ ~MayBePosted(fw, f)'
        BY <1>3, <3>1, <4>1
      <4>3. hist'.posts[fw][f] = hist.posts[fw][f] + 1
        BY <1>c, <3>1
      <4>4. EntriesToCome(fw) + hist.posts[fw][f] < Uploads(fw)
        BY <2>1, <4>2
      <4>5. EntriesToCome(fw)' + hist'.posts[fw][f] <= Uploads(fw)
        BY <2>2, <3>a, <4>3, <4>4
      <4> QED BY <4>2, <4>5
    <3>2. CASE ~(fw = root /\ f = uid)
      <4>1. hist'.posts[fw][f] = hist.posts[fw][f]
        BY <1>c, <3>2
      <4> QED BY <1>2, <2>1, <3>a, <4>1
    <3> QED BY <3>1, <3>2
  <2> QED BY <2>3, <2>4
<1>5. \A fw \in Firmware : Uploads(fw)' = Uploads(fw)
  BY <1>a DEF Uploads
<1> QED BY <1>4, <1>5, <1>a DEF Counted

\* add_task: one more upload, and one more task to come
LEMMA CountAdd ==
    ASSUME TypeInv, TypeInv', Counted, NEW g \in Firmware, AddTask(g)
    PROVE  Counted'
<1>a. /\ Len(in_queue') = Len(in_queue) + 1 /\ Len(in_queue) \in Nat
      /\ \A i \in 1 .. Len(in_queue) : in_queue'[i] = in_queue[i]
      /\ in_queue'[Len(in_queue) + 1] = FirmwareTask(g)
      /\ UNCHANGED <<thread, entries, currently_extracted, hist>>
  BY AppendProperties, TaskFacts DEF AddTask, TypeInv, TypeOK
<1>b. CountNumbers
  BY CountType
<1>1. ASSUME NEW fw \in Firmware
      PROVE  /\ fw # g => /\ RootToCome(fw)' = RootToCome(fw)
                          /\ EntriesToCome(fw)' = EntriesToCome(fw)
                          /\ Uploads(fw)' = Uploads(fw)
             /\ fw = g => /\ RootToCome(fw)' = RootToCome(fw) + 1
                          /\ EntriesToCome(fw)' = EntriesToCome(fw) + 1
                          /\ Uploads(fw)' = Uploads(fw) + 1
  <2>1. RootAtStart(fw)' = RootAtStart(fw) /\ RootBeforePost(fw)' = RootBeforePost(fw)
    BY <1>a DEF RootAtStart, RootBeforePost
  <2>2. CASE fw # g
    <3>1. FirmwareTask(g) # FirmwareTask(fw)
      BY <2>2 DEF FirmwareTask
    <3>2. RootQueued(fw)' = RootQueued(fw)
      BY <1>a, <3>1 DEF RootQueued
    <3>3. budget'.submissions[fw] = budget.submissions[fw]
      BY <2>2 DEF AddTask, TypeInv, TypeOK, Budget
    <3> QED BY <2>1, <2>2, <3>2, <3>3 DEF RootToCome, EntriesToCome, Uploads
  <2>3. CASE fw = g
    <3>1. /\ RootQueued(fw)' = RootQueued(fw) \cup {Len(in_queue) + 1}
          /\ Len(in_queue) + 1 \notin RootQueued(fw)
      BY <1>a, <2>3 DEF RootQueued
    <3>2. /\ IsFiniteSet(RootQueued(fw)) /\ Cardinality(RootQueued(fw)) \in Nat
          /\ Cardinality(RootAtStart(fw)) \in Nat /\ Cardinality(RootBeforePost(fw)) \in Nat
      BY <1>b DEF CountNumbers
    <3>3. Cardinality(RootQueued(fw)') = Cardinality(RootQueued(fw)) + 1
      BY <3>1, <3>2, FS_AddElement
    <3>4. /\ budget'.submissions[fw] = budget.submissions[fw] - 1
          /\ budget.submissions[fw] \in Nat
      BY <2>3 DEF AddTask, TypeInv, TypeOK, Budget
    <3>5. Uploads(fw)' = Uploads(fw) + 1
      BY <3>4, ConstantsAssumption DEF Uploads
    <3>6. RootToCome(fw)' = RootToCome(fw) + 1
      BY <2>1, <3>2, <3>3 DEF RootToCome
    <3>7. EntriesToCome(fw)' = EntriesToCome(fw) + 1
      BY <2>1, <3>2, <3>3 DEF EntriesToCome
    <3> QED BY <2>3, <3>5, <3>6, <3>7
  <2> QED BY <2>2, <2>3
<1>2. \A fw \in Firmware, f \in Files : MayBePosted(fw, f)' => MayBePosted(fw, f)
  <2> SUFFICES ASSUME NEW fw \in Firmware, NEW f \in Files, MayBePosted(fw, f)'
               PROVE  MayBePosted(fw, f)
    OBVIOUS
  <2>1. /\ Queued(fw, f)' = Queued(fw, f)
        /\ InThread(fw, f)' = InThread(fw, f)
        /\ ToQueue(fw, f)' = ToQueue(fw, f)
    BY PlacesAdd
  <2>2. Pending(fw, f)' => Pending(fw, f)
    BY <1>a, <2>1 DEF Pending
  <2> QED BY <1>a, <2>2 DEF MayBePosted
<1>3. ASSUME NEW fw \in Firmware \ hist.cancelled
      PROVE  /\ RootToCome(fw)' + hist.posts[fw][fw] <= Uploads(fw)'
             /\ \A f \in Files \ {fw} :
                   /\ EntriesToCome(fw)' + hist.posts[fw][f] <= Uploads(fw)'
                   /\ MayBePosted(fw, f)' =>
                         EntriesToCome(fw)' + hist.posts[fw][f] < Uploads(fw)'
  <2>1. /\ RootToCome(fw) + hist.posts[fw][fw] <= Uploads(fw)
        /\ \A f \in Files \ {fw} :
              /\ EntriesToCome(fw) + hist.posts[fw][f] <= Uploads(fw)
              /\ MayBePosted(fw, f) => EntriesToCome(fw) + hist.posts[fw][f] < Uploads(fw)
    BY DEF Counted
  <2>2. /\ EntriesToCome(fw) \in Nat /\ RootToCome(fw) \in Nat /\ Uploads(fw) \in Int
        /\ \A f \in Files : hist.posts[fw][f] \in Nat
        /\ fw \in Files
    BY <1>b, ConstantsAssumption DEF CountNumbers
  <2>3. CASE fw # g
    BY <1>1, <1>2, <2>1, <2>2, <2>3
  <2>4. CASE fw = g
    <3>1. /\ RootToCome(fw)' = RootToCome(fw) + 1
          /\ EntriesToCome(fw)' = EntriesToCome(fw) + 1
          /\ Uploads(fw)' = Uploads(fw) + 1
      BY <1>1, <2>4
    <3>2. RootToCome(fw)' + hist.posts[fw][fw] <= Uploads(fw)'
      BY <2>1, <2>2, <3>1
    <3>3. \A f \in Files \ {fw} : EntriesToCome(fw)' + hist.posts[fw][f] <= Uploads(fw)'
      BY <2>1, <2>2, <3>1
    <3>4. \A f \in Files \ {fw} : MayBePosted(fw, f)' =>
              EntriesToCome(fw)' + hist.posts[fw][f] < Uploads(fw)'
      BY <1>2, <2>1, <2>2, <3>1
    <3> QED BY <3>2, <3>3, <3>4
  <2> QED BY <2>3, <2>4
<1> QED BY <1>3, <1>a DEF Counted

\* a work thread keeps the count
LEMMA WorkThreadCount ==
    ASSUME Bookkeeping, Bookkeeping', Counted, NEW c \in Containers, WorkThread(c)
    PROVE  Counted'
<1> DEFINE t == thread[c]
<1>a. /\ TypeInv /\ TypeInv' /\ Accounted'
      /\ thread \in [Containers -> ThreadState]
      /\ t \in ThreadState /\ t.task \in Task
      /\ hist \in History /\ budget \in Budget
  BY DEF Bookkeeping, TypeInv, TypeOK, ThreadState
<1>b. Grows
  BY <1>a, EverythingGrows DEF Next
<1> USE <1>a
\* the thread goes on with its task, and nothing is submitted
<1>c. ASSUME NEW state \in ThreadState, thread' = [thread EXCEPT ![c] = state],
             t.phase \in Working, state.phase \in Working \ {"start"}, state.task = t.task,
             state.phase \in BeforePost => t.phase \in BeforePost,
             hist'.posts = hist.posts, budget'.submissions = budget.submissions,
             UNCHANGED <<in_queue, entries, currently_extracted>>
      PROVE  Counted'
  <2>1. SameEntries
    BY <1>c DEF SameEntries
  <2>2. state.phase \in Working /\ in_queue' = in_queue /\ ~state.phase = "start"
    BY <1>c
  <2>3. thread'[c] = state /\ \A d \in Containers \ {c} : thread'[d] = thread[d]
    BY <1>c
  <2>4. \A fw \in Firmware, f \in Files :
            /\ Queued(fw, f)' = Queued(fw, f)
            /\ InThread(fw, f)' = InThread(fw, f)
            /\ ToQueue(fw, f)' = ToQueue(fw, f)
    BY <1>c, <2>2, PlacesKept
  <2>5. \A fw \in Firmware : /\ RootToCome(fw)' <= RootToCome(fw)
                             /\ EntriesToCome(fw)' <= EntriesToCome(fw)
    BY <1>c, <2>2, <2>3, CountThread
  <2>6. \A d \in Containers : thread'[d].phase \in BeforePost => thread[d].phase \in BeforePost
    BY <1>c, <2>3
  <2>7. \A fw \in Firmware \ hist'.cancelled, f \in Files :
            MayBePosted(fw, f)' => MayBePosted(fw, f)
    BY <2>1, <2>4, <2>6, MayKept
  <2> QED BY <1>b, <1>c, <2>5, <2>7, CountKept DEF Grows
<1>d. ASSUME NEW phase \in Phases, Goto(c, phase), t.phase \in Working,
             phase \in Working \ {"start"}, phase \in BeforePost => t.phase \in BeforePost,
             hist'.posts = hist.posts, budget'.submissions = budget.submissions,
             UNCHANGED <<in_queue, entries, currently_extracted>>
      PROVE  Counted'
  <2> DEFINE state == [t EXCEPT !.phase = phase]
  <2>1. thread' = [thread EXCEPT ![c] = state]
    BY <1>d DEF Goto
  <2>2. state \in ThreadState /\ state.phase = phase /\ state.task = t.task
    BY DEF ThreadState
  <2> HIDE DEF state
  <2> QED BY <1>c, <1>d, <2>1, <2>2
\* the thread ends, and nothing is submitted
<1>e. ASSUME Finish(c), hist'.posts = hist.posts, budget'.submissions = budget.submissions,
             UNCHANGED <<in_queue, entries, currently_extracted>>
      PROVE  Counted'
  <2>1. SameEntries
    BY <1>e DEF SameEntries
  <2>2. /\ thread'[c].phase = "finished" /\ in_queue' = in_queue
        /\ \A d \in Containers \ {c} : thread'[d] = thread[d]
    BY <1>e DEF Finish, Finished
  <2>3. ~thread'[c].phase = "start" /\ ~thread'[c].phase \in BeforePost
    BY <2>2 DEF BeforePost
  <2>4. \A fw \in Firmware, f \in Files :
            /\ Queued(fw, f)' = Queued(fw, f)
            /\ InThread(fw, f)' = InThread(fw, f) \ {c}
            /\ ToQueue(fw, f)' = ToQueue(fw, f) \ {c}
    BY <1>e, <2>2, PlacesEnd
  <2>5. \A fw \in Firmware, f \in Files :
            /\ Queued(fw, f)' \subseteq Queued(fw, f)
            /\ ToQueue(fw, f)' \subseteq ToQueue(fw, f)
            /\ InThread(fw, f)' \subseteq InThread(fw, f)
    BY <2>4
  <2>6. \A fw \in Firmware : /\ RootToCome(fw)' <= RootToCome(fw)
                             /\ EntriesToCome(fw)' <= EntriesToCome(fw)
    BY <2>2, <2>3, CountThread
  <2>7. \A d \in Containers : thread'[d].phase \in BeforePost => thread[d].phase \in BeforePost
    BY <2>2, <2>3
  <2>8. \A fw \in Firmware \ hist'.cancelled, f \in Files :
            MayBePosted(fw, f)' => MayBePosted(fw, f)
    BY <2>1, <2>5, <2>7, MayKept
  <2> QED BY <1>b, <1>e, <2>6, <2>8, CountKept DEF Grows
<1> USE DEF coreVars, switchVars
<1>1. CASE InitCurrentlyUnpacked(c)
  BY <1>1, CountInit
<1>2. CASE CheckCancelled(c)
  BY <1>2, <1>d, <1>e DEF CheckCancelled, Working, BeforePost, Phases
<1>3. CASE Unpack(c)
  <2> DEFINE state == [t EXCEPT !.out = Extracted(t.task), !.phase = "exists"]
  <2>1. thread' = [thread EXCEPT ![c] = state]
    BY <1>3 DEF Unpack
  <2>2. Extracted(t.task) \in SUBSET Files
    BY TaskFacts, ConstantsAssumption DEF Extracted
  <2>3. state \in ThreadState /\ state.phase = "exists" /\ state.task = t.task
    BY <2>2 DEF ThreadState, Phases
  <2> HIDE DEF state
  <2> QED BY <1>3, <1>c, <2>1, <2>3 DEF Unpack, Working, BeforePost
<1>4. CASE UnpackError(c)
  <2>1. budget'.submissions = budget.submissions
    BY <1>4 DEF UnpackError, Budget
  <2> QED BY <1>4, <1>d, <2>1 DEF UnpackError, Working, BeforePost, Phases
<1>5. CASE UnpackCrash(c)
  <2>1. budget'.submissions = budget.submissions /\ hist'.posts = hist.posts
    BY <1>5 DEF UnpackCrash, Crash, Budget, History
  <2> QED BY <1>5, <1>e, <2>1 DEF UnpackCrash, Crash
<1>6. CASE AddObjectExists(c)
  BY <1>6, <1>d DEF AddObjectExists, Working, BeforePost, Phases
<1>7. CASE AddObject(c)
  BY <1>7, <1>d DEF AddObject, Working, BeforePost, Phases
<1>8. CASE AddObjectFails(c)
  <2> DEFINE state == [t EXCEPT !.out = {}, !.phase = "get"]
  <2>1. thread' = [thread EXCEPT ![c] = state]
    BY <1>8 DEF AddObjectFails
  <2>2. state \in ThreadState /\ state.phase = "get" /\ state.task = t.task
    BY DEF ThreadState, Phases
  <2>3. budget'.submissions = budget.submissions /\ hist'.posts = hist.posts
    BY <1>8 DEF AddObjectFails, Budget, History
  <2> HIDE DEF state
  <2> QED BY <1>8, <1>c, <2>1, <2>2, <2>3 DEF AddObjectFails, Working, BeforePost
<1>9. CASE PostUnpack(c)
  BY <1>9, CountPost
<1>10. CASE GetEntry(c)
  <2>1. CASE t.task.root \in entries
    <3> DEFINE state == [t EXCEPT !.copy = currently_extracted[t.task.root],
                                  !.phase = "store"]
    <3>1. thread' = [thread EXCEPT ![c] = state]
      BY <1>10, <2>1 DEF GetEntry
    <3>2. currently_extracted[t.task.root] \in Entry
      BY TaskFacts DEF TypeInv, TypeOK
    <3>3. state \in ThreadState /\ state.phase = "store" /\ state.task = t.task
      BY <3>2 DEF ThreadState, Phases
    <3> HIDE DEF state
    <3> QED BY <1>10, <1>c, <3>1, <3>3 DEF GetEntry, Working, BeforePost
  <2>2. CASE t.task.root \notin entries
    BY <1>10, <1>e, <2>2 DEF GetEntry
  <2> QED BY <2>1, <2>2
<1>11. CASE StoreEntry(c)
  BY <1>11, <1>b, CountStore
<1>12. CASE StoreEntryFails(c)
  <2>1. /\ Crash(c) /\ UNCHANGED <<in_queue, entries, currently_extracted>>
        /\ budget'.submissions = budget.submissions
    BY <1>12 DEF StoreEntryFails
  <2>2. Finish(c) /\ hist'.posts = hist.posts
    BY <2>1 DEF Crash, History
  <2> QED BY <1>e, <2>1, <2>2
<1>13. ASSUME NEW f \in Files, ScheduleFile(c, f) PROVE Counted'
  BY <1>13, CountSchedule
<1>14. CASE ScheduleStopped(c)
  BY <1>14, <1>e DEF ScheduleStopped
<1> QED BY <1>1, <1>2, <1>3, <1>4, <1>5, <1>6, <1>7, <1>8, <1>9, <1>10, <1>11,
          <1>12, <1>13, <1>14 DEF WorkThread

\* the steps of the other processes and of the loop keep the count
LEMMA EnvironmentCount ==
    ASSUME Bookkeeping, Bookkeeping', Counted,
           \/ \E fw \in Firmware : AddTask(fw) \/ CancelCheck(fw) \/ CancelPop(fw)
           \/ \E limitReached \in {0, 1} : WorkLoadMonitor(limitReached)
           \/ Shutdown
           \/ \E c \in Containers :
                ContainerDies(c) \/ ExtractionLoop(c) \/ CheckPending(c)
    PROVE  Counted'
<1>a. /\ TypeInv /\ ContainersFree /\ TypeInv'
      /\ hist \in History /\ budget \in Budget
  BY DEF Bookkeeping, TypeInv, TypeOK
<1>b. Grows
  BY <1>a, EverythingGrows DEF Next
<1>c. SameEntries
  BY <1>a, EnvironmentEntries DEF SameEntries
<1>d. ASSUME UNCHANGED <<in_queue, thread>>, hist'.posts = hist.posts,
             budget'.submissions = budget.submissions
      PROVE  Counted'
  <2>1. \A fw \in Firmware, f \in Files :
            /\ Queued(fw, f)' \subseteq Queued(fw, f)
            /\ ToQueue(fw, f)' \subseteq ToQueue(fw, f)
            /\ InThread(fw, f)' \subseteq InThread(fw, f)
    BY <1>d, PlacesUnchanged
  <2>2. \A fw \in Firmware \ hist'.cancelled, f \in Files :
            MayBePosted(fw, f)' => MayBePosted(fw, f)
    BY <1>c, <1>d, <2>1, MayKept
  <2>3. \A fw \in Firmware : /\ RootToCome(fw)' = RootToCome(fw)
                             /\ EntriesToCome(fw)' = EntriesToCome(fw)
    BY <1>d DEF RootToCome, EntriesToCome, RootQueued, RootBeforePost, RootAtStart
  <2>4. \A fw \in Firmware : RootToCome(fw) \in Nat /\ EntriesToCome(fw) \in Nat
    BY <1>a, CountType DEF CountNumbers
  <2>5. \A fw \in Firmware : /\ RootToCome(fw)' <= RootToCome(fw)
                             /\ EntriesToCome(fw)' <= EntriesToCome(fw)
    BY <2>3, <2>4
  <2> QED BY <1>a, <1>b, <1>d, <2>2, <2>5, CountKept DEF Grows
<1> USE DEF coreVars
<1>1. ASSUME NEW fw \in Firmware, AddTask(fw) PROVE Counted'
  BY <1>1, <1>a, CountAdd
<1>2. ASSUME NEW fw \in Firmware, CancelCheck(fw) PROVE Counted'
  <2>1. budget'.submissions = budget.submissions
    BY <1>2, <1>a DEF CancelCheck, Budget
  <2> QED BY <1>2, <1>d, <2>1 DEF CancelCheck
<1>3. ASSUME NEW fw \in Firmware, CancelPop(fw) PROVE Counted'
  <2>1. UNCHANGED <<in_queue, thread, budget>>
    BY <1>3 DEF CancelPop
  <2>2. hist'.posts = hist.posts
    BY <1>3, <1>a DEF CancelPop, History
  <2> QED BY <1>d, <2>1, <2>2
<1>4. ASSUME NEW limitReached \in {0, 1}, WorkLoadMonitor(limitReached) PROVE Counted'
  BY <1>4, <1>d DEF WorkLoadMonitor
<1>5. ASSUME Shutdown PROVE Counted'
  <2>1. budget'.submissions = budget.submissions
    BY <1>5, <1>a DEF Shutdown, Budget
  <2> QED BY <1>5, <1>d, <2>1 DEF Shutdown
<1>6. ASSUME NEW c \in Containers, ContainerDies(c) \/ CheckPending(c) PROVE Counted'
  <2>1. budget'.submissions = budget.submissions
    BY <1>6, <1>a DEF ContainerDies, CheckPending, Budget
  <2> QED BY <1>6, <1>d, <2>1 DEF ContainerDies, CheckPending
<1>7. ASSUME NEW c \in Containers, ExtractionLoop(c) PROVE Counted'
  BY <1>7, <1>a, <1>b, CountLoop
<1> QED BY <1>1, <1>2, <1>3, <1>4, <1>5, <1>6, <1>7

\* nothing was uploaded and nothing submitted at the start
LEMMA InitCount == Init => Counted
<1> SUFFICES ASSUME Init PROVE Counted
  OBVIOUS
<1>1. Len(in_queue) = 0 /\ \A c \in Containers : thread[c].phase = "finished"
  BY DEF Init, Finished
<1>2. \A fw \in Firmware :
          RootQueued(fw) = {} /\ RootAtStart(fw) = {} /\ RootBeforePost(fw) = {}
  BY <1>1 DEF RootQueued, RootAtStart, RootBeforePost, BeforePost
<1>3. \A fw \in Firmware : RootToCome(fw) = 0 /\ EntriesToCome(fw) = 0
  BY <1>2, FS_EmptySet DEF RootToCome, EntriesToCome
<1>4. \A fw \in Firmware, f \in Files : hist.posts[fw][f] = 0
  BY DEF Init
<1>5. \A fw \in Firmware : Uploads(fw) = 0
  BY ConstantsAssumption DEF Init, Uploads
<1>6. \A fw \in Firmware, f \in Files : ~MayBePosted(fw, f)
  BY DEF Init, MayBePosted
<1> QED BY <1>3, <1>4, <1>5, <1>6, ConstantsAssumption DEF Counted

\* the bookkeeping and the count hold in every reachable state
LEMMA CountInvariant == Spec => [](Bookkeeping /\ Counted)
<1>1. Init => Bookkeeping /\ Counted
  BY InitBookkeeping, InitCount
<1>2. Bookkeeping /\ Counted /\ [Next]_vars => Bookkeeping' /\ Counted'
  <2> SUFFICES ASSUME Bookkeeping, Counted, [Next]_vars PROVE Bookkeeping' /\ Counted'
    OBVIOUS
  <2>1. Bookkeeping'
    BY NextBookkeeping
  <2>2. CASE Next
    BY <2>1, <2>2, WorkThreadCount, EnvironmentCount DEF Next
  <2>3. CASE UNCHANGED vars
    <3>1. \A fw \in Firmware : /\ RootQueued(fw)' = RootQueued(fw)
                               /\ RootAtStart(fw)' = RootAtStart(fw)
                               /\ RootBeforePost(fw)' = RootBeforePost(fw)
                               /\ Uploads(fw)' = Uploads(fw)
      BY <2>3 DEF vars, RootQueued, RootAtStart, RootBeforePost, Uploads
    <3>2. \A fw \in Firmware, f \in Files : MayBePosted(fw, f)' <=> MayBePosted(fw, f)
      BY <2>3 DEF vars, MayBePosted, Pending, Queued, ToQueue, InThread
    <3>3. \A fw \in Firmware : /\ RootToCome(fw)' = RootToCome(fw)
                               /\ EntriesToCome(fw)' = EntriesToCome(fw)
      BY <3>1 DEF RootToCome, EntriesToCome
    <3>4. hist' = hist
      BY <2>3 DEF vars
    <3> QED BY <2>1, <3>1, <3>2, <3>3, <3>4 DEF Counted
  <2> QED BY <2>2, <2>3
<1> QED BY <1>1, <1>2, PTL DEF Spec

\* a set without two different elements has at most one
LEMMA AtMostOne ==
    ASSUME NEW S, \A x, y \in S : x = y
    PROVE  Cardinality(S) \in {0, 1} /\ (S = {} <=> Cardinality(S) = 0)
<1>1. CASE S = {}
  BY <1>1, FS_EmptySet
<1>2. CASE S # {}
  <2> PICK x \in S : TRUE
    BY <1>2
  <2>1. S = {x}
    OBVIOUS
  <2> QED BY <2>1, FS_Singleton
<1> QED BY <1>1, <1>2

\* A file of a firmware is unpacked and submitted to the analysis at most once per
\* upload, by a task that the entry of the firmware accounts for, and what was found
\* in it is stored when the entry is dropped: for any number of containers, uploads,
\* failures and cancels.
THEOREM OncePerUpload == Spec => []UnpackedOnce
<1>1. Bookkeeping /\ Counted => UnpackedOnce
  <2> SUFFICES ASSUME Bookkeeping, Counted PROVE UnpackedOnce
    OBVIOUS
  <2>a. TypeInv /\ Tracked /\ Single /\ LinkHasCarrier
    BY DEF Bookkeeping, Accounted
  <2>1. TasksAreTracked
    BY <2>a DEF Tracked, TasksAreTracked
  <2>2. OneTaskPerFile
    <3> SUFFICES ASSUME NEW fw \in Firmware \ hist.cancelled, NEW f \in Files
                 PROVE  Cardinality(Queued(fw, f)) + Cardinality(InThread(fw, f))
                          + Cardinality(ToQueue(fw, f)) <= 1
      BY DEF OneTaskPerFile
    <3>1. /\ \A i, j \in Queued(fw, f) : i = j
          /\ \A c, d \in InThread(fw, f) \cup ToQueue(fw, f) : c = d
          /\ Queued(fw, f) = {} \/ InThread(fw, f) \cup ToQueue(fw, f) = {}
      BY <2>a DEF Single
    <3>2. InThread(fw, f) = {} \/ ToQueue(fw, f) = {}
      <4> SUFFICES ASSUME NEW c \in InThread(fw, f), NEW d \in ToQueue(fw, f) PROVE FALSE
        OBVIOUS
      <4>1. c = d
        BY <3>1
      <4> QED BY <4>1 DEF InThread, ToQueue, Working
    <3>3. /\ Cardinality(Queued(fw, f)) \in {0, 1}
          /\ Queued(fw, f) = {} <=> Cardinality(Queued(fw, f)) = 0
      BY <3>1, AtMostOne
    <3>4. /\ Cardinality(InThread(fw, f)) \in {0, 1}
          /\ InThread(fw, f) = {} <=> Cardinality(InThread(fw, f)) = 0
      BY <3>1, AtMostOne
    <3>5. /\ Cardinality(ToQueue(fw, f)) \in {0, 1}
          /\ ToQueue(fw, f) = {} <=> Cardinality(ToQueue(fw, f)) = 0
      BY <3>1, AtMostOne
    <3> QED BY <3>1, <3>2, <3>3, <3>4, <3>5
  <2>3. AnalysedOncePerUpload
    <3> SUFFICES ASSUME NEW fw \in Firmware \ hist.cancelled, NEW f \in Files
                 PROVE  hist.posts[fw][f] <= Uploads(fw)
      BY DEF AnalysedOncePerUpload, Uploads
    <3>1. /\ RootToCome(fw) \in Nat /\ EntriesToCome(fw) \in Nat
          /\ Uploads(fw) \in Int /\ hist.posts[fw][f] \in Nat
      BY <2>a, CountType DEF CountNumbers
    <3>2. f = fw => RootToCome(fw) + hist.posts[fw][f] <= Uploads(fw)
      BY DEF Counted
    <3>3. f # fw => EntriesToCome(fw) + hist.posts[fw][f] <= Uploads(fw)
      BY DEF Counted
    <3> QED BY <3>1, <3>2, <3>3
  <2>4. CompletedIsStored
    BY <2>a DEF LinkHasCarrier, CompletedIsStored
  <2>5. TypeOK
    BY <2>a DEF TypeInv
  <2> QED BY <2>1, <2>2, <2>3, <2>4, <2>5 DEF UnpackedOnce
<1> QED BY <1>1, CountInvariant, PTL
=============================================================================
