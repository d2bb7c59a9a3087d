--------------------------- MODULE SupervisionProofs ---------------------------
(***************************************************************************)
(* Proofs about Supervision: the back end stops in order, and a job is lost *)
(* with the shutdown only, whatever the number of jobs and whichever        *)
(* processes hang.                                                         *)
(***************************************************************************)
EXTENDS Supervision, FiniteSetTheorems, TLAPS

(***************************************************************************)
(* The processes and their places                                          *)
(***************************************************************************)

\* The processes that move jobs, by name
LEMMA MoversAre ==
    Movers = {"listener", "extraction", "task_runner", "worker", "collector"}
BY DEF Movers, Takes

\* Where each process takes its jobs
LEMMA TakesAre ==
    /\ Takes["listener"] = "redis" /\ Takes["extraction"] = "in_queue"
    /\ Takes["task_runner"] = "process_queue" /\ Takes["worker"] = "plugin_queue"
    /\ Takes["collector"] = "out_queue"
BY DEF Takes

\* Where each process puts them
LEMMA PutsAre ==
    /\ Puts["listener"] = "in_queue" /\ Puts["extraction"] = "process_queue"
    /\ Puts["task_runner"] = "plugin_queue" /\ Puts["worker"] = "out_queue"
    /\ Puts["collector"] = "database"
BY DEF Puts

\* The managers and who calls them
LEMMA UsersAre ==
    /\ DOMAIN Users = {"intercom", "unpacking", "locks"}
    /\ Users["unpacking"] = {"listener", "extraction"}
    /\ Users["locks"] = {"listener", "extraction", "task_runner"}
BY DEF Users

\* The places where a job can be.
LEMMA PlacesAre ==
    Places = {"redis", "in_queue", "process_queue", "plugin_queue", "out_queue", "database",
              "listener", "extraction", "task_runner", "worker", "collector", "lost"}
BY MoversAre, TakesAre, PutsAre DEF Places

(***************************************************************************)
(* The stages of the shutdown, in order                                    *)
(***************************************************************************)

AfterLocks == {"remaining", "exit", "exited"}
AfterRunners == {"terminate workers", "join workers", "join collectors", "status",
                 "join status", "locks"} \cup AfterLocks
AfterExtraction == {"unpacking manager", "analysis", "join runners"} \cup AfterRunners
AfterListeners == {"comparison", "join comparison", "unpacking", "join extraction"}
                      \cup AfterExtraction

\* The stages of RedisIsKept are those.
LEMMA ListenersJoinedAre == ListenersJoined = AfterListeners
BY DEF ListenersJoined, AfterListeners, AfterExtraction, AfterRunners, AfterLocks

Stopping == {"offline", "intercom", "intercom manager", "join listeners"} \cup AfterListeners
Stages == {"none", "start", "loop", "killed"} \cup Stopping

\* Types of what the proofs look at
StageType ==
    /\ main \in Stages
    /\ run \in BOOLEAN
    /\ loc \in [Jobs -> Places]
    /\ proc \in [Procs -> {"none", "running", "exited"}]
    /\ checked \subseteq Movers
    /\ late \subseteq Movers \X Jobs
    /\ stop \subseteq Procs
    /\ managers \subseteq DOMAIN Users

\* No two jobs are with the same process
OneJobEach ==
    \A j, k \in Jobs : loc[j] = loc[k] /\ loc[j] \in Movers => j = k

\* Nobody is told to stop, and the loop is not left, before the flag is cleared
RunEndsFirst ==
    /\ main \in Stopping => run = FALSE
    /\ stop # {} => run = FALSE

\* Nothing runs before the back end is started
NothingRunsYet ==
    /\ starter = "starting" => main = "none"
    /\ main \in {"none", "start"} => \A p \in Procs : ~Alive(p)

\* What each stage has ended stays ended in the stages behind it
StagesEndProcesses ==
    /\ main \in AfterListeners => \A p \in Listeners : ~Alive(p)
    /\ main \in AfterExtraction => ~Alive("extraction")
    /\ main \in AfterRunners => ~Alive("task_runner")

\* Behind complete_shutdown no process runs
NobodyIsLeft == main \in {"exit", "exited"} => \A p \in Procs : ~Alive(p)

\* A job is only with a process that runs
HoldersRun == \A j \in Jobs : loc[j] \in Movers => Alive(loc[j])

\* A process that may still take a job after its stop condition was set has not done so,
\* or has not put it away yet
LateJobs ==
    /\ \A p \in Movers, j \in Jobs : <<p, j>> \in late => p \in stop
    /\ \A p \in Movers \ {"collector"}, j, k \in Jobs : <<p, j>> \in late /\ <<p, k>> \in late => j = k
    /\ \A p \in Movers \ {"collector"}, j \in Jobs : p \in checked /\ <<p, j>> \in late => loc[j] = p

\* Behind the end no job is on its way
JobsAreDone == main = "exited" => \A j \in Jobs : loc[j] \in {"redis", "database", "lost"}

\* The inductive invariant: ManagersOutliveUsers and NoProcessIsLeft hold of a
\* stage because of what the stages before it have ended
ShutdownInv ==
    /\ StageType
    /\ OneJobEach
    /\ RunEndsFirst
    /\ NothingRunsYet
    /\ StagesEndProcesses
    /\ NobodyIsLeft
    /\ ManagersOutliveUsers

\* What becomes of the jobs, in addition
JobsInv == HoldersRun /\ LateJobs /\ JobsAreDone
-------------------------------------------------------------------------------

\* A process that no mover is runs no job
LEMMA ProcsAre ==
    Procs = {"listener", "extraction", "task_runner", "worker", "collector",
             "single_file_listener", "comparison", "work_load", "status"}
BY MoversAre DEF Procs

\* A new back end is in order.
LEMMA ShutdownInit == Init => ShutdownInv
<1> SUFFICES ASSUME Init PROVE ShutdownInv
  OBVIOUS
<1>1. StageType
  BY PlacesAre DEF Init, StageType, Stages
<1>2. OneJobEach
  BY MoversAre DEF Init, OneJobEach
<1>3. RunEndsFirst /\ NothingRunsYet /\ StagesEndProcesses /\ NobodyIsLeft
      /\ ManagersOutliveUsers
  BY ProcsAre DEF Init, RunEndsFirst, NothingRunsYet, StagesEndProcesses, NobodyIsLeft, ManagersOutliveUsers,
     Alive, Stopping, AfterListeners, AfterExtraction, AfterRunners, AfterLocks, Listeners
<1> QED
  BY <1>1, <1>2, <1>3 DEF ShutdownInv

\* A job moves: nothing but its place changes, and a process takes a job only
\* while it has none.
LEMMA JobStep ==
    ASSUME ShutdownInv, Job PROVE ShutdownInv'
<1> USE DEF ShutdownInv
<1> PICK p \in Movers : Idle(p) \/ \E j \in Jobs : Take(p, j) \/ Put(p, j)
  BY DEF Job
<1>1. UNCHANGED <<starter, main, run, proc, stop, managers>>
  BY DEF outside, Idle, Take, Put
<1>2. Takes[p] \in Places \ Movers /\ Puts[p] \in Places \ Movers /\ p \in Places
  BY MoversAre, TakesAre, PutsAre, PlacesAre
<1>3. StageType'
  <2>1. ASSUME NEW j \in Jobs, Take(p, j) PROVE StageType'
    BY <1>1, <1>2, <2>1 DEF StageType, Take
  <2>2. ASSUME NEW j \in Jobs, Put(p, j) PROVE StageType'
    BY <1>1, <1>2, <2>2 DEF StageType, Put
  <2>3. CASE Idle(p)
    BY <1>1, <2>3 DEF StageType, Idle
  <2> QED
    BY <2>1, <2>2, <2>3
<1>4. OneJobEach'
  <2>1. ASSUME NEW j \in Jobs, Take(p, j) PROVE OneJobEach'
    BY <1>2, <2>1 DEF Take, Holds, OneJobEach, StageType
  <2>2. ASSUME NEW j \in Jobs, Put(p, j) PROVE OneJobEach'
    BY <1>2, <2>2 DEF Put, OneJobEach, StageType
  <2>3. CASE Idle(p)
    BY <2>3 DEF Idle, OneJobEach
  <2> QED
    BY <2>1, <2>2, <2>3
<1>5. (RunEndsFirst /\ NothingRunsYet /\ StagesEndProcesses /\ NobodyIsLeft
       /\ ManagersOutliveUsers)'
  BY <1>1 DEF RunEndsFirst, NothingRunsYet, StagesEndProcesses, NobodyIsLeft,
     ManagersOutliveUsers, Alive
<1> QED
  BY <1>3, <1>4, <1>5

\* Some processes end, of themselves or in a stage that waits for them, and the
\* jobs they have are lost.  No process begins to run.
LEMMA EndStep ==
    ASSUME ShutdownInv, NEW ps \in SUBSET Procs, checked' \subseteq checked, late' = late,
           main' = main \/ (main \in Stopping /\ main' \in Stopping),
           UNCHANGED <<starter, run, stop, managers>>,
           loc' = [j \in Jobs |-> IF loc[j] \in ps THEN "lost" ELSE loc[j]],
           proc' = [p \in Procs |-> IF p \in ps THEN "exited" ELSE proc[p]]
    PROVE  /\ (StageType /\ OneJobEach /\ RunEndsFirst /\ NothingRunsYet)'
           /\ ManagersOutliveUsers'
           /\ \A p \in Procs : Alive(p)' <=> Alive(p) /\ p \notin ps
<1> USE DEF ShutdownInv
<1>1. StageType'
  BY PlacesAre DEF StageType, Stages
<1>2. OneJobEach'
  BY MoversAre DEF OneJobEach, StageType
<1>3. \A p \in Procs : Alive(p)' <=> Alive(p) /\ p \notin ps
  BY DEF Alive, StageType
<1>4. {"listener", "extraction", "task_runner"} \subseteq Procs
  BY ProcsAre
<1>5. RunEndsFirst'
  BY DEF RunEndsFirst
<1>6. main' \in {"none", "start"} <=> main \in {"none", "start"}
  BY DEF Stopping, AfterListeners, AfterExtraction, AfterRunners, AfterLocks
<1>8. NothingRunsYet'
  <2>1. main = "none" => main \notin Stopping
    BY DEF Stopping, AfterListeners, AfterExtraction, AfterRunners, AfterLocks
  <2> QED
    BY <1>3, <1>6, <2>1 DEF NothingRunsYet
<1>7. ManagersOutliveUsers'
  BY <1>3, <1>4, <1>6, UsersAre DEF ManagersOutliveUsers
<1> QED
  BY <1>1, <1>2, <1>3, <1>5, <1>7, <1>8

\* A process leaves its loop.
LEMMA ExitStep ==
    ASSUME ShutdownInv, NEW p \in Procs, Exit(p) PROVE ShutdownInv'
<1>1. /\ (StageType /\ OneJobEach /\ RunEndsFirst /\ NothingRunsYet)'
      /\ ManagersOutliveUsers'
      /\ \A q \in Procs : Alive(q)' => Alive(q)
  <2>1. loc' = [j \in Jobs |-> IF loc[j] \in {p} THEN "lost" ELSE loc[j]]
    BY DEF Exit
  <2>2. proc' = [q \in Procs |-> IF q \in {p} THEN "exited" ELSE proc[q]]
    BY DEF Exit, ShutdownInv, StageType
  <2>3. UNCHANGED <<starter, main, run, stop, managers, late>> /\ checked' \subseteq checked
    BY DEF Exit, outside
  <2> QED
    BY <2>1, <2>2, <2>3, EndStep
<1>2. (StagesEndProcesses /\ NobodyIsLeft)'
  BY <1>1, ProcsAre DEF Exit, ShutdownInv, StagesEndProcesses, NobodyIsLeft, Listeners
<1> QED
  BY <1>1, <1>2 DEF ShutdownInv

\* The starter, the signals and the loop of the main process: no process of the
\* back end changes; the loop is left when the flag is cleared.
LEMMA OutsideStep ==
    ASSUME ShutdownInv, Starter \/ StopStarter \/ Interrupt \/ ShutdownListener \/ Loop
    PROVE  ShutdownInv'
<1> USE DEF ShutdownInv
<1>1. UNCHANGED <<proc, stop, managers, loc, checked, late>>
  BY DEF loops, Starter, StartComponents, SignalBackend, BackendEnded, StopFrontend, StopStarter,
     Interrupt, ShutdownListener, Loop, outside
<1>2. /\ \/ UNCHANGED <<main, run>>
         \/ main' = main /\ run' = FALSE
         \/ main = "none" /\ main' = "start" /\ run' = run
         \/ main' = "killed" /\ run' = run
         \/ main = "loop" /\ run = FALSE /\ main' = "offline" /\ run' = run
      /\ starter' = "starting" => starter = "starting" /\ main' = main
  <2>1. CASE StartComponents
    BY <2>1 DEF StartComponents, NothingRunsYet
  <2>2. CASE SignalBackend \/ StopFrontend \/ StopStarter \/ Interrupt
    BY <2>2 DEF SignalBackend, StopFrontend, StopStarter, Interrupt
  <2>3. CASE BackendEnded
    BY <2>3 DEF BackendEnded
  <2>4. CASE ShutdownListener
    BY <2>4 DEF ShutdownListener
  <2>5. CASE Loop
    BY <2>5 DEF Loop, Goes, outside, NothingRunsYet, StageType
  <2> QED
    BY <2>1, <2>2, <2>3, <2>4, <2>5 DEF Starter
<1>3. StageType' /\ OneJobEach'
  BY <1>1, <1>2 DEF StageType, OneJobEach, Stages, Stopping
<1>4. RunEndsFirst'
  BY <1>1, <1>2 DEF RunEndsFirst, StageType, Stopping, AfterListeners, AfterExtraction,
     AfterRunners, AfterLocks
<1>5. \A p : Alive(p)' <=> Alive(p)
  BY <1>1 DEF Alive
<1>6. NothingRunsYet' /\ NobodyIsLeft'
  BY <1>2, <1>5 DEF NothingRunsYet, NobodyIsLeft
<1>7. StagesEndProcesses'
  BY <1>2, <1>5 DEF StagesEndProcesses, AfterListeners, AfterExtraction, AfterRunners, AfterLocks
<1>8. ManagersOutliveUsers'
  <2>1. \A m \in DOMAIN Users : Users[m] \subseteq Procs
    BY UsersAre, ProcsAre DEF Users
  <2> QED
    BY <1>1, <1>2, <1>5, <2>1 DEF ManagersOutliveUsers, NothingRunsYet
<1> QED
  BY <1>3, <1>4, <1>6, <1>7, <1>8

\* The processes are started, before anybody is told to stop.
LEMMA StartStep ==
    ASSUME ShutdownInv, Start PROVE ShutdownInv'
<1> USE DEF ShutdownInv
<1>1. StageType' /\ OneJobEach' /\ NothingRunsYet'
  BY DEF loops, Start, Goes, outside, StageType, OneJobEach, NothingRunsYet, Stages
<1>2. RunEndsFirst' /\ StagesEndProcesses' /\ NobodyIsLeft'
  BY DEF Start, Goes, RunEndsFirst, StagesEndProcesses, NobodyIsLeft,
     Stopping, AfterListeners, AfterExtraction, AfterRunners, AfterLocks
<1>3. ManagersOutliveUsers'
  BY DEF Start, ManagersOutliveUsers
<1> QED
  BY <1>1, <1>2, <1>3
\* A stage that sets a stop condition or shuts a manager down: no process ends.
LEMMA QuietStage ==
    ASSUME ShutdownInv, main \in Stopping, main' \in Stopping,
           UNCHANGED <<starter, run, proc, loc, late>>, checked' \subseteq Movers,
           stop' \subseteq Procs, managers' \subseteq DOMAIN Users
    PROVE  /\ (StageType /\ OneJobEach /\ RunEndsFirst /\ NothingRunsYet)'
           /\ \A p : Alive(p)' <=> Alive(p)
<1> USE DEF ShutdownInv
<1>1. StageType' /\ OneJobEach'
  BY DEF StageType, OneJobEach, Stages
<1>2. RunEndsFirst'
  BY DEF RunEndsFirst
<1>3. main' \notin {"none", "start"} /\ main # "none"
  BY DEF Stopping, AfterListeners, AfterExtraction, AfterRunners, AfterLocks
<1>4. NothingRunsYet'
  BY <1>3 DEF NothingRunsYet
<1> QED
  BY <1>1, <1>2, <1>4 DEF Alive

\* Three kinds of stages.  What is left to show of each: the processes that the
\* stages behind it count on have ended.
LEMMA SetStopStep ==
    ASSUME ShutdownInv, NEW from \in Stopping, NEW to \in Stopping,
           NEW ps \in SUBSET Procs, SetStop(from, to, ps),
           to \in AfterListeners => from \in AfterListeners,
           to \in AfterExtraction => from \in AfterExtraction,
           to \in AfterRunners => from \in AfterRunners,
           to # "exit", to # "exited"
    PROVE  ShutdownInv'
<1>1. /\ (StageType /\ OneJobEach /\ RunEndsFirst /\ NothingRunsYet)'
      /\ \A p : Alive(p)' <=> Alive(p)
  <2>1. /\ main \in Stopping /\ main' \in Stopping
        /\ UNCHANGED <<starter, run, proc, loc, late>> /\ checked' \subseteq Movers
        /\ stop' \subseteq Procs /\ managers' \subseteq DOMAIN Users
    BY DEF SetStop, Goes, outside, loops, ShutdownInv, StageType
  <2> QED
    BY <2>1, QuietStage
<1>2. StagesEndProcesses' /\ NobodyIsLeft'
  BY <1>1 DEF SetStop, Goes, ShutdownInv, StagesEndProcesses, NobodyIsLeft
<1>3. ManagersOutliveUsers'
  <2>1. main \notin {"none", "start"}
    BY DEF SetStop, Goes, Stopping, AfterListeners, AfterExtraction, AfterRunners, AfterLocks
  <2> QED
    BY <1>1, <2>1 DEF SetStop, ShutdownInv, ManagersOutliveUsers
<1> QED
  BY <1>1, <1>2, <1>3 DEF ShutdownInv

\* A stage that stops processes keeps the invariant if it stops all that the next stages
\* rely on.
LEMMA StopProcessesStep ==
    ASSUME ShutdownInv, NEW from \in Stopping, NEW to \in Stopping,
           NEW ps \in SUBSET Procs, StopProcesses(from, to, ps),
           to \in AfterListeners => from \in AfterListeners \/ Listeners \subseteq ps,
           to \in AfterExtraction => from \in AfterExtraction \/ "extraction" \in ps,
           to \in AfterRunners => from \in AfterRunners \/ "task_runner" \in ps,
           to = "exit" => ps = Procs, to # "exited"
    PROVE  ShutdownInv'
<1> DEFINE es == {p \in ps : Alive(p)}
<1>1. /\ (StageType /\ OneJobEach /\ RunEndsFirst /\ NothingRunsYet)'
      /\ ManagersOutliveUsers'
      /\ \A p \in Procs : Alive(p)' <=> Alive(p) /\ p \notin es
  <2>1. main \in Stopping /\ main' \in Stopping /\ UNCHANGED <<starter, run, stop, managers, late>>
        /\ checked' \subseteq checked
    BY DEF StopProcesses, Stopped, Goes, outside
  <2>2. loc' = [j \in Jobs |-> IF loc[j] \in es THEN "lost" ELSE loc[j]]
    BY DEF StopProcesses, Stopped
  <2>3. proc' = [p \in Procs |-> IF p \in es THEN "exited" ELSE proc[p]]
    BY DEF StopProcesses, Stopped
  <2>4. es \in SUBSET Procs
    OBVIOUS
  <2> HIDE DEF es
  <2> QED
    BY <2>1, <2>2, <2>3, <2>4, EndStep
<1>2. \A p \in Procs : Alive(p)' => Alive(p) /\ p \notin ps
  BY <1>1
<1>3. StagesEndProcesses'
  BY <1>2, ProcsAre DEF StopProcesses, Goes, ShutdownInv, StagesEndProcesses, Listeners
<1>4. NobodyIsLeft'
  BY <1>2 DEF StopProcesses, Goes, NobodyIsLeft
<1> QED
  BY <1>1, <1>3, <1>4 DEF ShutdownInv

\* A stage that shuts a manager down keeps the invariant if nobody alive uses it.
LEMMA ManagerShutdownStep ==
    ASSUME ShutdownInv, NEW from \in Stopping, NEW to \in Stopping,
           NEW m \in DOMAIN Users, ManagerShutdown(from, to, m),
           to \in AfterListeners => from \in AfterListeners,
           to \in AfterExtraction => from \in AfterExtraction,
           to \in AfterRunners => from \in AfterRunners,
           m # "intercom" => \A p \in Users[m] : ~Alive(p),
           to # "exit", to # "exited"
    PROVE  ShutdownInv'
<1>1. /\ (StageType /\ OneJobEach /\ RunEndsFirst /\ NothingRunsYet)'
      /\ \A p : Alive(p)' <=> Alive(p)
  <2>1. /\ main \in Stopping /\ main' \in Stopping
        /\ UNCHANGED <<starter, run, proc, loc, late>> /\ checked' \subseteq Movers
        /\ stop' \subseteq Procs /\ managers' \subseteq DOMAIN Users
    BY DEF ManagerShutdown, Goes, outside, loops, ShutdownInv, StageType
  <2> QED
    BY <2>1, QuietStage
<1>2. StagesEndProcesses' /\ NobodyIsLeft'
  BY <1>1 DEF ManagerShutdown, Goes, ShutdownInv, StagesEndProcesses, NobodyIsLeft
<1>3. ManagersOutliveUsers'
  <2>1. main \notin {"none", "start"}
    BY DEF ManagerShutdown, Goes, Stopping, AfterListeners, AfterExtraction, AfterRunners,
       AfterLocks
  <2> QED
    BY <1>1, <2>1 DEF ManagerShutdown, ShutdownInv, ManagersOutliveUsers
<1> QED
  BY <1>1, <1>2, <1>3 DEF ShutdownInv
\* Every stage of the shutdown keeps the invariant.
LEMMA ShutdownStep ==
    ASSUME ShutdownInv, Shutdown PROVE ShutdownInv'
<1> USE DEF Stopping, AfterListeners, AfterExtraction, AfterRunners, AfterLocks
<1>1. CASE Offline
  <2>1. /\ main \in Stopping /\ main' \in Stopping
        /\ UNCHANGED <<starter, run, proc, loc, late>> /\ checked' \subseteq Movers
        /\ stop' \subseteq Procs /\ managers' \subseteq DOMAIN Users
    BY <1>1 DEF Offline, Goes, outside, loops, ShutdownInv, StageType
  <2>2. /\ (StageType /\ OneJobEach /\ RunEndsFirst /\ NothingRunsYet)'
        /\ \A p : Alive(p)' <=> Alive(p)
    BY <2>1, QuietStage
  <2>3. StagesEndProcesses' /\ NobodyIsLeft' /\ ManagersOutliveUsers'
    BY <1>1, <2>2 DEF Offline, Goes, ShutdownInv, StagesEndProcesses, NobodyIsLeft,
       ManagersOutliveUsers
  <2> QED
    BY <2>2, <2>3 DEF ShutdownInv
<1>2. CASE IntercomShutdown
  <2>1. "intercom" \in DOMAIN Users /\ Listeners \subseteq Procs
    BY UsersAre, ProcsAre DEF Listeners
  <2>2. CASE SetStop("intercom", "intercom manager", Listeners)
    BY <2>1, <2>2, SetStopStep
  <2>3. CASE ManagerShutdown("intercom manager", "join listeners", "intercom")
    BY <2>1, <2>3, ManagerShutdownStep
  <2>4. CASE StopProcesses("join listeners", "comparison", Listeners)
    BY <2>1, <2>4, StopProcessesStep
  <2> QED
    BY <1>2, <2>2, <2>3, <2>4 DEF IntercomShutdown
<1>3. CASE ComparisonShutdown
  <2>1. CASE SetStop("comparison", "join comparison", {"comparison"})
    BY <2>1, SetStopStep, ProcsAre
  <2>2. CASE StopProcesses("join comparison", "unpacking", {})
    <3> DEFINE none == {}
    <3>1. none \in SUBSET Procs /\ StopProcesses("join comparison", "unpacking", none)
      BY <2>2
    <3> HIDE DEF none
    <3> QED
      BY <3>1, StopProcessesStep
  <2> QED
    BY <1>3, <2>1, <2>2 DEF ComparisonShutdown
<1>4. CASE UnpackingShutdown
  <2>1. {"extraction", "work_load"} \subseteq Procs
    BY ProcsAre
  <2>2. CASE SetStop("unpacking", "join extraction", {"extraction", "work_load"})
    BY <2>1, <2>2, SetStopStep
  <2>3. CASE StopProcesses("join extraction", "unpacking manager", {"extraction", "work_load"})
    BY <2>1, <2>3, StopProcessesStep
  <2>4. CASE ManagerShutdown("unpacking manager", "analysis", "unpacking")
    <3>1. \A p \in Users["unpacking"] : ~Alive(p)
      BY <2>4, UsersAre DEF ManagerShutdown, Goes, ShutdownInv, StagesEndProcesses, Listeners
    <3> QED
      BY <2>4, <3>1, UsersAre, ManagerShutdownStep
  <2> QED
    BY <1>4, <2>2, <2>3, <2>4 DEF UnpackingShutdown
<1>5. CASE AnalysisShutdown
  <2>1. CASE SetStop("analysis", "join runners", {"task_runner", "collector"})
    BY <2>1, SetStopStep, ProcsAre
  <2>2. CASE StopProcesses("join runners", "terminate workers", {"task_runner"})
    BY <2>2, StopProcessesStep, ProcsAre
  <2>3. CASE SetStop("terminate workers", "join workers", {"worker"})
    BY <2>3, SetStopStep, ProcsAre
  <2>4. CASE StopProcesses("join workers", "join collectors", {})
    <3> DEFINE none == {}
    <3>1. none \in SUBSET Procs /\ StopProcesses("join workers", "join collectors", none)
      BY <2>4
    <3> HIDE DEF none
    <3> QED
      BY <3>1, StopProcessesStep
  <2>5. CASE StopProcesses("join collectors", "status", {"collector"})
    BY <2>5, StopProcessesStep, ProcsAre
  <2>6. CASE SetStop("status", "join status", {"status"})
    BY <2>6, SetStopStep, ProcsAre
  <2>7. CASE StopProcesses("join status", "locks", {"status"})
    BY <2>7, StopProcessesStep, ProcsAre
  <2> QED
    BY <1>5, <2>1, <2>2, <2>3, <2>4, <2>5, <2>6, <2>7 DEF AnalysisShutdown
<1>6. CASE CompleteShutdown
  <2>1. CASE ManagerShutdown("locks", "remaining", "locks")
    <3>1. \A p \in Users["locks"] : ~Alive(p)
      BY <2>1, UsersAre DEF ManagerShutdown, Goes, ShutdownInv, StagesEndProcesses, Listeners
    <3> QED
      BY <2>1, <3>1, UsersAre, ManagerShutdownStep
  <2>2. CASE StopProcesses("remaining", "exit", Procs)
    BY <2>2, StopProcessesStep
  <2>3. CASE QueuesGo
    <3>1. /\ main = "exit" /\ main' = "exited" /\ UNCHANGED <<starter, run, proc, stop, managers, checked, late>>
          /\ loc' = [j \in Jobs |-> IF loc[j] \in InMemory THEN "lost" ELSE loc[j]]
      BY <2>3 DEF QueuesGo, Goes, outside, loops
    <3>2. \A p : Alive(p)' <=> Alive(p)
      BY <3>1 DEF Alive
    <3>3. StageType'
      BY <3>1, PlacesAre DEF ShutdownInv, StageType, Stages
    <3>4. OneJobEach'
      BY <3>1, MoversAre DEF ShutdownInv, StageType, OneJobEach
    <3>5. (RunEndsFirst /\ NothingRunsYet /\ StagesEndProcesses /\ NobodyIsLeft /\ ManagersOutliveUsers)'
      BY <3>1, <3>2 DEF ShutdownInv, RunEndsFirst, NothingRunsYet, StagesEndProcesses, NobodyIsLeft,
         ManagersOutliveUsers
    <3> QED
      BY <3>3, <3>4, <3>5 DEF ShutdownInv
  <2> QED
    BY <1>6, <2>1, <2>2, <2>3 DEF CompleteShutdown
<1> QED
  BY <1>1, <1>2, <1>3, <1>4, <1>5, <1>6 DEF Shutdown

\* Every step keeps the invariant.
LEMMA ShutdownInvariant == Spec => []ShutdownInv
<1>1. ShutdownInv /\ [Next]_vars => ShutdownInv'
  <2> SUFFICES ASSUME ShutdownInv, [Next]_vars PROVE ShutdownInv'
    OBVIOUS
  <2>1. CASE Job
    BY <2>1, JobStep
  <2>2. CASE \E p \in Procs : Exit(p)
    BY <2>2, ExitStep
  <2>3. CASE Starter \/ StopStarter \/ Interrupt \/ ShutdownListener \/ Loop
    BY <2>3, OutsideStep
  <2>4. CASE Start
    BY <2>4, StartStep
  <2>5. CASE Shutdown
    BY <2>5, ShutdownStep
  <2>6. CASE UNCHANGED vars
    BY <2>6 DEF vars, loops, ShutdownInv, StageType, OneJobEach, RunEndsFirst, NothingRunsYet,
       StagesEndProcesses, NobodyIsLeft, ManagersOutliveUsers, Alive
  <2> QED
    BY <2>1, <2>2, <2>3, <2>4, <2>5, <2>6 DEF Next, Main
<1> QED
  BY <1>1, ShutdownInit, PTL DEF Spec

-------------------------------------------------------------------------------

\* A set of jobs no two of which differ has at most one member.
LEMMA AtMostOneMember ==
    ASSUME NEW S, \A x, y \in S : x = y
    PROVE  Cardinality(S) <= 1
<1>1. CASE S = {}
  BY <1>1, FS_EmptySet
<1>2. CASE S # {}
  <2>1. PICK x \in S : TRUE
    BY <1>2
  <2>2. S = {x}
    BY <2>1
  <2> QED
    BY <2>2, FS_Singleton
<1> QED
  BY <1>1, <1>2

\* The back end stops in order (FactBackend.shutdown): a manager goes after the
\* processes that call it, the main process after all others, and no process
\* works on two jobs - whichever processes hang, and wherever the starter's
\* timeout kills the main process.
THEOREM OrderlyShutdown == Spec => []ShutdownIsOrderly
<1>1. ShutdownInv => ShutdownIsOrderly
  <2> SUFFICES ASSUME ShutdownInv PROVE TypeOK
    BY DEF ShutdownInv, ShutdownIsOrderly, NoProcessIsLeft, NobodyIsLeft
  <2>1. ASSUME NEW p \in Movers PROVE Cardinality({j \in Jobs : loc[j] = p}) <= 1
    <3>1. \A j, k \in {i \in Jobs : loc[i] = p} : j = k
      BY DEF ShutdownInv, OneJobEach
    <3> QED
      BY <3>1, AtMostOneMember
  <2> QED
    BY <2>1 DEF ShutdownInv, StageType, TypeOK
<1> QED
  BY <1>1, ShutdownInvariant, PTL

-------------------------------------------------------------------------------
(***************************************************************************)
(* The jobs                                                                *)
(***************************************************************************)

\* The places of InMemory and the hands of the movers are apart.
LEMMA PlacesApart ==
    /\ InMemory \cap Movers = {} /\ "lost" \notin Movers \cup InMemory
    /\ "redis" \notin Procs \cup InMemory /\ "database" \notin Movers \cup InMemory
    /\ Places = InMemory \cup Movers \cup {"redis", "database", "lost"}
    /\ Movers \subseteq Procs
BY MoversAre, PlacesAre, ProcsAre DEF InMemory

\* The steps that change what the jobs' invariant is about, apart from those of the movers:
\* processes end with the jobs they have, or stop conditions are set, or the queues go.
EndsSome(ps) ==
    /\ loc' = [j \in Jobs |-> IF loc[j] \in ps THEN "lost" ELSE loc[j]]
    /\ \A p \in Procs : Alive(p)' <=> Alive(p) /\ p \notin ps
    /\ checked' \subseteq checked \ ps /\ late' = late /\ stop' = stop

\* A quiet step: nobody begins or ends, and only stop conditions are set.
Quiet ==
    /\ loc' = loc /\ late' = late /\ (main' = "exited" => main = "exited")
    /\ \A p \in Movers : Alive(p) => Alive(p)'
    /\ stop \subseteq stop'
    /\ \A p \in checked' : p \in checked \/ p \notin stop

\* Every step is one of those, a step of a mover, or the end.
LEMMA KindsOfSteps ==
    ASSUME ShutdownInv, Next
    PROVE  \/ Job
           \/ \E ps \in SUBSET Procs : EndsSome(ps) /\ main' # "exited" /\ run = FALSE
           \/ QueuesGo
           \/ Quiet
<1> USE DEF ShutdownInv
<1>1. CASE Job
  BY <1>1
<1>2. ASSUME NEW p \in Procs, Exit(p)
      PROVE  EndsSome({p}) /\ run = FALSE /\ main' # "exited"
  <2>1. /\ proc' = [proc EXCEPT ![p] = "exited"] /\ proc \in [Procs -> {"none", "running", "exited"}]
        /\ UNCHANGED <<main, stop, late>> /\ checked' = checked \ {p} /\ Alive(p) /\ p \in stop
        /\ loc' = [j \in Jobs |-> IF loc[j] = p THEN "lost" ELSE loc[j]]
    BY <1>2 DEF Exit, StageType
  <2>2. main # "exited"
    BY <2>1 DEF NobodyIsLeft
  <2> QED BY <2>1, <2>2 DEF EndsSome, Alive, RunEndsFirst
<1>3. CASE Starter \/ StopStarter \/ Interrupt \/ ShutdownListener \/ Loop \/ Offline
  <2>1. UNCHANGED <<proc, stop, loc, checked, late>> /\ (main' = "exited" => main = "exited")
    BY <1>3 DEF loops, outside, Goes, Starter, StartComponents, SignalBackend, BackendEnded, StopFrontend,
       StopStarter, Interrupt, ShutdownListener, Loop, Offline
  <2> QED BY <2>1 DEF Quiet, Alive
<1>4. CASE Start
  BY <1>4, PlacesApart DEF Start, Goes, loops, Quiet, Alive
<1>5. ASSUME NEW from, NEW to, NEW ps, SetStop(from, to, ps), to # "exited"
      PROVE  Quiet
  BY <1>5 DEF SetStop, Goes, Quiet, Alive
<1>6. ASSUME NEW from, NEW to, NEW m, ManagerShutdown(from, to, m), to # "exited"
      PROVE  Quiet
  BY <1>6 DEF ManagerShutdown, Goes, Quiet, Alive, loops
<1>7. ASSUME NEW from \in Stopping, NEW to, NEW ps \in SUBSET Procs, StopProcesses(from, to, ps), to # "exited"
      PROVE  \E es \in SUBSET Procs : EndsSome(es) /\ main' # "exited" /\ run = FALSE
  <2> DEFINE es == {p \in ps : Alive(p)}
  <2>1. /\ loc' = [j \in Jobs |-> IF loc[j] \in es THEN "lost" ELSE loc[j]]
        /\ proc' = [p \in Procs |-> IF p \in ps /\ Alive(p) THEN "exited" ELSE proc[p]]
        /\ checked' \subseteq checked \ es /\ late' = late /\ stop' = stop /\ main' # "exited"
    BY <1>7 DEF StopProcesses, Stopped, Goes
  <2>2. \A p \in Procs : Alive(p)' <=> Alive(p) /\ p \notin es
    BY <2>1 DEF Alive
  <2>3. run = FALSE
    BY <1>7 DEF StopProcesses, Goes, RunEndsFirst
  <2> QED BY <2>1, <2>2, <2>3 DEF EndsSome
<1>8. CASE Shutdown
  <2> DEFINE Ends == \E ps \in SUBSET Procs : EndsSome(ps) /\ main' # "exited" /\ run = FALSE
  <2>1. "join listeners" \in Stopping /\ "join comparison" \in Stopping /\ "join extraction" \in Stopping
        /\ "join runners" \in Stopping /\ "join workers" \in Stopping /\ "join collectors" \in Stopping
        /\ "join status" \in Stopping /\ "remaining" \in Stopping
    BY DEF Stopping, AfterListeners, AfterExtraction, AfterRunners, AfterLocks
  <2>2. /\ Listeners \in SUBSET Procs /\ {"extraction", "work_load"} \in SUBSET Procs /\ {"task_runner"} \in SUBSET Procs
        /\ {"collector"} \in SUBSET Procs /\ {"status"} \in SUBSET Procs /\ Procs \in SUBSET Procs
    BY ProcsAre DEF Listeners
  <2>3. \A from \in Stopping, ps \in SUBSET Procs : \A to : StopProcesses(from, to, ps) /\ to # "exited" => Ends
    BY <1>7
  <2>4. StopProcesses("join comparison", "unpacking", {}) \/ StopProcesses("join workers", "join collectors", {}) => Ends
    <3> DEFINE none == {}
    <3>1. none \in SUBSET Procs
      OBVIOUS
    <3>2. StopProcesses("join comparison", "unpacking", none) \/ StopProcesses("join workers", "join collectors", none) => Ends
      <4> HIDE DEF none, Ends
      <4> QED BY <2>1, <2>3, <3>1
    <3> QED BY <3>2
  <2> HIDE DEF Ends
  <2>5. CASE Offline
    BY <2>5, <1>3
  <2>6. CASE IntercomShutdown
    BY <2>6, <2>1, <2>2, <2>3, <1>5, <1>6 DEF IntercomShutdown, Ends
  <2>7. CASE ComparisonShutdown
    BY <2>7, <2>4, <1>5 DEF ComparisonShutdown, Ends
  <2>8. CASE UnpackingShutdown
    BY <2>8, <2>1, <2>2, <2>3, <1>5, <1>6 DEF UnpackingShutdown, Ends
  <2>9. CASE AnalysisShutdown
    BY <2>9, <2>1, <2>2, <2>3, <2>4, <1>5 DEF AnalysisShutdown, Ends
  <2>10. CASE CompleteShutdown
    BY <2>10, <2>1, <2>2, <2>3, <1>6 DEF CompleteShutdown, Ends
  <2> QED BY <1>8, <2>5, <2>6, <2>7, <2>8, <2>9, <2>10 DEF Shutdown, Ends
<1>9. (\E p \in Procs : Exit(p)) => \E ps \in SUBSET Procs : EndsSome(ps) /\ main' # "exited" /\ run = FALSE
  BY <1>2
<1> QED BY <1>1, <1>9, <1>3, <1>4, <1>8 DEF Next, Main

\* A step of a mover keeps the jobs' invariant.
LEMMA MoverKeepsJobs ==
    ASSUME ShutdownInv, JobsInv, Job
    PROVE  /\ JobsInv'
           /\ \A j \in Jobs : loc'[j] = "lost" => loc[j] = "lost"
           /\ \A j \in Jobs : loc[j] = "redis" /\ loc'[j] # "redis" => main \notin ListenersJoined
<1> USE DEF ShutdownInv, JobsInv
<1>1. PICK p \in Movers : Idle(p) \/ \E j \in Jobs : Take(p, j) \/ Put(p, j)
  BY DEF Job
<1>2. /\ UNCHANGED <<main, proc, stop>> /\ Alive(p) /\ p \in Procs
      /\ loc \in [Jobs -> Places] /\ checked \subseteq Movers /\ late \subseteq Movers \X Jobs
  BY <1>1, PlacesApart DEF Idle, Take, Put, StageType
<1>3. \A q : Alive(q)' <=> Alive(q)
  BY <1>2 DEF Alive
<1>4. main # "exited" /\ JobsAreDone'
  BY <1>2 DEF NobodyIsLeft, JobsAreDone
<1>5. /\ Takes[p] \notin Movers /\ Puts[p] \notin Movers /\ Puts[p] # "lost" /\ p # "lost" /\ p # "redis"
      /\ (Takes[p] = "redis" => p = "listener")
  BY MoversAre, TakesAre, PutsAre
<1>6. "listener" \in Listeners /\ (main \in ListenersJoined => ~Alive("listener"))
  BY ListenersJoinedAre DEF StagesEndProcesses, Listeners
<1>7. CASE Idle(p)
  BY <1>2, <1>3, <1>4, <1>7 DEF Idle, HoldersRun, LateJobs
<1>8. ASSUME NEW j \in Jobs, Take(p, j)
      PROVE  /\ HoldersRun' /\ LateJobs'
             /\ \A k \in Jobs : loc'[k] = "lost" => loc[k] = "lost"
             /\ \A k \in Jobs : loc[k] = "redis" /\ loc'[k] # "redis" => main \notin ListenersJoined
  <2>1. /\ loc' = [loc EXCEPT ![j] = p] /\ checked' = checked /\ loc[j] = Takes[p]
        /\ late' = (IF p \in stop THEN late \cup {<<p, j>>} ELSE late)
        /\ \A k \in Jobs : loc[k] # p
        /\ p \notin stop \/ p \in checked
    BY <1>8 DEF Take, Holds
  <2>2. \A k \in Jobs : loc'[k] = IF k = j THEN p ELSE loc[k]
    BY <2>1, <1>2
  <2>3. HoldersRun'
    BY <2>2, <1>2, <1>3 DEF HoldersRun
  <2>4. ASSUME p # "collector", NEW k \in Jobs PROVE <<p, k>> \notin late
    BY <2>1, <2>4 DEF LateJobs
  <2>5. \A q \in Movers, k \in Jobs : <<q, k>> \in late' => <<q, k>> \in late \/ (q = p /\ k = j /\ p \in stop)
    BY <2>1
  <2>6. LateJobs'
    <3>1. \A q \in Movers, k \in Jobs : <<q, k>> \in late' => q \in stop'
      BY <2>5, <1>2 DEF LateJobs
    <3>2. \A q \in Movers \ {"collector"}, k, l \in Jobs : <<q, k>> \in late' /\ <<q, l>> \in late' => k = l
      BY <2>4, <2>5 DEF LateJobs
    <3>3. ASSUME NEW q \in Movers \ {"collector"}, NEW k \in Jobs, q \in checked', <<q, k>> \in late'
          PROVE  loc'[k] = q
      <4>1. CASE <<q, k>> \in late
        <5>1. loc[k] = q
          BY <4>1, <3>3, <2>1 DEF LateJobs
        <5> QED BY <5>1, <2>1, <2>2, <1>5
      <4>2. CASE q = p /\ k = j
        BY <4>2, <2>2
      <4> QED BY <4>1, <4>2, <3>3, <2>5
    <3> QED BY <3>1, <3>2, <3>3 DEF LateJobs
  <2> QED BY <2>1, <2>2, <2>3, <2>6, <1>2, <1>5, <1>6
<1>9. ASSUME NEW j \in Jobs, Put(p, j)
      PROVE  /\ HoldersRun' /\ LateJobs'
             /\ \A k \in Jobs : loc'[k] = "lost" => loc[k] = "lost"
             /\ \A k \in Jobs : loc[k] = "redis" /\ loc'[k] # "redis" => main \notin ListenersJoined
  <2>1. /\ loc' = [loc EXCEPT ![j] = Puts[p]] /\ loc[j] = p /\ late' = late
        /\ checked' = (IF p = "collector" THEN checked ELSE checked \ {p})
    BY <1>9 DEF Put
  <2>2. \A k \in Jobs : loc'[k] = IF k = j THEN Puts[p] ELSE loc[k]
    BY <2>1, <1>2
  <2>3. HoldersRun'
    BY <2>2, <1>3, <1>5 DEF HoldersRun
  <2>4. LateJobs'
    <3>1. ASSUME NEW q \in Movers \ {"collector"}, NEW k \in Jobs, q \in checked', <<q, k>> \in late'
          PROVE  loc'[k] = q
      <4>1. q \in checked /\ <<q, k>> \in late /\ q # p
        BY <2>1, <3>1
      <4>2. loc[k] = q
        BY <4>1 DEF LateJobs
      <4> QED BY <4>1, <4>2, <2>1, <2>2
    <3> QED BY <3>1, <2>1, <1>2 DEF LateJobs
  <2> QED BY <2>1, <2>2, <2>3, <2>4, <1>5
<1> QED BY <1>1, <1>4, <1>7, <1>8, <1>9

\* When processes end, their jobs are lost; the jobs' invariant holds of the others.
LEMMA EndKeepsJobs ==
    ASSUME ShutdownInv, JobsInv, NEW ps \in SUBSET Procs, EndsSome(ps), main' # "exited"
    PROVE  JobsInv'
<1> USE DEF ShutdownInv, JobsInv
<1>1. \A j \in Jobs : loc'[j] = IF loc[j] \in ps THEN "lost" ELSE loc[j]
  BY DEF EndsSome
<1>2. HoldersRun'
  BY <1>1, PlacesApart DEF HoldersRun, EndsSome
<1>3. ASSUME NEW q \in Movers \ {"collector"}, NEW k \in Jobs, q \in checked', <<q, k>> \in late'
      PROVE  loc'[k] = q
  <2>1. loc[k] = q /\ q \notin ps
    BY <1>3 DEF LateJobs, EndsSome
  <2> QED BY <2>1, <1>1
<1>4. LateJobs'
  BY <1>3 DEF LateJobs, EndsSome
<1> QED BY <1>2, <1>4 DEF JobsAreDone

\* Nor do the other steps disturb it.
LEMMA OtherStepsKeepJobs ==
    ASSUME ShutdownInv, JobsInv, Quiet \/ QueuesGo \/ UNCHANGED vars
    PROVE  JobsInv'
<1> USE DEF ShutdownInv, JobsInv
<1>1. CASE Quiet
  <2>1. HoldersRun' /\ JobsAreDone'
    BY <1>1 DEF Quiet, HoldersRun, JobsAreDone
  <2>2. LateJobs'
    BY <1>1 DEF Quiet, LateJobs
  <2> QED BY <2>1, <2>2
<1>2. CASE QueuesGo
  <2>1. /\ main = "exit" /\ main' = "exited" /\ UNCHANGED <<proc, stop, checked, late>>
        /\ loc \in [Jobs -> Places]
        /\ \A j \in Jobs : loc'[j] = IF loc[j] \in InMemory THEN "lost" ELSE loc[j]
    BY <1>2 DEF QueuesGo, Goes, loops, StageType
  <2>2. \A p \in Procs : ~Alive(p)
    BY <2>1 DEF NobodyIsLeft
  <2>3. \A j \in Jobs : loc[j] \notin Movers /\ loc[j] \in Places
    BY <2>1, <2>2, PlacesApart DEF HoldersRun
  <2>4. JobsAreDone' /\ HoldersRun'
    BY <2>1, <2>3, PlacesApart DEF JobsAreDone, HoldersRun
  <2>5. LateJobs'
    BY <2>1, <2>3 DEF LateJobs
  <2> QED BY <2>4, <2>5
<1>3. CASE UNCHANGED vars
  BY <1>3 DEF vars, loops, HoldersRun, LateJobs, JobsAreDone, Alive
<1> QED BY <1>1, <1>2, <1>3

\* The jobs' invariant holds in every reachable state.
LEMMA JobsInvariant == Spec => []JobsInv
<1>1. Init => JobsInv
  BY PlacesApart DEF Init, JobsInv, HoldersRun, LateJobs, JobsAreDone
<1>2. ShutdownInv /\ JobsInv /\ [Next]_vars => JobsInv'
  BY KindsOfSteps, MoverKeepsJobs, EndKeepsJobs, OtherStepsKeepJobs
<1> QED
  BY <1>1, <1>2, ShutdownInvariant, PTL DEF Spec

\* What becomes of the jobs when the back end is stopped (FactBackend.shutdown and the loops
\* of its processes), for any jobs and whichever processes hang: a job is lost only after
\* the flag of the main loop was cleared, out of the hands of a process that ends or with
\* the queues when none is left; a process that is told to stop takes at most one more; what
\* is in Redis when the listeners were joined stays there; and nothing is in between when
\* the back end is gone.
THEOREM JobsSurvive == Spec => JobsAreKept
<1> DEFINE Lost == \A j \in Jobs : loc'[j] = "lost" /\ loc[j] # "lost" =>
              /\ run = FALSE
              /\ loc[j] \in Movers \/ (loc[j] \in InMemory /\ \A p \in Procs : ~Alive(p))
           Kept == \A j \in Jobs : loc[j] = "redis" /\ loc'[j] # "redis" => main \notin ListenersJoined
<1>1. ShutdownInv /\ JobsInv /\ [Next]_vars => [Lost]_vars /\ [Kept]_vars
  <2> SUFFICES ASSUME ShutdownInv, JobsInv, Next PROVE Lost /\ Kept
    BY Zenon
  <2>1. loc \in [Jobs -> Places]
    BY DEF ShutdownInv, StageType
  <2>2. CASE Job
    BY <2>2, MoverKeepsJobs
  <2>3. ASSUME NEW ps \in SUBSET Procs, EndsSome(ps), run = FALSE PROVE Lost /\ Kept
    <3>1. \A j \in Jobs : loc'[j] = IF loc[j] \in ps THEN "lost" ELSE loc[j]
      BY <2>3 DEF EndsSome
    <3>2. \A j \in Jobs : loc[j] \in Procs => loc[j] \in Movers /\ loc[j] # "redis"
      BY <2>1, PlacesAre, MoversAre, ProcsAre
    <3> QED BY <3>1, <3>2, <2>3
  <2>4. CASE QueuesGo
    <3>1. main = "exit" /\ \A j \in Jobs : loc'[j] = IF loc[j] \in InMemory THEN "lost" ELSE loc[j]
      BY <2>4 DEF QueuesGo, Goes
    <3>2. run = FALSE /\ \A p \in Procs : ~Alive(p)
      BY <3>1 DEF ShutdownInv, RunEndsFirst, NobodyIsLeft, Stopping, AfterListeners, AfterExtraction,
         AfterRunners, AfterLocks
    <3> QED BY <3>1, <3>2, PlacesApart
  <2>5. CASE Quiet
    BY <2>5 DEF Quiet
  <2> QED BY <2>2, <2>3, <2>4, <2>5, KindsOfSteps
<1>2. JobsInv =>
        /\ \A p \in Movers \ {"collector"} : \A j, k \in Jobs : <<p, j>> \in late /\ <<p, k>> \in late => j = k
        /\ main = "exited" => \A j \in Jobs : loc[j] \in {"redis", "database", "lost"}
  BY DEF JobsInv, LateJobs, JobsAreDone
<1>3. LostByTheStopOnly <=> [][Lost]_vars
  BY DEF LostByTheStopOnly
<1>4. RedisIsKept <=> [][Kept]_vars
  BY DEF RedisIsKept
<1> HIDE DEF Lost, Kept
<1> QED
  BY <1>1, <1>2, <1>3, <1>4, JobsInvariant, ShutdownInvariant, PTL
     DEF Spec, JobsAreKept, OneMoreAtMost, NothingInBetween
================================================================================
