------------------------------ MODULE Supervision ------------------------------
(***************************************************************************)
(* How FACT is started and stopped: the starter with its three components, *)
(* the main loop of a component, the processes of the back end, and the    *)
(* order in which the back end stops them while jobs are on their way      *)
(* (src/src/start_fact.py, src/src/fact_base.py,                           *)
(* src/src/start_fact_backend.py, src/src/helperFunctions/process.py and   *)
(* the shutdown methods of the schedulers).                                *)
(***************************************************************************)
EXTENDS Naturals, FiniteSets, Sequences

CONSTANTS
    Jobs,           \* files on their way through the back end
    Stuck           \* bound: the sets of processes of which one may hang for good

(***************************************************************************)
(* The processes of the back end, each with the place where it takes a job *)
(* and the one where it puts it                                            *)
(***************************************************************************)

Takes == [listener |-> "redis", extraction |-> "in_queue", task_runner |-> "process_queue",
          worker |-> "plugin_queue", collector |-> "out_queue"]
Puts == [listener |-> "in_queue", extraction |-> "process_queue", task_runner |-> "plugin_queue",
         worker |-> "out_queue", collector |-> "database"]

Movers == DOMAIN Takes
Procs == Movers \cup {"single_file_listener", "comparison", "work_load", "status"}
Places == {Takes[p] : p \in Movers} \cup {Puts[p] : p \in Movers} \cup Movers \cup {"lost"}

\* manager processes and the processes that call them
Users == [intercom |-> {"single_file_listener"},
          unpacking |-> {"listener", "extraction"},
          locks |-> {"listener", "extraction", "task_runner"}]

ASSUME SupervisionConstants == Stuck \subseteq SUBSET Procs

VARIABLES
    mode,           \* how the back end was started
    signal,         \* signals on their way to the main process of the back end
    starter,        \* start_fact.py
    frontend,       \* the front end with its server
    main,           \* main process of the back end
    run,            \* its flag
    proc,           \* its processes
    stop,           \* processes whose stop condition is set
    managers,       \* manager processes that run
    loc,            \* where the jobs are
    stuck,          \* processes that hang
    online,         \* what the database shows as status of the back end
    checked,        \* movers told to stop that found the condition unset before
    late            \* history: <<p, j>>, p took j after its stop condition was set

loops == <<checked, late>>
vars == <<mode, signal, starter, frontend, main, run, proc, stop, managers, loc, stuck, online, loops>>
outside == <<mode, signal, starter, frontend>>

Alive(p) == proc[p] = "running"
Holds(p) == \E j \in Jobs : loc[j] = p

(***************************************************************************)
(* Jobs                                                                    *)
(***************************************************************************)

\* the loop of a process: look at the stop condition, take a job, ...  A process that has
\* looked at it already takes the job whether it was set meanwhile or not.
Take(p, j) ==
    /\ Alive(p) /\ (p \notin stop \/ p \in checked) /\ ~Holds(p)
    /\ loc[j] = Takes[p]
    /\ loc' = [loc EXCEPT ![j] = p]
    /\ late' = IF p \in stop THEN late \cup {<<p, j>>} ELSE late
    /\ UNCHANGED <<outside, main, run, proc, stop, managers, stuck, online, checked>>

\* ... or there is none (yet), and the loop starts again
Idle(p) ==
    /\ Alive(p) /\ p \in checked /\ ~Holds(p)
    /\ checked' = checked \ {p}
    /\ UNCHANGED <<outside, main, run, proc, stop, managers, loc, stuck, online, late>>

\* ... and be done with it, stopped or not; a collector goes on with the queues
\* of the other plugins before it looks at the stop condition again
Put(p, j) ==
    /\ Alive(p) /\ p \notin stuck
    /\ loc[j] = p
    /\ loc' = [loc EXCEPT ![j] = Puts[p]]
    /\ checked' = IF p = "collector" THEN checked ELSE checked \ {p}
    /\ UNCHANGED <<outside, main, run, proc, stop, managers, stuck, online, late>>

\* a process leaves its loop; a worker that got SIGTERM may drop its job
Exit(p) ==
    /\ Alive(p) /\ p \in stop \ stuck
    /\ Holds(p) \/ p \in checked => p = "worker" /\ Holds(p)
    /\ proc' = [proc EXCEPT ![p] = "exited"]
    /\ loc' = [j \in Jobs |-> IF loc[j] = p THEN "lost" ELSE loc[j]]
    /\ checked' = checked \ {p}
    /\ UNCHANGED <<outside, main, run, stop, managers, stuck, online, late>>

(***************************************************************************)
(* Starter and front end                                                   *)
(***************************************************************************)

\* _start_component, one after the other; the back end comes last
StartComponents ==
    /\ starter = "starting"
    /\ starter' = "running"
    /\ frontend' = "running"
    /\ main' = "start"
    /\ UNCHANGED <<mode, signal, run, proc, stop, managers, loc, stuck, online, loops>>

\* SIGINT or SIGTERM to the starter; the components ignore both
StopStarter ==
    /\ starter = "running"
    /\ starter' = "stopping"
    /\ UNCHANGED <<mode, signal, frontend, main, run, proc, stop, managers, loc, stuck, online, loops>>

\* _terminate_process(backend_process)
SignalBackend ==
    /\ starter = "stopping"
    /\ starter' = "waiting"
    /\ signal' = signal \cup {"SIGUSR1"}
    /\ UNCHANGED <<mode, frontend, main, run, proc, stop, managers, loc, stuck, online, loops>>

\* Mutant: the wait has no timeout
BackendEndedOnly ==
    /\ starter = "waiting"
    /\ main = "exited"
    /\ starter' = "frontend"
    /\ UNCHANGED <<mode, signal, frontend, main, run, proc, stop, managers, loc, stuck, online, loops>>

\* the wait ends with the back end, or with the timeout and a kill
BackendEnded ==
    /\ starter = "waiting"
    /\ main' = IF main = "exited" THEN main ELSE "killed"
    /\ starter' = "frontend"
    /\ UNCHANGED <<mode, signal, frontend, run, proc, stop, managers, loc, stuck, online, loops>>

\* the same for the front end, which stops or kills its server, and the database
StopFrontend ==
    /\ starter = "frontend"
    /\ frontend' = "exited"
    /\ starter' = "exited"
    /\ UNCHANGED <<mode, signal, main, run, proc, stop, managers, loc, stuck, online, loops>>

(***************************************************************************)
(* The main process of the back end                                        *)
(***************************************************************************)

\* a signal from outside, to a back end that was started by itself
Interrupt ==
    /\ mode # "starter" /\ main = "loop"
    /\ signal' = signal \cup {"SIGTERM"}
    /\ UNCHANGED <<mode, starter, frontend, main, run, proc, stop, managers, loc, stuck, online, loops>>

\* shutdown_listener; only the leader of the process group reacts, which a back
\* end is that the starter started (it sets its group), or that a shell did
ShutdownListener ==
    /\ signal # {} /\ main \notin {"none", "exited", "killed"}
    /\ signal' = {}
    /\ run' = IF mode = "in_script" THEN run ELSE FALSE
    /\ UNCHANGED <<mode, starter, frontend, main, proc, stop, managers, loc, stuck, online, loops>>

Goes(from, to) == main = from /\ main' = to

\* start(): analysis, unpacking, comparison, then the listeners
Start ==
    /\ Goes("start", "loop")
    /\ proc' = [p \in Procs |-> "running"]
    /\ managers' = DOMAIN Users
    /\ UNCHANGED <<outside, run, stop, loc, stuck, online, loops>>

\* main(): the loop updates the work load until run is false
Loop ==
    /\ Goes("loop", IF run THEN "loop" ELSE "offline")
    /\ online' = IF run THEN "online" ELSE online
    /\ UNCHANGED <<outside, run, proc, stop, managers, loc, stuck, loops>>

\* FactBase.shutdown
Offline ==
    /\ Goes("offline", "intercom")
    /\ online' = "offline"
    /\ UNCHANGED <<outside, run, proc, stop, managers, loc, stuck, loops>>

\* the queues between the processes, which are gone with the back end
InMemory == {"in_queue", "process_queue", "plugin_queue", "out_queue"}

\* stop_processes: wait for each of them, kill what is left
Stopped(ps) ==
    /\ proc' = [p \in Procs |-> IF p \in ps /\ Alive(p) THEN "exited" ELSE proc[p]]
    /\ checked' = checked \ ps
    /\ loc' = [j \in Jobs |-> IF loc[j] \in {p \in ps : Alive(p)} THEN "lost" ELSE loc[j]]

\* a stage sets the stop condition of some processes, of which any may have looked at it
\* just before ...
SetStop(from, to, ps) ==
    /\ Goes(from, to)
    /\ stop' = stop \cup ps
    /\ \E past \in SUBSET ((ps \cap Movers) \ stop) : checked' = checked \cup past
    /\ UNCHANGED <<outside, run, proc, managers, loc, stuck, online, late>>

\* ... waits for them, with a timeout, ...
StopProcesses(from, to, ps) ==
    /\ Goes(from, to)
    /\ Stopped(ps)
    /\ UNCHANGED <<outside, run, stop, managers, stuck, online, late>>

\* ... and shuts a manager down
ManagerShutdown(from, to, m) ==
    /\ Goes(from, to)
    /\ managers' = managers \ {m}
    /\ UNCHANGED <<outside, run, proc, stop, loc, stuck, online, loops>>

Listeners == {"listener", "single_file_listener"}

\* Mutant: the first listener is not joined
IntercomShutdownOneListener ==
    \/ SetStop("intercom", "intercom manager", Listeners)
    \/ ManagerShutdown("intercom manager", "join listeners", "intercom")
    \/ StopProcesses("join listeners", "comparison", {"single_file_listener"})

\* InterComBackEndBinding.shutdown
IntercomShutdown ==
    \/ SetStop("intercom", "intercom manager", Listeners)
    \/ ManagerShutdown("intercom manager", "join listeners", "intercom")
    \/ StopProcesses("join listeners", "comparison", Listeners)

\* ComparisonScheduler.shutdown: join without a timeout
ComparisonShutdown ==
    \/ SetStop("comparison", "join comparison", {"comparison"})
    \/ proc["comparison"] # "running" /\ StopProcesses("join comparison", "unpacking", {})

\* Mutant: the manager goes first
UnpackingShutdownManagerFirst ==
    \/ SetStop("unpacking", "join extraction", {"extraction", "work_load"})
    \/ ManagerShutdown("join extraction", "unpacking manager", "unpacking")
    \/ StopProcesses("unpacking manager", "analysis", {"extraction", "work_load"})

\* UnpackingScheduler.shutdown
UnpackingShutdown ==
    \/ SetStop("unpacking", "join extraction", {"extraction", "work_load"})
    \/ StopProcesses("join extraction", "unpacking manager", {"extraction", "work_load"})
    \/ ManagerShutdown("unpacking manager", "analysis", "unpacking")

\* AnalysisScheduler.shutdown: task runners and collectors share a stop
\* condition; the workers are joined with a timeout, and not killed
AnalysisShutdown ==
    \/ SetStop("analysis", "join runners", {"task_runner", "collector"})
    \/ StopProcesses("join runners", "terminate workers", {"task_runner"})
    \/ SetStop("terminate workers", "join workers", {"worker"})
    \/ StopProcesses("join workers", "join collectors", {})
    \/ StopProcesses("join collectors", "status", {"collector"})
    \/ SetStop("status", "join status", {"status"})
    \/ StopProcesses("join status", "locks", {"status"})

\* the main process ends, and with it the queues
QueuesGo ==
    /\ Goes("exit", "exited")
    /\ loc' = [j \in Jobs |-> IF loc[j] \in InMemory THEN "lost" ELSE loc[j]]
    /\ UNCHANGED <<outside, run, proc, stop, managers, stuck, online, loops>>

\* the lock manager, then complete_shutdown: whatever is in the process group is killed
CompleteShutdown ==
    \/ ManagerShutdown("locks", "remaining", "locks")
    \/ StopProcesses("remaining", "exit", Procs)
    \/ QueuesGo

Shutdown == Offline \/ IntercomShutdown \/ ComparisonShutdown \/ UnpackingShutdown
            \/ AnalysisShutdown \/ CompleteShutdown

(***************************************************************************)
(* Specification                                                           *)
(***************************************************************************)

Init ==
    /\ mode \in {"starter", "shell", "in_script"}
    /\ signal = {}
    /\ starter = IF mode = "starter" THEN "starting" ELSE "none"
    /\ frontend = "none"
    /\ main = IF mode = "starter" THEN "none" ELSE "start"
    /\ run = TRUE
    /\ proc = [p \in Procs |-> "none"]
    /\ stop = {}
    /\ managers = {}
    /\ loc = [j \in Jobs |-> "redis"]
    /\ stuck \in Stuck
    /\ online = "offline"
    /\ checked = {} /\ late = {}

Job == \E p \in Movers : Idle(p) \/ \E j \in Jobs : Take(p, j) \/ Put(p, j)

Starter == StartComponents \/ SignalBackend \/ BackendEnded \/ StopFrontend

Main == ShutdownListener \/ Start \/ Loop \/ Shutdown

Next == Job \/ (\E p \in Procs : Exit(p)) \/ Starter \/ StopStarter \/ Interrupt \/ Main

\* Starter and main process run on; processes leave their loops unless stuck.
\* That signals are sent is not required, nor that jobs move.
Fairness ==
    /\ WF_vars(Starter)
    /\ WF_vars(ShutdownListener) /\ WF_vars(Start) /\ WF_vars(Loop) /\ WF_vars(Shutdown)
    /\ \A p \in Procs : WF_vars(Exit(p))

Spec == Init /\ [][Next]_vars
FairSpec == Spec /\ Fairness

(***************************************************************************)
(* Properties                                                              *)
(***************************************************************************)

\* Types; a process works on one job at a time.
TypeOK ==
    /\ loc \in [Jobs -> Places]
    /\ proc \in [Procs -> {"none", "running", "exited"}]
    /\ stop \subseteq Procs /\ managers \subseteq DOMAIN Users
    /\ checked \subseteq Movers /\ late \subseteq Movers \X Jobs
    /\ \A p \in Movers : Cardinality({j \in Jobs : loc[j] = p}) <= 1

\* When the back end has stopped none of its processes is left, hung or not,
\* unless its main process was killed by the starter's timeout
\* (complete_shutdown finds what the stages left).
NoProcessIsLeft ==
    main = "exited" => \A p \in Procs : ~Alive(p)

\* A manager is shut down after the processes that call it.  The intercom's own
\* manager is the exception: its listener is joined afterwards.
ManagersOutliveUsers ==
    main \notin {"none", "start"} =>
        \A m \in (DOMAIN Users \ managers) \ {"intercom"} :
            \A p \in Users[m] : ~Alive(p)

\* The order of the shutdown (FactBackend.shutdown): managers after the processes
\* that call them, the main process after all others.
ShutdownIsOrderly ==
    /\ TypeOK
    /\ NoProcessIsLeft
    /\ ManagersOutliveUsers

\* A job disappears only while the back end stops: out of the hands of a process that
\* drops it or is killed, or with the queues in memory when the back end is gone.  The
\* queues of results are among them: the collectors leave with the task runners
\* (AnalysisScheduler.shutdown), and what the plugins hand in after that is lost.
LostByTheStopOnly ==
    [][\A j \in Jobs : loc'[j] = "lost" /\ loc[j] # "lost" =>
          /\ run = FALSE
          /\ loc[j] \in Movers \/ (loc[j] \in InMemory /\ \A p \in Procs : ~Alive(p))]_vars

\* A process that is told to stop takes one more job at most, if it has looked at the
\* condition just before; the collector finishes its pass over the plugins.
OneMoreAtMost ==
    [](\A p \in Movers \ {"collector"} : \A j, k \in Jobs : <<p, j>> \in late /\ <<p, k>> \in late => j = k)

ListenersJoined == {"comparison", "join comparison", "unpacking", "join extraction",
    "unpacking manager", "analysis", "join runners", "terminate workers", "join workers",
    "join collectors", "status", "join status", "locks", "remaining", "exit", "exited"}

\* Once the listeners were joined, what is in Redis stays there for the next start.
RedisIsKept ==
    [][\A j \in Jobs : loc[j] = "redis" /\ loc'[j] # "redis" => main \notin ListenersJoined]_vars

\* When the back end has stopped a job is either in Redis, or done, or lost for good: no
\* process puts it anywhere any more.
NothingInBetween == [](main = "exited" => \A j \in Jobs : loc[j] \in {"redis", "database", "lost"})

\* What becomes of the jobs when the back end is stopped: none is lost before, none is
\* taken from Redis in vain but the one that the listener is about to take.
JobsAreKept ==
    /\ LostByTheStopOnly
    /\ OneMoreAtMost
    /\ RedisIsKept
    /\ NothingInBetween

\* Once stopping has begun it ends, whatever hangs: the starter kills a back end
\* that is too slow.  Without the starter, a comparison that hangs is waited for
\* forever, and a back end that is not the leader of its process group ignores
\* the signal.
StoppingEnds ==
    (starter = "stopping" \/ (mode = "shell" /\ main = "loop" /\ signal # {})) ~>
        \/ starter = "exited" \/ main = "exited"
        \/ mode = "shell" /\ "comparison" \in stuck
================================================================================
