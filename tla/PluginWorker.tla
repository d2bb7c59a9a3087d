---------------------------- MODULE PluginWorker ----------------------------
(***************************************************************************)
(* The processes that run one analysis plugin                              *)
(* (src/src/scheduler/analysis/plugin.py).                                 *)
(*                                                                         *)
(* A worker takes a task from the in-queue, starts a child process for it, *)
(* waits on a pipe for the child's result, kills the child and puts the    *)
(* task with the result into the out-queue.  The pipe is made once for all *)
(* children of a worker.  A child may crash without a word, hang, or send  *)
(* its result after the worker gave up waiting; a SIGTERM may reach the    *)
(* worker between any two steps and its handler reads the same pipe.       *)
(***************************************************************************)
EXTENDS Naturals, Sequences, FiniteSets

CONSTANTS
    Tasks,       \* file objects to be analysed
    Workers,     \* the worker processes of the plugin
    StatsLimit,  \* ANALYSIS_STATS_LIMIT
    Shutdowns,   \* bound: 1 if the back end may shut down, 0 otherwise
    NoTask       \* no task

ASSUME WorkerConstants ==
    /\ StatsLimit \in Nat \ {0}
    /\ Shutdowns \in {0, 1}
    /\ NoTask \notin Tasks
    /\ IsFiniteSet(Tasks) /\ IsFiniteSet(Workers)

VARIABLES
    in_queue,    \* tasks that wait for a worker
    out_queue,   \* tasks that came out: their state as the collector gets it
    worker,      \* per worker: its position, task, run flag and entry
    child,       \* per worker: child_process
    pipe,        \* per worker: the messages in the pipe
    stats,       \* the durations: written slots, index, count and lock
    seen,        \* history: tasks that were queued
    late,        \* history: workers that were sent a result too late
    shutdown     \* whether PluginRunner.shutdown was called

vars == <<in_queue, out_queue, worker, child, pipe, stats, seen, late, shutdown>>

Kinds == {"analysis", "failed"}   \* a result, or a text that starts an exception

NoEntry == [kind |-> "none", of |-> NoTask]

\* _write_result_in_file_object prefers an analysis to a timeout, if a timeout is
\* raised after the analysis was received
TimedOut(entry, t) == IF entry.kind = "analysis" THEN entry ELSE [kind |-> "timeout", of |-> t]

Idle == [pc |-> "get", task |-> NoTask, run |-> 1, entry |-> NoEntry]

Init ==
    /\ in_queue = {}
    /\ out_queue = [t \in Tasks |-> NoEntry]
    /\ worker = [w \in Workers |-> Idle]
    /\ child = [w \in Workers |-> [task |-> NoTask, state |-> "none"]]
    /\ pipe = [w \in Workers |-> <<>>]
    /\ stats = [written |-> {}, idx |-> 0, count |-> 0, lock |-> {}]
    /\ seen = {}
    /\ late = {}
    /\ shutdown = 0

-----------------------------------------------------------------------------
\* queue_analysis: the analysis scheduler puts a file object into the in-queue
QueueAnalysis(t) ==
    /\ t \notin seen
    /\ seen' = seen \cup {t}
    /\ in_queue' = in_queue \cup {t}
    /\ UNCHANGED <<out_queue, worker, child, pipe, stats, late, shutdown>>

-----------------------------------------------------------------------------
(* The child process of a worker.                                          *)

Alive(w) == child[w].state \in {"running", "sent"}

\* the end of _child_entrypoint: the result is sent, then the process ends
ChildSends(w, kind) ==
    /\ child[w].state = "running"
    /\ child' = [child EXCEPT ![w].state = "sent"]
    /\ pipe' = [pipe EXCEPT ![w] = Append(@, [kind |-> kind, of |-> child[w].task])]
    /\ late' = IF worker[w].pc \in {"poll", "recv"} THEN late ELSE late \cup {w}
    /\ UNCHANGED <<in_queue, out_queue, worker, stats, seen, shutdown>>

\* the process ends after its result is sent, or crashes before (SEGFAULT)
ChildExits(w) ==
    /\ Alive(w)
    /\ child' = [child EXCEPT ![w].state = "exited"]
    /\ UNCHANGED <<in_queue, out_queue, worker, pipe, stats, seen, late, shutdown>>

-----------------------------------------------------------------------------
(* Worker.run                                                              *)

At(w, pc) == worker[w].pc = pc

\* Mutant: the worker looks at the first task without removing it
GetPeeking(w, t) ==
    /\ At(w, "get") /\ worker[w].run = 1
    /\ t \in in_queue
    /\ worker' = [worker EXCEPT ![w].pc = "start", ![w].task = t, ![w].entry = NoEntry]
    /\ UNCHANGED <<in_queue, out_queue, child, pipe, stats, seen, late, shutdown>>

\* Mutant: the entry is only made once, before the loop
GetKeepingEntry(w, t) ==
    /\ At(w, "get") /\ worker[w].run = 1
    /\ t \in in_queue
    /\ in_queue' = in_queue \ {t}
    /\ worker' = [worker EXCEPT ![w].pc = "start", ![w].task = t]
    /\ UNCHANGED <<out_queue, child, pipe, stats, seen, late, shutdown>>

Get(w, t) ==
    /\ At(w, "get") /\ worker[w].run = 1
    /\ t \in in_queue
    /\ in_queue' = in_queue \ {t}
    /\ worker' = [worker EXCEPT ![w].pc = "start", ![w].task = t, ![w].entry = NoEntry]
    /\ UNCHANGED <<out_queue, child, pipe, stats, seen, late, shutdown>>

\* the while loop ends after a SIGTERM
Stop(w) ==
    /\ At(w, "get") /\ worker[w].run = 0
    /\ worker' = [worker EXCEPT ![w].pc = "stopped"]
    /\ UNCHANGED <<in_queue, out_queue, child, pipe, stats, seen, late, shutdown>>

Start(w) ==
    /\ At(w, "start")
    /\ child' = [child EXCEPT ![w] = [task |-> worker[w].task, state |-> "running"]]
    /\ worker' = [worker EXCEPT ![w].pc = "poll"]
    /\ UNCHANGED <<in_queue, out_queue, pipe, stats, seen, late, shutdown>>

\* recv_conn.poll returns True
PollReady(w) ==
    /\ At(w, "poll") /\ pipe[w] # <<>>
    /\ worker' = [worker EXCEPT ![w].pc = "recv"]
    /\ UNCHANGED <<in_queue, out_queue, child, pipe, stats, seen, late, shutdown>>

\* recv_conn.recv, which blocks while the pipe is empty: a result is followed by
\* _update_duration_stats, a text by an exception
Receive(w) ==
    /\ At(w, "recv") /\ pipe[w] # <<>>
    /\ pipe' = [pipe EXCEPT ![w] = Tail(@)]
    /\ worker' = [worker EXCEPT
                    ![w].pc = IF Head(pipe[w]).kind = "analysis" THEN "stats" ELSE "finally",
                    ![w].entry = Head(pipe[w])]
    /\ UNCHANGED <<in_queue, out_queue, child, stats, seen, late, shutdown>>

\* recv_conn.poll returns False after the timeout
PollTimeout(w) ==
    /\ At(w, "poll") /\ pipe[w] = <<>>
    /\ worker' = [worker EXCEPT ![w].pc = "finally", ![w].entry = TimedOut(@, worker[w].task)]
    /\ UNCHANGED <<in_queue, out_queue, child, pipe, stats, seen, late, shutdown>>

\* with self._stats.get_lock()
StatsFree(w) == stats.lock \subseteq {w}

\* _update_duration_stats, first half: the duration is written
WriteStats(w) ==
    /\ At(w, "stats") /\ StatsFree(w)
    /\ stats' = [stats EXCEPT !.written = @ \cup {stats.idx}, !.lock = {w}]
    /\ worker' = [worker EXCEPT ![w].pc = "advance"]
    /\ UNCHANGED <<in_queue, out_queue, child, pipe, seen, late, shutdown>>

\* "if the stats array is full, overwrite the oldest result"
NextIdx(i) == IF i + 1 >= StatsLimit THEN 0 ELSE i + 1

\* _update_duration_stats, second half: index and count, and the lock is freed
AdvanceStats(w) ==
    /\ At(w, "advance")
    /\ stats' = [stats EXCEPT !.idx = NextIdx(@), !.lock = {},
                              !.count = IF @ < StatsLimit THEN @ + 1 ELSE @]
    /\ worker' = [worker EXCEPT ![w].pc = "finally"]
    /\ UNCHANGED <<in_queue, out_queue, child, pipe, seen, late, shutdown>>

\* Mutant: the child is left alone
WithoutKill(w) == child[w]

\* the finally block: a child that is alive is killed
Killed(w) == IF Alive(w) THEN [child[w] EXCEPT !.state = "exited"] ELSE child[w]

Finally(w) ==
    /\ At(w, "finally")
    /\ child' = [child EXCEPT ![w] = Killed(w)]
    /\ worker' = [worker EXCEPT ![w].pc = "put"]
    /\ UNCHANGED <<in_queue, out_queue, pipe, stats, seen, late, shutdown>>

\* Mutant: a task that timed out is not handed back
PutUnlessTimeout(w) ==
    /\ At(w, "put")
    /\ out_queue' = IF worker[w].entry.kind = "timeout" THEN out_queue
                    ELSE [out_queue EXCEPT ![worker[w].task] = worker[w].entry]
    /\ worker' = [worker EXCEPT ![w].pc = "get", ![w].task = NoTask]
    /\ UNCHANGED <<in_queue, child, pipe, stats, seen, late, shutdown>>

\* _write_result_in_file_object and out_queue.put
Put(w) ==
    /\ At(w, "put")
    /\ out_queue' = [out_queue EXCEPT ![worker[w].task] = worker[w].entry]
    /\ worker' = [worker EXCEPT ![w].pc = "get", ![w].task = NoTask]
    /\ UNCHANGED <<in_queue, child, pipe, stats, seen, late, shutdown>>

-----------------------------------------------------------------------------
(* Shutdown: PluginRunner.shutdown sends a SIGTERM to each worker.         *)

Shutdown ==
    /\ shutdown < Shutdowns
    /\ shutdown' = 1
    /\ UNCHANGED <<in_queue, out_queue, worker, child, pipe, stats, seen, late>>

Terminated(w) ==
    /\ shutdown = 1
    /\ worker[w].run = 1 /\ worker[w].pc # "stopped"
    /\ UNCHANGED <<in_queue, out_queue, seen, late, shutdown>>

\* _handle_sigterm returns at once without a child that is alive
SigtermIdle(w) ==
    /\ Terminated(w) /\ ~Alive(w)
    /\ worker' = [worker EXCEPT ![w].run = 0]
    /\ UNCHANGED <<child, pipe, stats>>

\* _handle_sigterm takes the result out of the pipe into a variable that run()
\* overwrites: nothing uses it
SigtermReceives(w) ==
    /\ Terminated(w) /\ Alive(w) /\ pipe[w] # <<>>
    /\ worker' = [worker EXCEPT ![w].run = 0]
    /\ pipe' = [pipe EXCEPT ![w] = Tail(@)]
    /\ UNCHANGED <<child, stats>>

\* _handle_sigterm raises TimeoutError into the code it interrupts, after
\* SIGTERM_TIMEOUT.  The try block turns it into a timeout (and the statistics
\* are unlocked on the way); in the finally block nothing catches it, and the
\* worker ends with its task and its child.
SigtermRaises(w) ==
    /\ Terminated(w) /\ Alive(w) /\ pipe[w] = <<>>
    /\ IF worker[w].pc = "finally"
       THEN worker' = [worker EXCEPT ![w].run = 0, ![w].pc = "stopped"]
       ELSE worker' = [worker EXCEPT ![w].run = 0, ![w].pc = "finally",
                                     ![w].entry = TimedOut(@, worker[w].task)]
    /\ stats' = [stats EXCEPT !.lock = @ \ {w}]
    /\ UNCHANGED <<child, pipe>>

Sigterm(w) == SigtermIdle(w) \/ SigtermReceives(w) \/ SigtermRaises(w)

-----------------------------------------------------------------------------
Step(w) ==
    \/ \E t \in Tasks : Get(w, t)
    \/ Stop(w) \/ Start(w) \/ PollReady(w) \/ Receive(w) \/ PollTimeout(w)
    \/ WriteStats(w) \/ AdvanceStats(w) \/ Finally(w) \/ Put(w)

Next ==
    \/ \E t \in Tasks : QueueAnalysis(t)
    \/ Shutdown
    \/ \E w \in Workers :
          \/ Step(w) \/ Sigterm(w) \/ ChildExits(w)
          \/ \E kind \in Kinds : ChildSends(w, kind)

Spec == Init /\ [][Next]_vars

\* The operating system runs every worker, and poll returns after its timeout;
\* nothing is assumed of the children, which may hang.
FairSpec == Spec /\ \A w \in Workers : WF_vars(Step(w))

-----------------------------------------------------------------------------
(* Properties.                                                             *)

Entries == [kind: {"none", "timeout"} \cup Kinds, of: Tasks \cup {NoTask}]

\* Each variable has its type; the index of the statistics is one of the array.
TypeOK ==
    /\ in_queue \subseteq Tasks
    /\ out_queue \in [Tasks -> Entries]
    /\ worker \in [Workers -> [pc: {"get", "start", "poll", "recv", "stats", "advance",
                                    "finally", "put", "stopped"},
                               task: Tasks \cup {NoTask}, run: {0, 1}, entry: Entries]]
    /\ child \in [Workers -> [task: Tasks \cup {NoTask},
                              state: {"none", "running", "sent", "exited"}]]
    /\ pipe \in [Workers -> Seq(Entries)]
    /\ stats \in [written: SUBSET (0..StatsLimit - 1), idx: 0..StatsLimit - 1,
                  count: 0..StatsLimit, lock: SUBSET Workers]
    /\ seen \subseteq Tasks
    /\ late \subseteq Workers
    /\ shutdown \in {0, 1}

\* The slots that get_plugin_stats reads (all below the count) were written,
\* whichever workers write the statistics at the same time.
StatsAreWritten == \A i \in 0..stats.count - 1 : i \in stats.written

\* A child does not outlive its task: a worker that waits for the next one, or
\* has stopped in an orderly way, has no child that is alive.
NoChildIsLeft == \A w \in Workers : worker[w].task = NoTask => ~Alive(w)

\* What a worker leaves behind is in order: the ring of durations only counts what
\* was written, and no child outlives its task (Worker.run).
WorkerIsSound ==
    /\ TypeOK
    /\ StatsAreWritten
    /\ NoChildIsLeft

\* A result is only attributed to another task by a worker that was sent a
\* result too late: without timeouts and signals results are never mixed up.
MixedUpOnlyAfterLateResult ==
    \A t \in Tasks : out_queue[t].of \notin {t, NoTask} => late # {}

\* What a task's outcome is for the analysis scheduler.
Outcome(t) ==
    CASE out_queue[t].kind = "analysis" -> "analysis"
      [] out_queue[t].kind \in {"failed", "timeout"} -> "exception"
      [] \E w \in Workers : worker[w].task = t /\ worker[w].pc = "stopped" -> "lost"
      [] OTHER -> "none"

Runner ==
    INSTANCE PluginRunner WITH
        waiting <- in_queue,
        running <- {worker[w].task : w \in {v \in Workers : worker[v].pc # "stopped"}} \ {NoTask},
        outcome <- [t \in Tasks |-> Outcome(t)],
        closing <- shutdown

\* The workers keep the promise of PluginRunner: a task is in one place at any
\* time, comes out once, and is only lost to the signal of a shutdown.
RefinesPluginRunner == Runner!Spec

\* Every task that is queued comes out, also if its child hangs or crashes,
\* unless the back end is shut down.
EveryTaskComesOut ==
    \A t \in Tasks : t \in in_queue ~> out_queue[t].kind # "none" \/ shutdown = 1
=============================================================================
