-------------------------- MODULE PluginWorkerProofs --------------------------
(***************************************************************************)
(* Proofs about PluginWorker: what a worker leaves behind is in order,      *)
(* results are mixed up only after a late one, and the workers of a plugin  *)
(* implement PluginRunner - for any number of workers and tasks, and any    *)
(* size of the ring of durations. And about QemuExec, a plugin with threads *)
(* of its own: which results they lose, for any containers and threads.     *)
(***************************************************************************)
EXTENDS PluginWorker, QemuExec, FiniteSetTheorems, WellFoundedInduction, TLAPS

-----------------------------------------------------------------------------
(* The inductive invariant.                                                *)

Working == {"start", "poll", "recv", "stats", "advance", "finally", "put"}

\* A worker has a task exactly while it works, or if a signal stopped it
TasksOfWorkers ==
    \A w \in Workers :
        /\ worker[w].pc \in Working => worker[w].task \in Tasks
        /\ worker[w].pc = "get" => worker[w].task = NoTask

\* A child is alive only between the start and the end of the finally block, or if
\* a signal stopped its worker there; it works on the worker's task
ChildrenOfWorkers ==
    \A w \in Workers : Alive(w) =>
        /\ worker[w].pc \notin {"get", "start", "put"}
        /\ worker[w].task \in Tasks
        /\ child[w].task = worker[w].task

\* The lock is held between the two halves of _update_duration_stats, in which
\* the current slot is written; until the ring is full the index is the count
RingInv ==
    /\ \A w \in Workers : worker[w].pc = "advance" =>
            stats.lock = {w} /\ stats.idx \in stats.written
    /\ stats.count < StatsLimit => stats.idx = stats.count
    /\ StatsAreWritten

WorkerInv ==
    /\ TypeOK
    /\ TasksOfWorkers
    /\ ChildrenOfWorkers
    /\ RingInv

\* As long as no result was late, the pipe holds at most the result of the child
\* that runs, and only while it is waited for
PipesAreOwn ==
    \A w \in Workers :
        /\ Len(pipe[w]) <= 1
        /\ worker[w].pc \notin {"poll", "recv"} => pipe[w] = <<>>
        /\ child[w].state = "running" => pipe[w] = <<>>
        /\ pipe[w] # <<>> => Head(pipe[w]).of = worker[w].task
        /\ worker[w].pc \in Working => worker[w].entry.of \in {worker[w].task, NoTask}

ResultsAreOwn == \A t \in Tasks : out_queue[t].of \in {t, NoTask}

NotMixedUp == late = {} => PipesAreOwn /\ ResultsAreOwn

\* A task is in one place: it waits, or one worker has it, or it came out
OnePlace ==
    /\ \A t \in Tasks : out_queue[t].kind # "none" => t \in seen /\ t \notin in_queue
    /\ in_queue \subseteq seen
    /\ \A w \in Workers : worker[w].task \in Tasks =>
            /\ worker[w].task \in seen /\ worker[w].task \notin in_queue
            /\ out_queue[worker[w].task].kind = "none"
    /\ \A v, w \in Workers : worker[v].task = worker[w].task /\ v # w => worker[v].task = NoTask

\* A worker that is about to hand a task back has a result for it
ResultsAreThere ==
    \A w \in Workers :
        /\ \A i \in 1..Len(pipe[w]) : pipe[w][i].kind \in Kinds
        /\ worker[w].pc \in {"stats", "advance", "finally", "put"} => worker[w].entry.kind # "none"

HandoverInv == OnePlace /\ ResultsAreThere
-----------------------------------------------------------------------------
(* Types.                                                                  *)

Positions == {"get", "start", "poll", "recv", "stats", "advance", "finally", "put", "stopped"}
WorkerRecords == [pc: Positions, task: Tasks \cup {NoTask}, run: {0, 1}, entry: Entries]
ChildRecords == [task: Tasks \cup {NoTask}, state: {"none", "running", "sent", "exited"}]

\* The fields of what TypeOK types
LEMMA TypeFacts ==
    ASSUME TypeOK, NEW w \in Workers
    PROVE  /\ worker \in [Workers -> WorkerRecords] /\ worker[w] \in WorkerRecords
           /\ worker[w].pc \in Positions /\ worker[w].run \in {0, 1}
           /\ worker[w].task \in Tasks \cup {NoTask} /\ worker[w].entry \in Entries
           /\ child[w] \in ChildRecords
           /\ child[w].task \in Tasks \cup {NoTask}
           /\ child[w].state \in {"none", "running", "sent", "exited"}
           /\ pipe[w] \in Seq(Entries)
BY DEF TypeOK, WorkerRecords, ChildRecords, Positions

\* NoEntry, a timeout and a message are entries
LEMMA EntryFacts ==
    /\ NoEntry \in Entries /\ NoEntry.kind = "none" /\ NoEntry.of = NoTask
    /\ \A t \in Tasks \cup {NoTask}, e \in Entries :
          /\ TimedOut(e, t) \in Entries
          /\ TimedOut(e, t).kind \in {"analysis", "timeout"}
          /\ TimedOut(e, t).of \in {e.of, t}
    /\ \A t \in Tasks \cup {NoTask}, k \in Kinds :
          LET m == [kind |-> k, of |-> t] IN m \in Entries /\ m.kind = k /\ m.of = t
BY DEF NoEntry, Entries, TimedOut, Kinds

\* The next record of a worker, for every action that changes one
LEMMA NextWorker ==
    ASSUME TypeOK, NEW w \in Workers
    PROVE  LET becomes(p, t, r, e) ==
                 worker' = [worker EXCEPT ![w] = [pc |-> p, task |-> t, run |-> r, entry |-> e]]
               my == worker[w]
           IN  /\ \A t \in Tasks : Get(w, t) => becomes("start", t, my.run, NoEntry)
               /\ Stop(w) => becomes("stopped", my.task, my.run, my.entry)
               /\ Start(w) => becomes("poll", my.task, my.run, my.entry)
               /\ PollReady(w) => becomes("recv", my.task, my.run, my.entry)
               /\ Receive(w) => becomes(IF Head(pipe[w]).kind = "analysis" THEN "stats" ELSE "finally",
                                     my.task, my.run, Head(pipe[w]))
               /\ PollTimeout(w) => becomes("finally", my.task, my.run, TimedOut(my.entry, my.task))
               /\ WriteStats(w) => becomes("advance", my.task, my.run, my.entry)
               /\ AdvanceStats(w) => becomes("finally", my.task, my.run, my.entry)
               /\ Finally(w) => becomes("put", my.task, my.run, my.entry)
               /\ Put(w) => becomes("get", NoTask, my.run, my.entry)
               /\ SigtermIdle(w) \/ SigtermReceives(w) => becomes(my.pc, my.task, 0, my.entry)
               /\ SigtermRaises(w) =>
                     IF my.pc = "finally" THEN becomes("stopped", my.task, 0, my.entry)
                     ELSE becomes("finally", my.task, 0, TimedOut(my.entry, my.task))
<1> USE TypeFacts DEF WorkerRecords
<1>1. \A t \in Tasks : Get(w, t) =>
          worker' = [worker EXCEPT ![w] = [pc |-> "start", task |-> t, run |-> worker[w].run,
                                           entry |-> NoEntry]]
  BY DEF Get
<1> QED
  BY <1>1 DEF Stop, Start, PollReady, Receive, PollTimeout, WriteStats, AdvanceStats, Finally, Put,
     SigtermIdle, SigtermReceives, SigtermRaises
\* A step of worker w: its new record, field by field, and the other records
Becomes(w, p, t, r, e) ==
    /\ worker' \in [Workers -> WorkerRecords]
    /\ worker'[w].pc = p /\ worker'[w].task = t /\ worker'[w].run = r /\ worker'[w].entry = e
    /\ \A v \in Workers : v # w => worker'[v] = worker[v]

\* What each step of a worker does to its own record; the other workers keep theirs.
LEMMA WorkerBecomes ==
    ASSUME TypeOK, NEW w \in Workers
    PROVE  LET my == worker[w]
           IN  /\ \A t \in Tasks : Get(w, t) => Becomes(w, "start", t, my.run, NoEntry)
               /\ Stop(w) => Becomes(w, "stopped", my.task, my.run, my.entry)
               /\ Start(w) => Becomes(w, "poll", my.task, my.run, my.entry)
               /\ PollReady(w) => Becomes(w, "recv", my.task, my.run, my.entry)
               /\ Receive(w) =>
                     /\ Head(pipe[w]) \in Entries
                     /\ Becomes(w, IF Head(pipe[w]).kind = "analysis" THEN "stats" ELSE "finally",
                                my.task, my.run, Head(pipe[w]))
               /\ PollTimeout(w) => Becomes(w, "finally", my.task, my.run, TimedOut(my.entry, my.task))
               /\ WriteStats(w) => Becomes(w, "advance", my.task, my.run, my.entry)
               /\ AdvanceStats(w) => Becomes(w, "finally", my.task, my.run, my.entry)
               /\ Finally(w) => Becomes(w, "put", my.task, my.run, my.entry)
               /\ Put(w) => Becomes(w, "get", NoTask, my.run, my.entry)
               /\ SigtermIdle(w) \/ SigtermReceives(w) => Becomes(w, my.pc, my.task, 0, my.entry)
               /\ SigtermRaises(w) =>
                     IF my.pc = "finally" THEN Becomes(w, "stopped", my.task, 0, my.entry)
                     ELSE Becomes(w, "finally", my.task, 0, TimedOut(my.entry, my.task))
<1> DEFINE becomes(p, t, r, e) ==
             worker' = [worker EXCEPT ![w] = [pc |-> p, task |-> t, run |-> r, entry |-> e]]
           my == worker[w]
<1>1. \A p \in Positions, t \in Tasks \cup {NoTask}, r \in {0, 1}, e \in Entries :
          becomes(p, t, r, e) => Becomes(w, p, t, r, e)
  BY TypeFacts DEF Becomes, WorkerRecords
<1>2. my.pc \in Positions /\ my.run \in {0, 1} /\ my.task \in Tasks \cup {NoTask}
      /\ my.entry \in Entries /\ NoTask \in Tasks \cup {NoTask}
      /\ {"get", "start", "poll", "recv", "stats", "advance", "finally", "put", "stopped"}
            \subseteq Positions
  BY TypeFacts DEF Positions
<1>3. Receive(w) => Head(pipe[w]) \in Entries
  BY TypeFacts DEF Receive
<1>4. NoEntry \in Entries /\ TimedOut(my.entry, my.task) \in Entries
  BY <1>2, EntryFacts
<1>5. ASSUME NEW t \in Tasks, Get(w, t) PROVE Becomes(w, "start", t, my.run, NoEntry)
  BY <1>1, <1>2, <1>4, <1>5, NextWorker
<1>6. ASSUME Receive(w)
      PROVE  Becomes(w, IF Head(pipe[w]).kind = "analysis" THEN "stats" ELSE "finally",
                     my.task, my.run, Head(pipe[w]))
  <2> DEFINE p == IF Head(pipe[w]).kind = "analysis" THEN "stats" ELSE "finally"
  <2>1. p \in Positions
    BY <1>2
  <2>2. becomes(p, my.task, my.run, Head(pipe[w]))
    BY <1>6, NextWorker
  <2>3. Becomes(w, p, my.task, my.run, Head(pipe[w]))
    <3> HIDE DEF p, becomes, my
    <3> QED
      BY <1>1, <1>2, <1>3, <1>6, <2>1, <2>2
  <2> QED
    BY <2>3
<1>7. ASSUME SigtermRaises(w)
      PROVE  IF my.pc = "finally" THEN Becomes(w, "stopped", my.task, 0, my.entry)
             ELSE Becomes(w, "finally", my.task, 0, TimedOut(my.entry, my.task))
  BY <1>1, <1>2, <1>4, <1>7, NextWorker
<1>8. /\ Stop(w) => Becomes(w, "stopped", my.task, my.run, my.entry)
      /\ Start(w) => Becomes(w, "poll", my.task, my.run, my.entry)
      /\ PollReady(w) => Becomes(w, "recv", my.task, my.run, my.entry)
      /\ PollTimeout(w) => Becomes(w, "finally", my.task, my.run, TimedOut(my.entry, my.task))
      /\ WriteStats(w) => Becomes(w, "advance", my.task, my.run, my.entry)
  BY <1>1, <1>2, <1>4, NextWorker
<1>9. /\ AdvanceStats(w) => Becomes(w, "finally", my.task, my.run, my.entry)
      /\ Finally(w) => Becomes(w, "put", my.task, my.run, my.entry)
      /\ Put(w) => Becomes(w, "get", NoTask, my.run, my.entry)
      /\ SigtermIdle(w) \/ SigtermReceives(w) => Becomes(w, my.pc, my.task, 0, my.entry)
  BY <1>1, <1>2, <1>4, NextWorker
<1> QED
  BY <1>3, <1>5, <1>6, <1>7, <1>8, <1>9
-----------------------------------------------------------------------------
(* Every step keeps WorkerInv.                                             *)

\* A runner that has just been started satisfies the invariant.
LEMMA WorkerInit == Init => WorkerInv
<1> SUFFICES ASSUME Init PROVE WorkerInv
  OBVIOUS
<1>1. TypeOK
  BY WorkerConstants, EntryFacts DEF Init, TypeOK, Idle
<1>2. TasksOfWorkers /\ ChildrenOfWorkers
  BY DEF Init, TasksOfWorkers, ChildrenOfWorkers, Idle, Working, Alive
<1>3. RingInv
  BY WorkerConstants DEF Init, RingInv, StatsAreWritten, Idle
<1> QED
  BY <1>1, <1>2, <1>3 DEF WorkerInv

\* The child of a worker sends its result, exits or crashes.
LEMMA ChildStep ==
    ASSUME WorkerInv, NEW w \in Workers,
           ChildExits(w) \/ \E kind \in Kinds : ChildSends(w, kind)
    PROVE  WorkerInv'
<1> USE DEF WorkerInv
<1>1. UNCHANGED <<worker, stats>>
  BY DEF ChildExits, ChildSends
<1>2. TypeOK'
  <2>1. CASE ChildExits(w)
    BY <2>1 DEF ChildExits, TypeOK
  <2>2. ASSUME NEW kind \in Kinds, ChildSends(w, kind) PROVE TypeOK'
    <3>1. [kind |-> kind, of |-> child[w].task] \in Entries
      BY TypeFacts, EntryFacts
    <3>2. pipe' \in [Workers -> Seq(Entries)]
      BY <2>2, <3>1, TypeFacts DEF ChildSends, TypeOK
    <3> QED
      BY <2>2, <3>2 DEF ChildSends, TypeOK
  <2> QED
    BY <2>1, <2>2
<1>3. ASSUME NEW v \in Workers
      PROVE  (Alive(v)' => Alive(v)) /\ child'[v].task = child[v].task
  <2>1. /\ Alive(w)
        /\ \E s \in {"sent", "exited"} : child' = [child EXCEPT ![w].state = s]
    BY DEF ChildExits, ChildSends, Alive
  <2>2. child \in [Workers -> ChildRecords]
    BY DEF TypeOK, ChildRecords
  <2>3. v # w => child'[v] = child[v]
    BY <2>1, <2>2
  <2>4. child'[w].task = child[w].task
    BY <2>1, <2>2 DEF ChildRecords
  <2> QED
    BY <2>1, <2>3, <2>4 DEF Alive
<1>4. (TasksOfWorkers /\ ChildrenOfWorkers /\ RingInv)'
  BY <1>1, <1>3 DEF TasksOfWorkers, ChildrenOfWorkers, RingInv, StatsAreWritten
<1> QED
  BY <1>2, <1>4

\* What a step of a worker has to respect: a position to work at comes with a
\* task, and a child that is alive with a position between start and finally
LEMMA MoveStep ==
    ASSUME WorkerInv, NEW w \in Workers, NEW p, NEW t, NEW r, NEW e,
           Becomes(w, p, t, r, e),
           p \in Working => t \in Tasks,
           p = "get" => t = NoTask,
           \A v \in Workers : v # w => child'[v] = child[v],
           Alive(w)' => p \notin {"get", "start", "put"} /\ t \in Tasks /\ child'[w].task = t
    PROVE  (TasksOfWorkers /\ ChildrenOfWorkers)'
<1>1. TasksOfWorkers'
  BY DEF WorkerInv, Becomes, TasksOfWorkers
<1>2. ChildrenOfWorkers'
  BY DEF WorkerInv, Becomes, ChildrenOfWorkers, Alive
<1> QED
  BY <1>1, <1>2

\* The ring is left alone, and nobody comes between the two halves
LEMMA RingStep ==
    ASSUME WorkerInv, NEW w \in Workers, NEW p, NEW t, NEW r, NEW e,
           Becomes(w, p, t, r, e), stats' = stats, p = "advance" => worker[w].pc = "advance"
    PROVE  RingInv'
BY DEF WorkerInv, Becomes, RingInv, StatsAreWritten

\* Types of the variables that a step of a worker changes
LEMMA TypeStep ==
    ASSUME WorkerInv, NEW w \in Workers, NEW p, NEW t, NEW r, NEW e,
           Becomes(w, p, t, r, e),
           in_queue' \subseteq in_queue, UNCHANGED <<seen, late, shutdown>>,
           out_queue' = out_queue \/ \E u \in Tasks, m \in Entries :
                                        out_queue' = [out_queue EXCEPT ![u] = m],
           child' = child \/ \E c \in ChildRecords : child' = [child EXCEPT ![w] = c],
           pipe' = pipe \/ (pipe[w] # <<>> /\ pipe' = [pipe EXCEPT ![w] = Tail(@)]),
           stats' \in [written: SUBSET (0..StatsLimit - 1), idx: 0..StatsLimit - 1,
                       count: 0..StatsLimit, lock: SUBSET Workers]
    PROVE  TypeOK'
<1>1. worker' \in [Workers -> WorkerRecords]
  BY DEF Becomes
<1>2. out_queue' \in [Tasks -> Entries] /\ in_queue' \subseteq Tasks
  <2>1. out_queue \in [Tasks -> Entries] /\ in_queue \subseteq Tasks
    BY DEF WorkerInv, TypeOK
  <2> QED
    BY <2>1
<1>3. child' \in [Workers -> ChildRecords]
  BY DEF WorkerInv, TypeOK, ChildRecords
<1>4. pipe' \in [Workers -> Seq(Entries)]
  <2>1. pipe \in [Workers -> Seq(Entries)] /\ pipe[w] \in Seq(Entries)
    BY DEF WorkerInv, TypeOK
  <2>2. pipe[w] # <<>> => Tail(pipe[w]) \in Seq(Entries)
    BY <2>1
  <2> QED
    BY <2>1, <2>2
<1> QED
  BY <1>1, <1>2, <1>3, <1>4 DEF WorkerInv, TypeOK, WorkerRecords, ChildRecords, Positions

\* Steps of a worker that change neither its child nor the statistics
LEMMA PlainStep ==
    ASSUME WorkerInv, NEW w \in Workers,
           \/ \E t \in Tasks : Get(w, t)
           \/ Stop(w) \/ PollReady(w) \/ Receive(w) \/ PollTimeout(w) \/ Put(w)
           \/ SigtermIdle(w) \/ SigtermReceives(w)
    PROVE  WorkerInv'
<1> DEFINE my == worker[w]
<1>0. /\ TypeOK
      /\ my.pc \in Working => my.task \in Tasks
      /\ my.pc = "get" => my.task = NoTask
      /\ Alive(w) => my.pc \notin {"get", "start", "put"} /\ my.task \in Tasks /\ child[w].task = my.task
  BY DEF WorkerInv, TasksOfWorkers, ChildrenOfWorkers
<1>1. UNCHANGED <<child, stats, seen, late, shutdown>> /\ in_queue' \subseteq in_queue
  BY DEF Get, Stop, PollReady, Receive, PollTimeout, Put, SigtermIdle, SigtermReceives, Terminated
<1>2. /\ pipe' = pipe \/ (pipe[w] # <<>> /\ pipe' = [pipe EXCEPT ![w] = Tail(@)])
      /\ out_queue' = out_queue \/ \E u \in Tasks, m \in Entries :
                                   out_queue' = [out_queue EXCEPT ![u] = m]
  <2>1. CASE Put(w)
    <3>1. my.task \in Tasks /\ my.entry \in Entries
      BY <1>0, <2>1, TypeFacts DEF Put, At, Working
    <3>2. pipe' = pipe /\ out_queue' = [out_queue EXCEPT ![my.task] = my.entry]
      BY <2>1 DEF Put
    <3> HIDE DEF my
    <3> QED
      BY <3>1, <3>2
  <2>2. CASE ~Put(w)
    <3>1. out_queue' = out_queue
      BY <2>2 DEF Get, Stop, PollReady, Receive, PollTimeout, SigtermIdle, SigtermReceives,
         Terminated
    <3>2. pipe' = pipe \/ (pipe[w] # <<>> /\ pipe' = [pipe EXCEPT ![w] = Tail(@)])
      BY <2>2 DEF Get, Stop, PollReady, Receive, PollTimeout, SigtermIdle, SigtermReceives,
         Terminated
    <3> QED
      BY <3>1, <3>2
  <2> QED
    BY <2>1, <2>2
<1> DEFINE ok(p, t, r, e) ==
             /\ Becomes(w, p, t, r, e)
             /\ p \in Working => t \in Tasks
             /\ p = "get" => t = NoTask
             /\ Alive(w) => p \notin {"get", "start", "put"} /\ t = my.task
             /\ p = "advance" => my.pc = "advance"
<1>3. \E p, t, r, e : ok(p, t, r, e)
  <2>1. \A t \in Tasks : Get(w, t) => ok("start", t, my.run, NoEntry)
    BY <1>0, WorkerBecomes DEF Get, At, Working
  <2>2. Stop(w) => ok("stopped", my.task, my.run, my.entry)
    BY <1>0, WorkerBecomes DEF Stop, At, Working
  <2>3. PollReady(w) => ok("recv", my.task, my.run, my.entry)
    BY <1>0, WorkerBecomes DEF PollReady, At, Working
  <2>4. Receive(w) => ok(IF Head(pipe[w]).kind = "analysis" THEN "stats" ELSE "finally",
                         my.task, my.run, Head(pipe[w]))
    BY <1>0, WorkerBecomes DEF Receive, At, Working
  <2>5. PollTimeout(w) => ok("finally", my.task, my.run, TimedOut(my.entry, my.task))
    BY <1>0, WorkerBecomes DEF PollTimeout, At, Working
  <2>6. Put(w) => ok("get", NoTask, my.run, my.entry)
    BY <1>0, WorkerBecomes DEF Put, At, Working
  <2>7. SigtermIdle(w) \/ SigtermReceives(w) => ok(my.pc, my.task, 0, my.entry)
    BY <1>0, WorkerBecomes
  <2> HIDE DEF ok, my
  <2> QED
    BY <2>1, <2>2, <2>3, <2>4, <2>5, <2>6, <2>7
<1>4. (TasksOfWorkers /\ ChildrenOfWorkers)'
  BY <1>0, <1>1, <1>3, MoveStep DEF Alive
<1>5. RingInv'
  BY <1>1, <1>3, RingStep
<1>6. TypeOK'
  <2>1. stats' \in [written: SUBSET (0..StatsLimit - 1), idx: 0..StatsLimit - 1,
                    count: 0..StatsLimit, lock: SUBSET Workers]
    BY <1>0, <1>1 DEF TypeOK
  <2> QED
    BY <1>1, <1>2, <1>3, <2>1, TypeStep
<1> QED
  BY <1>4, <1>5, <1>6 DEF WorkerInv
\* A child is started for the task, and killed in the finally block.
LEMMA StartFinallyStep ==
    ASSUME WorkerInv, NEW w \in Workers, Start(w) \/ Finally(w)
    PROVE  WorkerInv'
<1> DEFINE my == worker[w]
           c == IF my.pc = "start" THEN [task |-> my.task, state |-> "running"] ELSE Killed(w)
           p == IF my.pc = "start" THEN "poll" ELSE "put"
<1>0. TypeOK /\ my.pc \in {"start", "finally"} /\ my.task \in Tasks
  BY DEF WorkerInv, TasksOfWorkers, Start, Finally, At, Working
<1>1. c \in ChildRecords
  BY <1>0, TypeFacts DEF ChildRecords, Killed
<1>2. child' = [child EXCEPT ![w] = c] /\ UNCHANGED <<stats, seen, late, shutdown, in_queue, out_queue, pipe>>
  BY <1>0 DEF Start, Finally, At
<1>3. Becomes(w, p, my.task, my.run, my.entry)
  BY <1>0, WorkerBecomes DEF Start, Finally, At
<1>4. child'[w] = c /\ \A v \in Workers : v # w => child'[v] = child[v]
  BY <1>0, <1>2 DEF TypeOK
<1>5. Alive(w)' => p = "poll" /\ child'[w].task = my.task
  BY <1>0, <1>4, TypeFacts DEF Alive, Killed, ChildRecords
<1>6. (TasksOfWorkers /\ ChildrenOfWorkers)'
  <2>1. p \notin {"get", "advance"}
    OBVIOUS
  <2>2. p \in Working => my.task \in Tasks
    BY <1>0
  <2>3. Alive(w)' => p \notin {"get", "start", "put"} /\ my.task \in Tasks /\ child'[w].task = my.task
    BY <1>0, <1>5
  <2> HIDE DEF p, my, c
  <2> QED
    BY <1>3, <1>4, <2>1, <2>2, <2>3, MoveStep
<1>7. RingInv'
  <2>1. p # "advance"
    OBVIOUS
  <2> HIDE DEF p, my, c
  <2> QED
    BY <1>2, <1>3, <2>1, RingStep
<1>8. TypeOK'
  <2>1. stats' \in [written: SUBSET (0..StatsLimit - 1), idx: 0..StatsLimit - 1,
                    count: 0..StatsLimit, lock: SUBSET Workers]
    BY <1>0, <1>2 DEF TypeOK
  <2> HIDE DEF p, my, c
  <2> QED
    BY <1>1, <1>2, <1>3, <2>1, TypeStep
<1> QED
  BY <1>6, <1>7, <1>8 DEF WorkerInv

\* _update_duration_stats in two halves, and the signal that may come between
\* them: the exception frees the lock, the index does not move.
LEMMA StatsStep ==
    ASSUME WorkerInv, NEW w \in Workers, WriteStats(w) \/ AdvanceStats(w) \/ SigtermRaises(w)
    PROVE  WorkerInv'
<1> DEFINE my == worker[w]
           S == [written: SUBSET (0..StatsLimit - 1), idx: 0..StatsLimit - 1,
                 count: 0..StatsLimit, lock: SUBSET Workers]
           ok(p, t, r, e) ==
             /\ Becomes(w, p, t, r, e)
             /\ p \notin {"get", "start", "put"}
             /\ t = my.task
             /\ p \in Working => t \in Tasks
             /\ p = "advance" <=> WriteStats(w)
<1>0. /\ TypeOK
      /\ my.pc \in Working => my.task \in Tasks
      /\ Alive(w) => my.pc \notin {"get", "start", "put"} /\ my.task \in Tasks /\ child[w].task = my.task
  BY DEF WorkerInv, TasksOfWorkers, ChildrenOfWorkers
<1>1. stats \in S /\ StatsLimit \in Nat \ {0}
  BY <1>0, WorkerConstants DEF TypeOK
<1>2. UNCHANGED <<child, seen, late, shutdown, in_queue, out_queue, pipe>>
  BY DEF WriteStats, AdvanceStats, SigtermRaises, Terminated
<1>3. \E p, t, r, e : ok(p, t, r, e)
  <2>1. WriteStats(w) => ok("advance", my.task, my.run, my.entry)
    BY <1>0, WorkerBecomes DEF WriteStats, At, Working
  <2>2. AdvanceStats(w) => ok("finally", my.task, my.run, my.entry)
    BY <1>0, WorkerBecomes DEF WriteStats, AdvanceStats, At, Working
  <2>3. SigtermRaises(w) /\ my.pc = "finally" => ok("stopped", my.task, 0, my.entry)
    BY <1>0, WorkerBecomes DEF WriteStats, SigtermRaises, At, Working
  <2>4. SigtermRaises(w) /\ my.pc # "finally"
            => ok("finally", my.task, 0, TimedOut(my.entry, my.task))
    <3>1. SigtermRaises(w) => ~WriteStats(w)
      <4>1. SigtermRaises(w) => worker'[w].run = 0 /\ my.run = 1
        BY <1>0, WorkerBecomes DEF SigtermRaises, Terminated, Becomes
      <4>2. WriteStats(w) => worker'[w].run = my.run
        BY <1>0, WorkerBecomes DEF Becomes
      <4> QED
        BY <4>1, <4>2
    <3> QED
      BY <1>0, <3>1, WorkerBecomes DEF SigtermRaises, Terminated
  <2> HIDE DEF ok, my
  <2> QED
    BY <2>1, <2>2, <2>3, <2>4
<1>4. (TasksOfWorkers /\ ChildrenOfWorkers)'
  BY <1>0, <1>2, <1>3, MoveStep DEF Alive
<1>5. stats' \in S
  <2>1. CASE WriteStats(w)
    BY <1>1, <2>1 DEF WriteStats
  <2>2. CASE AdvanceStats(w)
    <3> DEFINE n == IF stats.count < StatsLimit THEN stats.count + 1 ELSE stats.count
    <3>1. NextIdx(stats.idx) \in 0..StatsLimit - 1 /\ n \in 0..StatsLimit
      BY <1>1 DEF NextIdx
    <3>2. stats' = [stats EXCEPT !.idx = NextIdx(stats.idx), !.lock = {}, !.count = n]
      BY <2>2 DEF AdvanceStats
    <3> HIDE DEF n
    <3> QED
      BY <1>1, <3>1, <3>2
  <2>3. CASE SigtermRaises(w)
    BY <1>1, <2>3 DEF SigtermRaises
  <2> QED
    BY <2>1, <2>2, <2>3
<1>6. TypeOK'
  BY <1>2, <1>3, <1>5, TypeStep
<1>7. RingInv'
  <2>0. RingInv /\ \A v \in Workers : v # w => worker'[v] = worker[v]
    BY <1>3 DEF WorkerInv, Becomes
  <2>1. CASE WriteStats(w)
    <3>1. /\ stats'.written = stats.written \cup {stats.idx} /\ stats'.lock = {w}
          /\ stats'.idx = stats.idx /\ stats'.count = stats.count
      BY <1>1, <2>1 DEF WriteStats
    <3>2. \A v \in Workers : v # w => worker[v].pc # "advance"
      BY <2>0, <2>1 DEF WriteStats, StatsFree, RingInv
    <3> QED
      BY <2>0, <3>1, <3>2, <1>1 DEF RingInv, StatsAreWritten
  <2>2. CASE AdvanceStats(w)
    <3>1. /\ stats'.written = stats.written /\ stats'.lock = {}
          /\ stats'.idx = NextIdx(stats.idx)
          /\ stats'.count = IF stats.count < StatsLimit THEN stats.count + 1 ELSE stats.count
      BY <1>1, <2>2 DEF AdvanceStats
    <3>2. \A v \in Workers : v # w => worker[v].pc # "advance"
      BY <2>0, <2>2 DEF AdvanceStats, At, RingInv
    <3>3. worker'[w].pc # "advance" /\ stats.idx \in stats.written
      BY <1>0, <2>0, <2>2, WorkerBecomes DEF Becomes, AdvanceStats, At, RingInv
    <3>4. (stats.count < StatsLimit => stats.idx = stats.count)'
      BY <1>1, <2>0, <3>1 DEF RingInv, NextIdx
    <3>5. StatsAreWritten'
      BY <1>1, <2>0, <3>1, <3>3 DEF RingInv, StatsAreWritten
    <3> QED
      BY <2>0, <3>2, <3>3, <3>4, <3>5 DEF RingInv
  <2>3. CASE SigtermRaises(w)
    <3>1. /\ stats'.written = stats.written /\ stats'.lock = stats.lock \ {w}
          /\ stats'.idx = stats.idx /\ stats'.count = stats.count
      BY <1>1, <2>3 DEF SigtermRaises
    <3>2. worker'[w].pc # "advance"
      BY <1>0, <2>3, WorkerBecomes DEF Becomes
    <3> QED
      BY <2>0, <3>1, <3>2 DEF RingInv, StatsAreWritten
  <2> QED
    BY <2>1, <2>2, <2>3
<1> QED
  BY <1>4, <1>6, <1>7 DEF WorkerInv

\* The invariant holds in every reachable state.
LEMMA WorkerInvariant == Spec => []WorkerInv
<1>1. WorkerInv /\ [Next]_vars => WorkerInv'
  <2> SUFFICES ASSUME WorkerInv, [Next]_vars PROVE WorkerInv'
    OBVIOUS
  <2>1. ASSUME NEW t \in Tasks, QueueAnalysis(t) PROVE WorkerInv'
    <3>1. UNCHANGED <<out_queue, worker, child, pipe, stats, late, shutdown>>
          /\ in_queue' = in_queue \cup {t} /\ seen' = seen \cup {t}
      BY <2>1 DEF QueueAnalysis
    <3>2. TypeOK'
      BY <3>1 DEF WorkerInv, TypeOK
    <3> QED
      BY <3>1, <3>2 DEF WorkerInv, TasksOfWorkers, ChildrenOfWorkers, Alive, RingInv,
         StatsAreWritten
  <2>2. CASE Shutdown
    <3>1. UNCHANGED <<in_queue, out_queue, worker, child, pipe, stats, seen, late>> /\ shutdown' = 1
      BY <2>2 DEF Shutdown
    <3>2. TypeOK'
      BY <3>1 DEF WorkerInv, TypeOK
    <3> QED
      BY <3>1, <3>2 DEF WorkerInv, TasksOfWorkers, ChildrenOfWorkers, Alive, RingInv,
         StatsAreWritten
  <2>3. ASSUME NEW w \in Workers, Step(w) \/ Sigterm(w) PROVE WorkerInv'
    BY <2>3, PlainStep, StartFinallyStep, StatsStep DEF Step, Sigterm
  <2>4. ASSUME NEW w \in Workers, ChildExits(w) \/ \E kind \in Kinds : ChildSends(w, kind)
        PROVE  WorkerInv'
    BY <2>4, ChildStep
  <2>5. CASE UNCHANGED vars
    BY <2>5 DEF vars, WorkerInv, TypeOK, TasksOfWorkers, ChildrenOfWorkers, Alive, RingInv,
       StatsAreWritten
  <2> QED
    BY <2>1, <2>2, <2>3, <2>4, <2>5 DEF Next
<1> QED
  BY <1>1, WorkerInit, PTL DEF Spec

\* Whatever children and signals do: the slots of the ring that are counted were
\* written (_update_duration_stats, get_plugin_stats), and no child outlives the
\* task of its worker unless a signal ended the worker in its finally block.
THEOREM SoundWorkers == Spec => []WorkerIsSound
<1>1. WorkerInv => WorkerIsSound
  <2> SUFFICES ASSUME WorkerInv PROVE NoChildIsLeft
    BY DEF WorkerInv, RingInv, WorkerIsSound
  <2> QED
    BY WorkerConstants DEF WorkerInv, ChildrenOfWorkers, NoChildIsLeft
<1> QED
  BY <1>1, WorkerInvariant, PTL
-----------------------------------------------------------------------------
(* Results are mixed up only after a late one.                             *)

\* The clauses of PipesAreOwn for one worker
OwnPipe(w) ==
    /\ Len(pipe[w]) <= 1
    /\ worker[w].pc \notin {"poll", "recv"} => pipe[w] = <<>>
    /\ child[w].state = "running" => pipe[w] = <<>>
    /\ pipe[w] # <<>> => Head(pipe[w]).of = worker[w].task
    /\ worker[w].pc \in Working => worker[w].entry.of \in {worker[w].task, NoTask}

\* A worker that does nothing keeps its pipe.
LEMMA OtherPipes ==
    ASSUME PipesAreOwn, NEW w \in Workers, OwnPipe(w)',
           \A v \in Workers : v # w => /\ worker'[v] = worker[v] /\ child'[v] = child[v]
                                       /\ pipe'[v] = pipe[v]
    PROVE  PipesAreOwn'
BY DEF PipesAreOwn, OwnPipe

\* A step of a worker or its child that is not late.
LEMMA OwnStep ==
    ASSUME WorkerInv, PipesAreOwn, ResultsAreOwn, late' = {}, NEW w \in Workers,
           \/ Step(w) \/ Sigterm(w) \/ ChildExits(w)
           \/ \E kind \in Kinds : ChildSends(w, kind)
    PROVE  PipesAreOwn' /\ ResultsAreOwn'
<1> DEFINE my == worker[w]
<1>0. /\ TypeOK /\ TasksOfWorkers
      /\ OwnPipe(w)
      /\ pipe[w] \in Seq(Entries) /\ my.task \in Tasks \cup {NoTask} /\ my.entry \in Entries
      /\ Alive(w) => my.pc \notin {"get", "start", "put"} /\ child[w].task = my.task
  BY TypeFacts DEF WorkerInv, PipesAreOwn, OwnPipe, ChildrenOfWorkers
<1>1. \A v \in Workers : v # w => child'[v] = child[v] /\ pipe'[v] = pipe[v]
  BY <1>0 DEF Step, Sigterm, Get, Stop, Start, PollReady, Receive, PollTimeout, WriteStats,
     AdvanceStats, Finally, Put, SigtermIdle, SigtermReceives, SigtermRaises, Terminated,
     ChildExits, ChildSends, TypeOK
<1>2. ASSUME NEW t \in Tasks, Get(w, t) PROVE OwnPipe(w)' /\ ResultsAreOwn'
  BY <1>0, <1>2, WorkerBecomes, EntryFacts DEF Get, At, Becomes, OwnPipe, ResultsAreOwn
<1>3. ASSUME Stop(w) PROVE OwnPipe(w)' /\ ResultsAreOwn'
  BY <1>0, <1>3, WorkerBecomes DEF Stop, At, Becomes, OwnPipe, ResultsAreOwn, Working
<1>4. ASSUME Start(w) PROVE OwnPipe(w)' /\ ResultsAreOwn'
  BY <1>0, <1>4, WorkerBecomes DEF Start, At, Becomes, OwnPipe, ResultsAreOwn, Working
<1>5. ASSUME PollReady(w) PROVE OwnPipe(w)' /\ ResultsAreOwn'
  BY <1>0, <1>5, WorkerBecomes DEF PollReady, At, Becomes, OwnPipe, ResultsAreOwn, Working
<1>6. ASSUME Receive(w) PROVE OwnPipe(w)' /\ ResultsAreOwn'
  <2>1. pipe'[w] = <<>>
    BY <1>0, <1>6 DEF Receive, OwnPipe, TypeOK
  <2>2. /\ worker'[w].task = my.task /\ worker'[w].entry = Head(pipe[w])
        /\ worker'[w].pc \in {"stats", "finally"}
    BY <1>0, <1>6, WorkerBecomes DEF Becomes
  <2>3. Head(pipe[w]).of = my.task /\ out_queue' = out_queue
    BY <1>0, <1>6 DEF Receive, OwnPipe
  <2> QED
    BY <2>1, <2>2, <2>3 DEF OwnPipe, ResultsAreOwn
<1>7. ASSUME PollTimeout(w) PROVE OwnPipe(w)' /\ ResultsAreOwn'
  <2>1. /\ worker'[w].task = my.task /\ worker'[w].entry = TimedOut(my.entry, my.task)
        /\ worker'[w].pc = "finally"
    BY <1>0, <1>7, WorkerBecomes DEF Becomes
  <2>2. TimedOut(my.entry, my.task).of \in {my.entry.of, my.task}
    BY <1>0, EntryFacts
  <2>3. my.entry.of \in {my.task, NoTask} /\ pipe' = pipe /\ pipe[w] = <<>> /\ out_queue' = out_queue
    BY <1>0, <1>7 DEF PollTimeout, At, OwnPipe, Working
  <2> QED
    BY <1>0, <2>1, <2>2, <2>3 DEF OwnPipe, ResultsAreOwn
<1>8. ASSUME WriteStats(w) \/ AdvanceStats(w) PROVE OwnPipe(w)' /\ ResultsAreOwn'
  BY <1>0, <1>8, WorkerBecomes DEF WriteStats, AdvanceStats, At, Becomes, OwnPipe, ResultsAreOwn,
     Working
<1>9. ASSUME Finally(w) PROVE OwnPipe(w)' /\ ResultsAreOwn'
  <2>1. child'[w].state # "running"
    BY <1>0, <1>9, TypeFacts DEF Finally, Killed, Alive, TypeOK, ChildRecords
  <2> QED
    BY <1>0, <1>9, <2>1, WorkerBecomes DEF Finally, At, Becomes, OwnPipe, ResultsAreOwn, Working
<1>10. ASSUME Put(w) PROVE OwnPipe(w)' /\ ResultsAreOwn'
  <2>1. my.entry.of \in {my.task, NoTask} /\ my.task \in Tasks
    BY <1>0, <1>10 DEF Put, At, OwnPipe, TasksOfWorkers, Working
  <2>2. ResultsAreOwn'
    BY <1>0, <1>10, <2>1 DEF Put, ResultsAreOwn, TypeOK
  <2> QED
    BY <1>0, <1>10, <2>2, WorkerBecomes DEF Put, At, Becomes, OwnPipe, Working
<1>11. ASSUME SigtermIdle(w) PROVE OwnPipe(w)' /\ ResultsAreOwn'
  BY <1>0, <1>11, WorkerBecomes DEF SigtermIdle, Terminated, Becomes, OwnPipe, ResultsAreOwn
<1>12. ASSUME SigtermReceives(w) PROVE OwnPipe(w)' /\ ResultsAreOwn'
  <2>1. pipe'[w] = <<>>
    BY <1>0, <1>12 DEF SigtermReceives, OwnPipe, TypeOK
  <2>2. /\ worker'[w].pc = my.pc /\ worker'[w].task = my.task
        /\ worker'[w].entry = my.entry
    BY <1>0, <1>12, WorkerBecomes DEF Becomes
  <2>3. out_queue' = out_queue
    BY <1>12 DEF SigtermReceives, Terminated
  <2> QED
    BY <1>0, <2>1, <2>2, <2>3 DEF OwnPipe, ResultsAreOwn
<1>13. ASSUME SigtermRaises(w) PROVE OwnPipe(w)' /\ ResultsAreOwn'
  <2>1. my.task \in Tasks /\ my.pc # "get"
    BY <1>0, <1>13 DEF WorkerInv, ChildrenOfWorkers, SigtermRaises
  <2>2. TimedOut(my.entry, my.task).of \in {my.entry.of, my.task}
    BY <1>0, EntryFacts
  <2>3. my.pc \in Working
    BY <1>0, <1>13, <2>1, TypeFacts DEF SigtermRaises, Terminated, Positions, Working
  <2> QED
    BY <1>0, <1>13, <2>1, <2>2, <2>3, WorkerBecomes DEF SigtermRaises, Terminated, Becomes, OwnPipe,
       ResultsAreOwn, Working
<1>14. ASSUME ChildExits(w) PROVE OwnPipe(w)' /\ ResultsAreOwn'
  <2>1. child'[w].state = "exited"
    BY <1>0, <1>14 DEF ChildExits, TypeOK
  <2> QED
    BY <1>0, <1>14, <2>1 DEF ChildExits, OwnPipe, ResultsAreOwn
<1>15. ASSUME NEW kind \in Kinds, ChildSends(w, kind) PROVE OwnPipe(w)' /\ ResultsAreOwn'
  <2>1. child'[w].state = "sent" /\ worker' = worker /\ out_queue' = out_queue
        /\ my.pc \in {"poll", "recv"} /\ child[w].task = my.task
    BY <1>0, <1>15 DEF ChildSends, TypeOK, Alive
  <2>2. pipe[w] = <<>>
    BY <1>0, <1>15 DEF OwnPipe, ChildSends
  <2> DEFINE m == [kind |-> kind, of |-> child[w].task]
  <2>3. m \in Entries /\ m.of = my.task
    BY <1>0, <2>1, TypeFacts, EntryFacts
  <2>4. pipe'[w] = <<m>>
    BY <1>0, <1>15, <2>2, <2>3 DEF ChildSends, TypeOK
  <2> QED
    BY <1>0, <2>1, <2>3, <2>4 DEF OwnPipe, ResultsAreOwn
<1>16. OwnPipe(w)' /\ ResultsAreOwn'
  BY <1>2, <1>3, <1>4, <1>5, <1>6, <1>7, <1>8, <1>9, <1>10, <1>11, <1>12, <1>13, <1>14, <1>15
     DEF Step, Sigterm
<1>17. \A v \in Workers : v # w => worker'[v] = worker[v]
  BY <1>0, WorkerBecomes DEF Step, Sigterm, ChildExits, ChildSends, Becomes
<1> QED
  BY <1>1, <1>16, <1>17, OtherPipes

\* A result is attributed to another task only by a plugin one of whose workers
\* was sent a result after it had stopped waiting for it (the pipe is made once
\* for all children of a worker).
THEOREM ResultsStayApart == Spec => []MixedUpOnlyAfterLateResult
<1>1. Init => NotMixedUp
  BY EntryFacts DEF Init, NotMixedUp, PipesAreOwn, ResultsAreOwn, Idle, Working
<1>2. WorkerInv /\ NotMixedUp /\ [Next]_vars => NotMixedUp'
  <2> SUFFICES ASSUME WorkerInv, NotMixedUp, [Next]_vars, late' = {}
               PROVE  PipesAreOwn' /\ ResultsAreOwn'
    BY DEF NotMixedUp
  <2>1. late = {}
    <3>1. ASSUME NEW w \in Workers, Step(w) PROVE late' = late
      BY <3>1 DEF Step, Get, Stop, Start, PollReady, Receive, PollTimeout, WriteStats,
         AdvanceStats, Finally, Put
    <3>2. ASSUME NEW w \in Workers, Sigterm(w) PROVE late' = late
      BY <3>2 DEF Sigterm, SigtermIdle, SigtermReceives, SigtermRaises, Terminated
    <3>3. ASSUME NEW w \in Workers, ChildExits(w) PROVE late' = late
      BY <3>3 DEF ChildExits
    <3>4. ASSUME NEW w \in Workers, NEW kind \in Kinds, ChildSends(w, kind) PROVE late \subseteq late'
      BY <3>4 DEF ChildSends
    <3>5. CASE Shutdown \/ UNCHANGED vars \/ \E t \in Tasks : QueueAnalysis(t)
      BY <3>5 DEF vars, QueueAnalysis, Shutdown
    <3> QED
      BY <3>1, <3>2, <3>3, <3>4, <3>5 DEF Next
  <2>2. PipesAreOwn /\ ResultsAreOwn
    BY <2>1 DEF NotMixedUp
  <2>3. CASE \E w \in Workers : \/ Step(w) \/ Sigterm(w) \/ ChildExits(w)
                               \/ \E kind \in Kinds : ChildSends(w, kind)
    BY <2>2, <2>3, OwnStep
  <2>4. CASE (\E t \in Tasks : QueueAnalysis(t)) \/ Shutdown \/ UNCHANGED vars
    <3>1. UNCHANGED <<worker, child, pipe, out_queue>>
      BY <2>4 DEF QueueAnalysis, Shutdown, vars
    <3> QED
      BY <2>2, <3>1 DEF PipesAreOwn, ResultsAreOwn
  <2> QED
    BY <2>3, <2>4 DEF Next
<1>3. NotMixedUp => MixedUpOnlyAfterLateResult
  BY DEF NotMixedUp, ResultsAreOwn, MixedUpOnlyAfterLateResult
<1> QED
  BY <1>1, <1>2, <1>3, WorkerInvariant, PTL DEF Spec
-----------------------------------------------------------------------------
(* The workers of a plugin implement PluginRunner.                         *)

\* Steps of a worker that leave its task with it
Keeps(w) ==
    \/ Stop(w) \/ Start(w) \/ PollReady(w) \/ Receive(w) \/ PollTimeout(w)
    \/ WriteStats(w) \/ AdvanceStats(w) \/ Finally(w) \/ Sigterm(w) \/ ChildExits(w)
    \/ \E kind \in Kinds : ChildSends(w, kind)

\* Such a step changes no task, and neither queue.
LEMMA TasksStay ==
    ASSUME TypeOK, NEW w \in Workers, Keeps(w)
    PROVE  /\ UNCHANGED <<in_queue, out_queue, seen, shutdown>>
           /\ \A v \in Workers : worker'[v].task = worker[v].task
           /\ \A v \in Workers : v # w => worker'[v] = worker[v] /\ pipe'[v] = pipe[v]
<1>1. UNCHANGED <<in_queue, out_queue, seen, shutdown>>
  BY DEF Keeps, Sigterm, Stop, Start, PollReady, Receive, PollTimeout, WriteStats,
     AdvanceStats, Finally, SigtermIdle, SigtermReceives, SigtermRaises, Terminated,
     ChildExits, ChildSends
<1>2. \A v \in Workers : v # w => pipe'[v] = pipe[v]
  BY DEF Keeps, Sigterm, Stop, Start, PollReady, Receive, PollTimeout, WriteStats,
     AdvanceStats, Finally, SigtermIdle, SigtermReceives, SigtermRaises, Terminated,
     ChildExits, ChildSends, TypeOK
<1>3. worker'[w].task = worker[w].task /\ \A v \in Workers : v # w => worker'[v] = worker[v]
  <2>1. CASE ChildExits(w) \/ \E kind \in Kinds : ChildSends(w, kind)
    BY <2>1 DEF ChildExits, ChildSends
  <2>2. CASE SigtermRaises(w)
    BY <2>2, WorkerBecomes DEF Becomes
  <2> QED
    BY <2>1, <2>2, WorkerBecomes DEF Keeps, Sigterm, Becomes
<1> QED
  BY <1>1, <1>2, <1>3

\* The clauses of ResultsAreThere for one worker
ResultThere(w) ==
    /\ \A i \in 1..Len(pipe[w]) : pipe[w][i].kind \in Kinds
    /\ worker[w].pc \in {"stats", "advance", "finally", "put"} => worker[w].entry.kind # "none"

\* What is left of a pipe after its first message was in it before.
LEMMA TailKinds ==
    ASSUME NEW q \in Seq(Entries), q # <<>>, \A i \in 1..Len(q) : q[i].kind \in Kinds
    PROVE  \A i \in 1..Len(Tail(q)) : Tail(q)[i].kind \in Kinds
<1>1. \A i \in 1..Len(Tail(q)) : i + 1 \in 1..Len(q) /\ Tail(q)[i] = q[i + 1]
  OBVIOUS
<1> QED
  BY <1>1

\* A worker leaves the wait for its child only with a result or a timeout.
LEMMA ResultStep ==
    ASSUME WorkerInv, ResultsAreThere, NEW w \in Workers, Step(w) \/ Keeps(w)
    PROVE  ResultThere(w)'
<1> DEFINE my == worker[w]
<1>0. TypeOK /\ ResultThere(w) /\ pipe[w] \in Seq(Entries) /\ my.entry \in Entries
      /\ my.task \in Tasks \cup {NoTask}
  BY TypeFacts DEF WorkerInv, ResultsAreThere, ResultThere
<1>1. ASSUME (\E t \in Tasks : Get(w, t)) \/ Stop(w) \/ Start(w) \/ PollReady(w) \/ Put(w)
      PROVE  ResultThere(w)'
  <2>1. worker'[w].pc \notin {"stats", "advance", "finally", "put"}
    BY <1>0, <1>1, WorkerBecomes DEF Becomes
  <2>2. pipe' = pipe
    BY <1>1 DEF Get, Stop, Start, PollReady, Put
  <2> QED
    BY <1>0, <2>1, <2>2 DEF ResultThere
<1>2. ASSUME Receive(w) PROVE ResultThere(w)'
  <2>1. pipe[w] # <<>> /\ pipe'[w] = Tail(pipe[w])
    BY <1>0, <1>2 DEF Receive, TypeOK
  <2>2. worker'[w].entry = pipe[w][1] /\ pipe[w][1].kind \in Kinds
    BY <1>0, <1>2, <2>1, WorkerBecomes DEF Becomes, ResultThere
  <2>3. \A i \in 1..Len(pipe'[w]) : pipe'[w][i].kind \in Kinds
    BY <1>0, <2>1, TailKinds DEF ResultThere
  <2> QED
    BY <2>2, <2>3 DEF ResultThere, Kinds
<1>3. ASSUME PollTimeout(w) \/ SigtermRaises(w) PROVE ResultThere(w)'
  <2>1. worker'[w].entry \in {my.entry, TimedOut(my.entry, my.task)}
    BY <1>0, <1>3, WorkerBecomes DEF Becomes
  <2>2. worker'[w].pc = "finally" /\ my.pc # "finally"
          => worker'[w].entry = TimedOut(my.entry, my.task)
    BY <1>0, <1>3, WorkerBecomes DEF Becomes
  <2>3. worker'[w].pc \in {"finally", "stopped"} /\ (my.pc = "finally" => worker'[w].pc = "stopped")
    BY <1>0, <1>3, WorkerBecomes DEF Becomes, PollTimeout, At
  <2>4. TimedOut(my.entry, my.task).kind # "none"
    BY <1>0, EntryFacts
  <2>5. pipe' = pipe
    BY <1>3 DEF PollTimeout, SigtermRaises
  <2> QED
    BY <1>0, <2>2, <2>3, <2>4, <2>5 DEF ResultThere
<1>4. ASSUME WriteStats(w) \/ AdvanceStats(w) \/ Finally(w) PROVE ResultThere(w)'
  <2>1. worker'[w].entry = my.entry /\ my.pc \in {"stats", "advance", "finally"} /\ pipe' = pipe
    BY <1>0, <1>4, WorkerBecomes DEF Becomes, WriteStats, AdvanceStats, Finally, At
  <2> QED
    BY <1>0, <2>1 DEF ResultThere
<1>5. ASSUME SigtermIdle(w) \/ SigtermReceives(w) PROVE ResultThere(w)'
  <2>1. worker'[w].entry = my.entry /\ worker'[w].pc = my.pc
    BY <1>0, <1>5, WorkerBecomes DEF Becomes
  <2>2. pipe'[w] = pipe[w] \/ (pipe[w] # <<>> /\ pipe'[w] = Tail(pipe[w]))
    BY <1>0, <1>5 DEF SigtermIdle, SigtermReceives, TypeOK
  <2>3. \A i \in 1..Len(pipe'[w]) : pipe'[w][i].kind \in Kinds
    BY <1>0, <2>2, TailKinds DEF ResultThere
  <2> QED
    BY <1>0, <2>1, <2>3 DEF ResultThere
<1>6. ASSUME ChildExits(w) PROVE ResultThere(w)'
  BY <1>0, <1>6 DEF ChildExits, ResultThere
<1>7. ASSUME NEW kind \in Kinds, ChildSends(w, kind) PROVE ResultThere(w)'
  <2> DEFINE m == [kind |-> kind, of |-> child[w].task]
  <2>1. m \in Entries /\ m.kind = kind
    BY <1>0, TypeFacts, EntryFacts
  <2>2. pipe'[w] = Append(pipe[w], m) /\ worker' = worker
    BY <1>0, <1>7 DEF ChildSends, TypeOK
  <2>3. \A i \in 1..Len(pipe'[w]) : pipe'[w][i].kind \in Kinds
    <3> HIDE DEF m
    <3> QED
      BY <1>0, <2>1, <2>2 DEF ResultThere
  <2> QED
    BY <1>0, <2>2, <2>3 DEF ResultThere
<1> QED
  BY <1>1, <1>2, <1>3, <1>4, <1>5, <1>6, <1>7 DEF Step, Keeps, Sigterm

\* A task is in one place and is handed back with a result, in every reachable state.
LEMMA HandoverInvariant == Spec => []HandoverInv
<1>1. Init => HandoverInv
  <2> SUFFICES ASSUME Init PROVE HandoverInv
    OBVIOUS
  <2>1. /\ in_queue = {} /\ seen = {} /\ \A t \in Tasks : out_queue[t] = NoEntry
        /\ \A w \in Workers : pipe[w] = <<>> /\ worker[w].pc = "get" /\ worker[w].task = NoTask
    BY DEF Init, Idle
  <2>2. OnePlace
    BY <2>1, EntryFacts, WorkerConstants DEF OnePlace
  <2>3. ResultsAreThere
    BY <2>1 DEF ResultsAreThere
  <2> QED
    BY <2>2, <2>3 DEF HandoverInv
<1>2. WorkerInv /\ HandoverInv /\ [Next]_vars => HandoverInv'
  <2> SUFFICES ASSUME WorkerInv, HandoverInv, [Next]_vars PROVE HandoverInv'
    OBVIOUS
  <2>0. TypeOK /\ OnePlace /\ ResultsAreThere /\ TasksOfWorkers
    BY DEF WorkerInv, HandoverInv
  <2>1. ASSUME NEW t \in Tasks, QueueAnalysis(t) PROVE HandoverInv'
    <3>1. /\ UNCHANGED <<worker, pipe, out_queue>> /\ t \notin seen
          /\ seen' = seen \cup {t} /\ in_queue' = in_queue \cup {t}
      BY <2>1 DEF QueueAnalysis
    <3>2. OnePlace'
      BY <2>0, <3>1 DEF OnePlace
    <3> QED
      BY <2>0, <3>1, <3>2 DEF ResultsAreThere, HandoverInv
  <2>2. CASE Shutdown \/ UNCHANGED vars
    BY <2>0, <2>2 DEF Shutdown, vars, HandoverInv, OnePlace, ResultsAreThere
  <2>3. ASSUME NEW w \in Workers, Keeps(w) PROVE HandoverInv'
    <3>1. OnePlace'
      BY <2>0, <2>3, TasksStay DEF OnePlace
    <3>2. ResultsAreThere'
      BY <2>0, <2>3, TasksStay, ResultStep DEF ResultsAreThere, ResultThere
    <3> QED
      BY <3>1, <3>2 DEF HandoverInv
  <2>4. ASSUME NEW w \in Workers, NEW t \in Tasks, Get(w, t) PROVE HandoverInv'
    <3>1. /\ UNCHANGED <<pipe, out_queue, seen>> /\ t \in in_queue /\ in_queue' = in_queue \ {t}
          /\ worker'[w].task = t /\ \A v \in Workers : v # w => worker'[v] = worker[v]
      <4>1. Becomes(w, "start", t, worker[w].run, NoEntry)
        BY <2>0, <2>4, WorkerBecomes
      <4> QED
        BY <2>4, <4>1 DEF Get, Becomes
    <3>2. OnePlace'
      BY <2>0, <3>1 DEF OnePlace
    <3>3. ResultThere(w)'
      BY <2>0, <2>4, ResultStep DEF Step
    <3> QED
      BY <2>0, <3>1, <3>2, <3>3 DEF HandoverInv, ResultsAreThere, ResultThere
  <2>5. ASSUME NEW w \in Workers, Put(w) PROVE HandoverInv'
    <3> DEFINE t == worker[w].task
    <3>1. t \in Tasks /\ t # NoTask
      BY <2>0, <2>5, WorkerConstants DEF Put, At, TasksOfWorkers, Working
    <3>2. /\ UNCHANGED <<pipe, seen, in_queue>>
          /\ out_queue' = [out_queue EXCEPT ![t] = worker[w].entry]
          /\ worker'[w].task = NoTask /\ \A v \in Workers : v # w => worker'[v] = worker[v]
      BY <2>0, <2>5, WorkerBecomes DEF Put, Becomes
    <3>3. t \in seen /\ t \notin in_queue /\ \A v \in Workers : v # w => worker[v].task # t
      BY <2>0, <3>1 DEF OnePlace
    <3>4. \A u \in Tasks : u # t => out_queue'[u] = out_queue[u]
      BY <2>0, <3>2 DEF TypeOK
    <3>5. OnePlace'
      <4> HIDE DEF t
      <4>1. (\A u \in Tasks : out_queue[u].kind # "none" => u \in seen /\ u \notin in_queue)'
        BY <2>0, <3>2, <3>3, <3>4 DEF OnePlace
      <4>2. (\A v \in Workers : worker[v].task \in Tasks =>
                /\ worker[v].task \in seen /\ worker[v].task \notin in_queue
                /\ out_queue[worker[v].task].kind = "none")'
        BY <2>0, <3>2, <3>3, <3>4, WorkerConstants DEF OnePlace
      <4>3. (\A u, v \in Workers : worker[u].task = worker[v].task /\ u # v
                => worker[u].task = NoTask)'
        BY <2>0, <3>2 DEF OnePlace
      <4> QED
        BY <2>0, <3>2, <4>1, <4>2, <4>3 DEF OnePlace
    <3>6. ResultThere(w)'
      BY <2>0, <2>5, ResultStep DEF Step
    <3> QED
      BY <2>0, <3>2, <3>5, <3>6 DEF HandoverInv, ResultsAreThere, ResultThere
  <2> QED
    BY <2>1, <2>2, <2>3, <2>4, <2>5 DEF Next, Step, Keeps
<1> QED
  BY <1>1, <1>2, WorkerInvariant, PTL DEF Spec

\* What PluginRunner calls running
RunningTasks ==
    {worker[w].task : w \in {v \in Workers : worker[v].pc # "stopped"}} \ {NoTask}

\* Whether a signal stopped the worker of a task
Stranded(t) == \E w \in Workers : worker[w].task = t /\ worker[w].pc = "stopped"

\* The outcome of a task depends on its entry and on whether its worker was stopped.
LEMMA OutcomeSame ==
    ASSUME NEW t, out_queue'[t] = out_queue[t], Stranded(t)' <=> Stranded(t)
    PROVE  Outcome(t)' = Outcome(t)
BY DEF Outcome, Stranded

\* A worker that waits for a task is not busy: fewer tasks run than there are workers.
LEMMA IdleWorker ==
    ASSUME NEW w \in Workers, worker[w].task = NoTask
    PROVE  Cardinality(RunningTasks) < Cardinality(Workers)
<1> DEFINE V == Workers \ {w}
           T == {worker[v].task : v \in V}
           f == [v \in V |-> worker[v].task]
<1>1. IsFiniteSet(Workers) /\ IsFiniteSet(V) /\ Cardinality(V) = Cardinality(Workers) - 1
      /\ Cardinality(Workers) \in Nat /\ Cardinality(V) \in Nat
  BY WorkerConstants, FS_RemoveElement, FS_CardinalityType
<1>2. f \in Surjection(V, T)
  BY DEF Surjection
<1>3. IsFiniteSet(T) /\ Cardinality(T) <= Cardinality(V) /\ Cardinality(T) \in Nat
  BY <1>1, <1>2, FS_Surjection, FS_CardinalityType
<1>4. RunningTasks \subseteq T
  BY DEF RunningTasks
<1>5. Cardinality(RunningTasks) <= Cardinality(T) /\ Cardinality(RunningTasks) \in Nat
  BY <1>3, <1>4, FS_Subset, FS_CardinalityType
<1> QED
  BY <1>1, <1>3, <1>5

\* A step that keeps the tasks is no step of PluginRunner, unless a signal stops
\* the worker in its finally block: then the task is given up.
LEMMA KeepsRefines ==
    ASSUME WorkerInv, HandoverInv, NEW w \in Workers, Keeps(w)
    PROVE  [Runner!Next]_(Runner!vars)
<1> DEFINE my == worker[w]
<1>0. TypeOK /\ TasksOfWorkers /\ OnePlace /\ my.task \in Tasks \cup {NoTask}
  BY TypeFacts DEF WorkerInv, HandoverInv
<1>1. /\ UNCHANGED <<in_queue, out_queue, seen, shutdown>>
      /\ \A v \in Workers : worker'[v].task = worker[v].task
      /\ \A v \in Workers : v # w => worker'[v] = worker[v]
  BY <1>0, TasksStay
<1>2. ASSUME my.task = NoTask \/ (worker'[w].pc = "stopped" <=> my.pc = "stopped")
      PROVE  [Runner!Next]_(Runner!vars)
  <2>1. RunningTasks' = RunningTasks
    BY <1>1, <1>2 DEF RunningTasks
  <2>2. ASSUME NEW t \in Tasks PROVE Outcome(t)' = Outcome(t)
    <3>1. Stranded(t)' <=> Stranded(t)
      BY <1>1, <1>2, WorkerConstants DEF Stranded
    <3> QED
      BY <1>1, <3>1, OutcomeSame
  <2> QED
    BY <1>1, <2>1, <2>2 DEF Runner!vars, RunningTasks
<1>3. ASSUME my.task \in Tasks, ~(worker'[w].pc = "stopped" <=> my.pc = "stopped")
      PROVE  [Runner!Next]_(Runner!vars)
  <2>1. SigtermRaises(w) /\ my.pc = "finally" /\ worker'[w].pc = "stopped"
    <3>1. ~Stop(w)
      BY <1>0, <1>3, WorkerConstants DEF Stop, At, TasksOfWorkers
    <3>2. CASE SigtermRaises(w)
      BY <1>0, <1>3, <3>2, WorkerBecomes DEF Becomes, SigtermRaises, Terminated
    <3>3. CASE ChildExits(w) \/ \E kind \in Kinds : ChildSends(w, kind)
      BY <1>3, <3>3 DEF ChildExits, ChildSends
    <3>4. CASE SigtermIdle(w) \/ SigtermReceives(w)
      BY <1>0, <1>3, <3>4, WorkerBecomes DEF Becomes
    <3>5. CASE Start(w) \/ PollReady(w) \/ Receive(w) \/ PollTimeout(w)
      BY <1>0, <1>3, <3>5, WorkerBecomes DEF Becomes, Start, PollReady, Receive, PollTimeout, At
    <3>6. CASE WriteStats(w) \/ AdvanceStats(w) \/ Finally(w)
      BY <1>0, <1>3, <3>6, WorkerBecomes DEF Becomes, WriteStats, AdvanceStats, Finally, At
    <3> QED
      BY <3>1, <3>2, <3>3, <3>4, <3>5, <3>6 DEF Keeps, Sigterm
  <2>2. shutdown = 1
    BY <2>1 DEF SigtermRaises, Terminated
  <2>3. PICK t \in Tasks : t = my.task
    BY <1>3
  <2>4. t \in RunningTasks /\ RunningTasks' = RunningTasks \ {t}
    BY <1>0, <1>1, <2>1, <2>3, WorkerConstants DEF RunningTasks, OnePlace
  <2>5. Outcome(t)' = "lost"
    <3>1. out_queue'[t].kind = "none"
      BY <1>0, <1>1, <2>3 DEF OnePlace
    <3>2. Stranded(t)'
      BY <1>1, <2>1, <2>3 DEF Stranded
    <3> QED
      BY <3>1, <3>2 DEF Outcome, Stranded
  <2>6. ASSUME NEW u \in Tasks, u # t PROVE Outcome(u)' = Outcome(u)
    <3>1. Stranded(u)' <=> Stranded(u)
      BY <1>1, <2>1, <2>3, <2>6 DEF Stranded
    <3> QED
      BY <1>1, <3>1, OutcomeSame
  <2>7. [u \in Tasks |-> Outcome(u)]' = [[u \in Tasks |-> Outcome(u)] EXCEPT ![t] = "lost"]
    BY <2>5, <2>6
  <2>8. Runner!GiveUp(t)
    BY <1>1, <2>2, <2>4, <2>7 DEF Runner!GiveUp, RunningTasks
  <2> QED
    BY <2>8 DEF Runner!Next
<1> QED
  BY <1>0, <1>2, <1>3

\* PluginRunner counts as this module does.
LEMMA SameCardinality ==
    ASSUME NEW S PROVE Runner!Cardinality(S) = Cardinality(S)
BY Zenon DEF Runner!Cardinality, Cardinality

\* A worker takes a task: there is one that is free to take it.
LEMMA GetRefines ==
    ASSUME WorkerInv, HandoverInv, NEW w \in Workers, NEW t \in Tasks, Get(w, t)
    PROVE  Runner!Take(t)
<1>0. TypeOK /\ TasksOfWorkers /\ OnePlace
  BY DEF WorkerInv, HandoverInv
<1>1. /\ worker[w].pc = "get" /\ worker[w].task = NoTask
      /\ t \in in_queue /\ in_queue' = in_queue \ {t} /\ UNCHANGED <<out_queue, shutdown>>
  BY <1>0 DEF Get, At, TasksOfWorkers
<1>2. /\ worker'[w].pc = "start" /\ worker'[w].task = t
      /\ \A v \in Workers : v # w => worker'[v] = worker[v]
  BY <1>0, WorkerBecomes DEF Becomes
<1>3. RunningTasks' = RunningTasks \cup {t}
  BY <1>1, <1>2, WorkerConstants DEF RunningTasks
<1>4. ASSUME NEW u \in Tasks PROVE Outcome(u)' = Outcome(u)
  <2>1. Stranded(u)' <=> Stranded(u)
    BY <1>1, <1>2 DEF Stranded
  <2> QED
    BY <1>1, <2>1, OutcomeSame
<1>5. Cardinality(RunningTasks) < Cardinality(Workers)
  BY <1>1, IdleWorker
<1>6. Runner!Cardinality(RunningTasks) < Runner!Cardinality(Workers)
  BY <1>5, SameCardinality
<1> QED
  BY <1>1, <1>3, <1>4, <1>6 DEF Runner!Take, RunningTasks

\* A worker hands a task back, with an analysis or an exception.
LEMMA PutRefines ==
    ASSUME WorkerInv, HandoverInv, NEW w \in Workers, Put(w)
    PROVE  \E t \in Tasks, o \in Runner!Outcomes : Runner!Finish(t, o)
<1>0. TypeOK /\ TasksOfWorkers /\ OnePlace /\ worker[w].pc = "put"
      /\ worker[w].entry.kind \in {"analysis", "failed", "timeout"}
  BY TypeFacts DEF WorkerInv, HandoverInv, Put, At, ResultsAreThere, Entries, Kinds
<1>1. PICK t \in Tasks : t = worker[w].task
  BY <1>0 DEF TasksOfWorkers, Working
<1>2. PICK o \in Runner!Outcomes :
          o = IF worker[w].entry.kind = "analysis" THEN "analysis" ELSE "exception"
  BY DEF Runner!Outcomes
<1>3. /\ worker'[w].task = NoTask
      /\ \A v \in Workers : v # w => worker'[v] = worker[v]
      /\ UNCHANGED <<in_queue, shutdown>>
      /\ out_queue' = [out_queue EXCEPT ![t] = worker[w].entry]
  BY <1>0, <1>1, WorkerBecomes DEF Becomes, Put
<1>4. \A v \in Workers : v # w => worker[v].task # t
  BY <1>0, <1>1, WorkerConstants DEF OnePlace
<1>5. t \in RunningTasks /\ RunningTasks' = RunningTasks \ {t}
  BY <1>0, <1>1, <1>3, <1>4, WorkerConstants DEF RunningTasks
<1>6. Outcome(t)' = o
  <2>1. out_queue'[t] = worker[w].entry
    BY <1>0, <1>3 DEF TypeOK
  <2>0. ~Stranded(t)'
    BY <1>1, <1>3, <1>4, WorkerConstants DEF Stranded
  <2>2. CASE worker[w].entry.kind = "analysis"
    BY <1>2, <2>0, <2>1, <2>2 DEF Outcome, Stranded
  <2>3. CASE worker[w].entry.kind \in {"failed", "timeout"}
    <3>1. out_queue'[t].kind \in {"failed", "timeout"} /\ out_queue'[t].kind # "analysis"
      BY <2>1, <2>3
    <3>2. o = "exception"
      BY <1>2, <2>3
    <3> QED
      BY <2>0, <3>1, <3>2 DEF Outcome, Stranded
  <2> QED
    BY <1>0, <2>2, <2>3
<1>7. ASSUME NEW u \in Tasks, u # t PROVE Outcome(u)' = Outcome(u)
  <2>1. Stranded(u)' <=> Stranded(u)
    BY <1>0, <1>1, <1>3, <1>7, WorkerConstants DEF Stranded
  <2>2. out_queue'[u] = out_queue[u]
    BY <1>0, <1>3, <1>7 DEF TypeOK
  <2> QED
    BY <2>1, <2>2, OutcomeSame
<1>8. [u \in Tasks |-> Outcome(u)]' = [[u \in Tasks |-> Outcome(u)] EXCEPT ![t] = o]
  BY <1>6, <1>7
<1>9. Runner!Finish(t, o)
  BY <1>3, <1>5, <1>8 DEF Runner!Finish, RunningTasks
<1> QED
  BY <1>9

\* The workers of a plugin keep the promise that the analysis scheduler relies on:
\* a task waits, is taken by at most as many workers as there are, and comes out
\* once, with an analysis or an exception; only the signals of a shutdown lose one.
THEOREM WorkersImplementRunner == Spec => RefinesPluginRunner
<1>1. Init => Runner!Init
  <2> SUFFICES ASSUME Init PROVE Runner!Init
    OBVIOUS
  <2>1. /\ \A w \in Workers : worker[w].task = NoTask /\ worker[w].pc = "get"
        /\ \A t \in Tasks : out_queue[t].kind = "none"
    BY EntryFacts DEF Init, Idle
  <2>2. \A t \in Tasks : Outcome(t) = "none"
    BY <2>1 DEF Outcome
  <2> QED
    BY <2>1, <2>2 DEF Init, Runner!Init
<1>2. WorkerInv /\ HandoverInv /\ [Next]_vars => [Runner!Next]_(Runner!vars)
  <2> SUFFICES ASSUME WorkerInv, HandoverInv, [Next]_vars PROVE [Runner!Next]_(Runner!vars)
    OBVIOUS
  <2>1. ASSUME NEW t \in Tasks, QueueAnalysis(t) PROVE Runner!Queue(t)
    <3>1. /\ UNCHANGED <<worker, out_queue, shutdown>> /\ t \notin seen
          /\ in_queue' = in_queue \cup {t}
      BY <2>1 DEF QueueAnalysis
    <3>2. t \notin in_queue /\ out_queue[t].kind = "none" /\ \A w \in Workers : worker[w].task # t
      BY <3>1 DEF HandoverInv, OnePlace
    <3>3. Outcome(t) = "none"
      BY <3>2 DEF Outcome
    <3>4. \A u \in Tasks : Outcome(u)' = Outcome(u)
      BY <3>1 DEF Outcome
    <3> QED
      BY <3>1, <3>2, <3>3, <3>4 DEF Runner!Queue, Runner!New
  <2>2. CASE Shutdown
    <3>1. UNCHANGED <<worker, out_queue, in_queue>> /\ shutdown' = 1
      BY <2>2 DEF Shutdown
    <3>2. \A u \in Tasks : Outcome(u)' = Outcome(u)
      BY <3>1 DEF Outcome
    <3>3. Runner!Close
      BY <3>1, <3>2 DEF Runner!Close
    <3> QED
      BY <3>3 DEF Runner!Next
  <2>3. ASSUME NEW w \in Workers, Keeps(w) PROVE [Runner!Next]_(Runner!vars)
    BY <2>3, KeepsRefines
  <2>4. ASSUME NEW w \in Workers, NEW t \in Tasks, Get(w, t) PROVE Runner!Take(t)
    BY <2>4, GetRefines
  <2>5. ASSUME NEW w \in Workers, Put(w)
        PROVE  \E t \in Tasks, o \in Runner!Outcomes : Runner!Finish(t, o)
    BY <2>5, PutRefines
  <2>6. CASE UNCHANGED vars
    <3>1. UNCHANGED <<worker, out_queue, in_queue, shutdown>>
      BY <2>6 DEF vars
    <3>2. \A u \in Tasks : Outcome(u)' = Outcome(u)
      BY <3>1 DEF Outcome
    <3> QED
      BY <3>1, <3>2 DEF Runner!vars
  <2>7. ASSUME (\E t \in Tasks : QueueAnalysis(t))
               \/ (\E w \in Workers : (\E t \in Tasks : Get(w, t)) \/ Put(w))
        PROVE  Runner!Next
    BY <2>1, <2>4, <2>5, <2>7 DEF Runner!Next
  <2> QED
    BY <2>2, <2>3, <2>6, <2>7 DEF Next, Step, Keeps
<1> QED
  BY <1>1, <1>2, WorkerInvariant, HandoverInvariant, PTL DEF Spec, RefinesPluginRunner, Runner!Spec

-----------------------------------------------------------------------------
(* The plugin qemu_exec: threads of a pool that share a dictionary.        *)

\* A non-empty set of natural numbers has a smallest one, which Min returns.
LEMMA MinIsIn ==
    ASSUME NEW S \in SUBSET Nat, S # {}
    PROVE  Min(S) \in S
<1> DEFINE R == OpToRel(<, Nat)
<1>1. \A n, m \in Nat : n < m => <<n, m>> \in R
  BY DEF OpToRel
<1>2. IsWellFoundedOn(R, Nat)
  BY NatLessThanWellFounded
<1> HIDE DEF R
<1>3. PICK x \in S : \A y \in S : ~(<<y, x>> \in R)
  BY <1>2, WFMin, Zenon
<1>4. \A y \in S : ~(y < x)
  BY <1>1, <1>3, Zenon
<1>5. \A y \in S : x <= y
  BY <1>4
<1> QED BY <1>5 DEF Min

\* The suffixes of an architecture are a sequence.
LEMMA SuffixesAreASequence ==
    ASSUME NEW fullType
    PROVE  Len(FindArchSuffixes(fullType)) \in Nat
<1>1. DOMAIN ArchToBin = 1 .. 11
  BY DEF ArchToBin
<1>2. /\ Len(ArchToBin[1][2]) = 1 /\ Len(ArchToBin[2][2]) = 3 /\ Len(ArchToBin[3][2]) = 4
      /\ Len(ArchToBin[4][2]) = 2 /\ Len(ArchToBin[5][2]) = 6 /\ Len(ArchToBin[6][2]) = 1
      /\ Len(ArchToBin[7][2]) = 2 /\ Len(ArchToBin[8][2]) = 2 /\ Len(ArchToBin[9][2]) = 3
      /\ Len(ArchToBin[10][2]) = 3 /\ Len(ArchToBin[11][2]) = 2
  BY DEF ArchToBin
<1>3. \A i \in 1 .. 11 : Len(ArchToBin[i][2]) \in Nat
  <2>1. \A i \in 1 .. 11 : i = 1 \/ i = 2 \/ i = 3 \/ i = 4 \/ i = 5 \/ i = 6 \/ i = 7 \/ i = 8 \/ i = 9 \/ i = 10 \/ i = 11
    OBVIOUS
  <2> QED BY <1>2, <2>1
<1> DEFINE found == {i \in DOMAIN ArchToBin : ArchToBin[i][1] \in fullType}
<1>4. CASE found = {}
  BY <1>4 DEF FindArchSuffixes
<1>5. CASE found # {}
  <2>1. Min(found) \in found
    BY <1>1, <1>5, MinIsIn
  <2> QED BY <1>1, <1>3, <1>5, <2>1 DEF FindArchSuffixes
<1> QED BY <1>4, <1>5

\* The result of job j was written, and no other job of the file looked before that and has
\* not written yet.
Safe(j) ==
    /\ job[j].phase = "done" /\ RunResult(j) # NoResult
    /\ \A k \in Jobs : <<j, k>> \notin overlaps
\* It is in the dictionary, and in every copy with which a job of the file will replace it.
Kept(j) ==
    /\ UidOf(j) \in DOMAIN results
    /\ j.arch \in DOMAIN results[UidOf(j)].results
    /\ \A k \in Jobs : k # j /\ UidOf(k) = UidOf(j) /\ job[k].phase = "ready" => j.arch \in DOMAIN job[k].copy

\* The inductive invariant: a copy that was taken after a result was written has the result.
QemuInv ==
    /\ submitted \in Seq(Jobs) /\ DOMAIN job = Jobs
    /\ input = Nothing => submitted = <<>>
    /\ \A j \in Jobs : Safe(j) => Kept(j)

\* What a step does to the phase and the copy of a job
LEMMA BecomeFacts ==
    ASSUME DOMAIN job = Jobs, submitted' = submitted, NEW j \in Jobs, NEW phase, NEW copy, Become(j, phase, copy)
    PROVE  /\ Jobs' = Jobs /\ DOMAIN job' = Jobs
           /\ job'[j].phase = phase /\ job'[j].copy = copy
           /\ \A k \in Jobs : k # j => job'[k] = job[k]
BY DEF Become, Jobs

\* Every step keeps the invariant.
LEMMA QemuStep ==
    ASSUME QemuInv,
           (PickContainer /\ UNCHANGED qemuVars) \/ (QemuNext /\ UNCHANGED input) \/ UNCHANGED <<input, qemuVars>>
    PROVE  QemuInv'
<1>1. CASE PickContainer /\ UNCHANGED qemuVars
  <2>1. submitted = <<>> /\ submitted' = <<>> /\ job' = job
    BY <1>1 DEF PickContainer, Choose, NoInput, qemuVars, QemuInv
  <2>2. Jobs = {} /\ Jobs' = {}
    BY <2>1 DEF Jobs, Range
  <2> QED BY <2>1, <2>2 DEF QemuInv
<1>2. CASE UNCHANGED <<input, qemuVars>>
  BY <1>2 DEF QemuInv, qemuVars, Jobs, Safe, Kept, RunResult, UidOf, container
<1>3. ASSUME UNCHANGED input
      PROVE  \A j : UidOf(j)' = UidOf(j) /\ RunResult(j)' = RunResult(j) /\ container' = container
  BY <1>3 DEF UidOf, RunResult, container
<1>4. CASE Submit /\ UNCHANGED input
  <2> DEFINE n == Len(SuffixesOf(next))
             new == JobsOf(next)
  <2>1. n \in Nat
    BY SuffixesAreASequence DEF SuffixesOf
  <2>2. new = [k \in 1 .. n |-> [file |-> next, arch |-> SuffixesOf(next)[k]]]
    BY DEF JobsOf
  <2> HIDE DEF new, n
  <2>3. new \in Seq(Range(new))
    BY <2>1, <2>2 DEF Range
  <2>4. submitted \in Seq(Jobs)
    BY DEF QemuInv
  <2>5. submitted' = submitted \/ submitted' = submitted \o new
    BY <1>4 DEF Submit, new
  <2>6. Jobs \subseteq Jobs' /\ submitted' \in Seq(Jobs')
    <3>1. CASE submitted' = submitted
      BY <3>1, <2>4 DEF Jobs
    <3>2. CASE submitted' = submitted \o new
      <4>1. submitted' \in Seq(Jobs \union Range(new))
        BY <2>3, <2>4, <3>2
      <4>2. \A i \in DOMAIN submitted : i \in DOMAIN submitted' /\ submitted'[i] = submitted[i]
        BY <2>3, <2>4, <3>2
      <4>3. Jobs \subseteq Jobs'
        BY <4>2 DEF Jobs, Range
      <4>4. submitted' \in Seq(Range(submitted'))
        BY <4>1 DEF Range
      <4> QED BY <4>3, <4>4 DEF Jobs
    <3> QED BY <2>5, <3>1, <3>2
  <2>7. /\ DOMAIN job = Jobs /\ DOMAIN job' = Jobs'
        /\ \A j \in Jobs : job'[j] = job[j]
        /\ \A j \in Jobs' \ Jobs : job'[j].phase = "queued"
    BY <1>4, <2>6 DEF Submit, Jobs, QemuInv
  <2>8. results' = results /\ overlaps' = overlaps /\ input' = input /\ input # Nothing
    BY <1>4 DEF Submit, Running, Nothing
  <2>9. ASSUME NEW j \in Jobs', Safe(j)' PROVE Kept(j)'
    <3>1. j \in Jobs /\ Safe(j)
      BY <1>3, <2>6, <2>7, <2>8, <2>9 DEF Safe
    <3>2. Kept(j)
      BY <3>1 DEF QemuInv
    <3> QED BY <1>3, <2>6, <2>7, <2>8, <3>1, <3>2 DEF Kept
  <2> QED BY <2>6, <2>7, <2>8, <2>9 DEF QemuInv
<1>5. ASSUME UNCHANGED <<input, submitted>>, DOMAIN job' = Jobs,
             \A j \in Jobs : Safe(j)' => Kept(j)'
      PROVE  QemuInv'
  <2>1. Jobs' = Jobs
    BY <1>5 DEF Jobs
  <2> QED BY <1>5, <2>1 DEF QemuInv
<1>6. ASSUME NEW j \in Jobs, StartJob(j), UNCHANGED input PROVE QemuInv'
  <2>1. /\ job[j].phase = "queued" /\ UNCHANGED <<submitted, results, overlaps>>
        /\ Become(j, IF RunResult(j) = NoResult THEN "done" ELSE "finished", <<>>)
        /\ DOMAIN job = Jobs
    BY <1>6 DEF StartJob, QemuInv
  <2>2. /\ Jobs' = Jobs /\ DOMAIN job' = Jobs
        /\ job'[j].phase = IF RunResult(j) = NoResult THEN "done" ELSE "finished"
        /\ \A k \in Jobs : k # j => job'[k] = job[k]
    BY <2>1, BecomeFacts
  <2>3. ASSUME NEW i \in Jobs, Safe(i)' PROVE Kept(i)'
    <3>1. i # j /\ Safe(i)
      BY <1>3, <1>6, <2>1, <2>2, <2>3 DEF Safe
    <3>2. Kept(i)
      BY <3>1 DEF QemuInv
    <3> QED BY <1>3, <1>6, <2>1, <2>2, <3>1, <3>2 DEF Kept
  <2> QED BY <1>5, <1>6, <2>1, <2>2, <2>3
<1>7. ASSUME NEW j \in Jobs, Look(j), UNCHANGED input PROVE QemuInv'
  <2>1. /\ job[j].phase = "finished" /\ UNCHANGED <<submitted, results, overlaps>>
        /\ Become(j, IF UidOf(j) \in DOMAIN results THEN "known" ELSE "ready", <<>>)
        /\ DOMAIN job = Jobs
    BY <1>7 DEF Look, QemuInv
  <2>2. /\ Jobs' = Jobs /\ DOMAIN job' = Jobs
        /\ job'[j].phase = IF UidOf(j) \in DOMAIN results THEN "known" ELSE "ready"
        /\ \A k \in Jobs : k # j => job'[k] = job[k]
    BY <2>1, BecomeFacts
  <2>3. ASSUME NEW i \in Jobs, Safe(i)' PROVE Kept(i)'
    <3>1. i # j /\ Safe(i)
      BY <1>3, <1>7, <2>1, <2>2, <2>3 DEF Safe
    <3>2. Kept(i)
      BY <3>1 DEF QemuInv
    <3>3. UidOf(j) = UidOf(i) => job'[j].phase = "known"
      BY <2>2, <3>2 DEF Kept
    <3> QED BY <1>3, <1>7, <2>1, <2>2, <3>1, <3>2, <3>3 DEF Kept
  <2> QED BY <1>5, <1>7, <2>1, <2>2, <2>3
<1>8. ASSUME NEW j \in Jobs, Copy(j), UNCHANGED input PROVE QemuInv'
  <2>1. /\ job[j].phase = "known" /\ UNCHANGED <<submitted, results, overlaps>>
        /\ Become(j, "ready", results[UidOf(j)].results)
        /\ DOMAIN job = Jobs
    BY <1>8 DEF Copy, QemuInv
  <2>2. /\ Jobs' = Jobs /\ DOMAIN job' = Jobs
        /\ job'[j].phase = "ready" /\ job'[j].copy = results[UidOf(j)].results
        /\ \A k \in Jobs : k # j => job'[k] = job[k]
    BY <2>1, BecomeFacts
  <2>3. ASSUME NEW i \in Jobs, Safe(i)' PROVE Kept(i)'
    <3>1. i # j /\ Safe(i)
      BY <1>3, <1>8, <2>1, <2>2, <2>3 DEF Safe
    <3>2. Kept(i)
      BY <3>1 DEF QemuInv
    <3>3. UidOf(j) = UidOf(i) => i.arch \in DOMAIN job'[j].copy
      BY <2>2, <3>2 DEF Kept
    <3> QED BY <1>3, <1>8, <2>1, <2>2, <3>1, <3>2, <3>3 DEF Kept
  <2> QED BY <1>5, <1>8, <2>1, <2>2, <2>3
<1>9. ASSUME NEW j \in Jobs, Write(j), UNCHANGED input PROVE QemuInv'
  <2> DEFINE found == PutEntry(job[j].copy, j.arch, RunResult(j))
             entry == [path |-> container.files[j.file].path, results |-> found]
             waiting == {k \in Jobs \ {j} : UidOf(k) = UidOf(j) /\ job[k].phase \in {"known", "ready"}}
  <2>1. /\ job[j].phase = "ready" /\ submitted' = submitted
        /\ results' = PutEntry(results, UidOf(j), entry)
        /\ overlaps' = overlaps \union {<<j, k>> : k \in waiting}
        /\ Become(j, "done", <<>>)
        /\ DOMAIN job = Jobs
    BY <1>9 DEF Write, WriteWith, QemuInv
  <2>2. /\ Jobs' = Jobs /\ DOMAIN job' = Jobs /\ job'[j].phase = "done"
        /\ \A k \in Jobs : k # j => job'[k] = job[k]
    BY <2>1, BecomeFacts
  <2>3. DOMAIN found = DOMAIN job[j].copy \union {j.arch}
    BY DEF PutEntry
  <2>4. entry.results = found
    OBVIOUS
  <2> HIDE DEF found, entry
  <2>5. /\ DOMAIN results' = DOMAIN results \union {UidOf(j)}
        /\ results'[UidOf(j)] = entry
        /\ \A u \in DOMAIN results : u # UidOf(j) => results'[u] = results[u]
    BY <2>1 DEF PutEntry
  <2>6. ASSUME NEW i \in Jobs, i # j, Safe(i)' PROVE Kept(i)'
    <3>1. Safe(i)
      BY <1>3, <1>9, <2>1, <2>2, <2>6 DEF Safe
    <3>2. Kept(i)
      BY <3>1 DEF QemuInv
    <3>3. CASE UidOf(i) = UidOf(j)
      <4>1. i.arch \in DOMAIN job[j].copy
        BY <2>1, <2>6, <3>2, <3>3 DEF Kept
      <4> QED BY <1>3, <1>9, <2>2, <2>3, <2>4, <2>5, <3>2, <3>3, <4>1 DEF Kept
    <3>4. CASE UidOf(i) # UidOf(j)
      BY <1>3, <1>9, <2>2, <2>5, <3>2, <3>4 DEF Kept
    <3> QED BY <3>3, <3>4
  <2>7. ASSUME Safe(j)' PROVE Kept(j)'
    <3>1. waiting = {}
      BY <2>1, <2>2, <2>7 DEF Safe
    <3>2. \A k \in Jobs : k # j /\ UidOf(k) = UidOf(j) => job'[k].phase # "ready"
      BY <2>2, <3>1
    <3> QED BY <1>3, <1>9, <2>2, <2>3, <2>4, <2>5, <3>2 DEF Kept
  <2> QED BY <1>5, <1>9, <2>1, <2>2, <2>6, <2>7
<1> QED BY <1>1, <1>2, <1>4, <1>6, <1>7, <1>8, <1>9 DEF QemuNext

\* process_qemu_job reads and writes the results of a file in two steps, without a lock: for
\* any container, number of threads and order of the jobs, the result of an architecture
\* that is missing in the end was written while another job of the file was between the two.
THEOREM QemuResultsLostOnlyByOverlap == QemuSpec => []ResultsLostOnlyByOverlap
<1>1. input = Nothing /\ QemuInit => QemuInv
  BY DEF QemuInit, QemuInv, Jobs, Range
<1>2. QemuInv /\ [(PickContainer /\ UNCHANGED qemuVars) \/ (QemuNext /\ UNCHANGED input)]_<<input, qemuVars>> => QemuInv'
  BY QemuStep
<1>3. QemuInv => ResultsLostOnlyByOverlap
  BY DEF QemuInv, ResultsLostOnlyByOverlap, Finished, Safe, Kept
<1> QED BY <1>1, <1>2, <1>3, PTL DEF QemuSpec
=============================================================================
