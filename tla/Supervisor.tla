------------------------------- MODULE Supervisor -------------------------------
(* What the back end offers to look after its processes (helperFunctions/process.py   *)
(* and the methods check_exceptions of the schedulers). A process runs, has raised an  *)
(* exception (which it has sent), or was killed (it has sent nothing). The main loop   *)
(* does not call any of this; the properties say what a round of calls would do.       *)
EXTENDS Inputs, Integers, SequencesExt

CONSTANT Backends       \* processes of the back end and the option throw_exceptions

Proc(role, index, state) == [role |-> role, index |-> index, state |-> state]

\* start_single_worker passes the index to the function; _work_load_monitor takes none
StartSingleWorker(role, index) == Proc(role, index, IF role = "monitor" THEN "raised" ELSE "runs")

\* Mutant: only the process that was looked at last counts
FoundInLast(found, raised, throw) == raised /\ throw

\* check_worker_exceptions: elements are removed from, and appended to, the list that is
\* iterated over. Restart: a function for a new worker was passed. Ended: the processes
\* that were terminated with their children.
Found(found, raised, throw) == found \/ (raised /\ throw)
RECURSIVE CheckFrom(_, _, _, _, _)
CheckFrom(list, i, c, throw, restart) ==
    IF i > Len(list) THEN [c EXCEPT !.list = list]
    ELSE LET p      == list[i]
             raised == p.state = "raised"
             rest   == IF raised THEN RemoveAt(list, i) ELSE list
             new    == IF raised /\ ~throw /\ restart THEN <<StartSingleWorker(p.role, p.index)>> ELSE <<>>
             next   == [c EXCEPT !.found = Found(@, raised, throw), !.ended = IF raised THEN @ \union {p} ELSE @]
         IN  CheckFrom(rest \o new, i + 1, next, throw, restart)
CheckWorkerExceptions(list, throw, restart) == CheckFrom(list, 1, [list |-> <<>>, found |-> FALSE, ended |-> {}], throw, restart)

\* The methods check_exceptions. The one for the unpacking looks at the first element of a
\* list that may be empty, the one for the analysis hands over a list made for the call.
UnpackingCheck(b) ==
    LET c == CheckWorkerExceptions(<<b.monitor>>, b.throw, TRUE)
    IN  [b EXCEPT !.shutdown = @ \/ c.found, !.ended = @ \union c.ended, !.error = @ \/ c.list = <<>>, !.monitor = IF c.list = <<>> THEN @ ELSE c.list[1]]
ComparisonCheck(b) ==
    LET c == CheckWorkerExceptions(<<b.comparison>>, b.throw, TRUE)
    IN  [b EXCEPT !.shutdown = @ \/ c.found, !.ended = @ \union c.ended, !.comparison = IF c.found THEN @ ELSE c.list[1]]
AnalysisCheck(b) ==
    LET c == CheckWorkerExceptions(b.scheduling \o b.collecting, b.throw, FALSE)
    IN  [b EXCEPT !.shutdown = @ \/ c.found, !.ended = @ \union c.ended]
\* _exception_occurred: an error in the first one ends the round
ExceptionOccurred(b) == LET u == UnpackingCheck(b) IN IF u.error THEN u ELSE AnalysisCheck(ComparisonCheck(u))

PickBackend == Choose("backend", Backends)

--------------------------------------------------------------------------------
Watched(b) == {b.monitor, b.comparison} \union ToSet(b.scheduling) \union ToSet(b.collecting)
Raised(b) == \E p \in Watched(b) : p.state = "raised"

\* With throw_exceptions a round says whether any process it looks at has raised an
\* exception, unless the work load monitor has.
DeadWorkersAreNoticed ==
    Given("backend") =>
        LET b == input.arg
            r == ExceptionOccurred(b)
        IN  b.throw /\ b.monitor.state # "raised" => ~r.error /\ (r.shutdown <=> Raised(b))

\* Without throw_exceptions nothing ends the back end: a worker for comparisons that has
\* raised an exception is replaced by one that runs. A process that runs is neither
\* terminated nor replaced in any case.
ComparisonIsReplaced ==
    Given("backend") =>
        LET b == input.arg
            r == ExceptionOccurred(b)
        IN  /\ ~b.throw => /\ ~r.shutdown /\ ~r.error
                           /\ b.comparison.state = "raised" => r.comparison.state = "runs" /\ b.comparison \in r.ended
            /\ \A p \in Watched(b) : p.state = "runs" => p \in Watched(r) \ r.ended

RECURSIVE AfterRounds(_, _)
AfterRounds(list, n) == IF n = 0 THEN list ELSE AfterRounds(CheckWorkerExceptions(list, FALSE, TRUE).list, n - 1)

\* A list of workers that can be restarted is complete again after as many rounds as it has
\* elements. Every worker keeps its index, which is read from its name.
AllAreReplaced ==
    Given("backend") =>
        LET list == input.arg.scheduling \o input.arg.collecting
            all  == AfterRounds(list, Len(list))
        IN  /\ {p.index : p \in ToSet(all)} = {p.index : p \in ToSet(list)} /\ Len(all) = Len(list)
            /\ \A p \in ToSet(all) : p.state # "raised"

\* What rounds of check_exceptions achieve: an exception is noticed, or the worker replaced.
DeadProcessesAreReplaced ==
    /\ DeadWorkersAreNoticed
    /\ ComparisonIsReplaced
    /\ AllAreReplaced

\* What check_worker_exceptions says of itself: a process that has raised an exception is
\* terminated with its children. The iteration skips the element after a removed one.
DeadAreTerminated ==
    Given("backend") =>
        LET b == input.arg
            r == ExceptionOccurred(b)
        IN  ~r.error => \A p \in Watched(b) : p.state = "raised" => p \in r.ended
================================================================================
