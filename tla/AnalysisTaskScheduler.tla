----------------------- MODULE AnalysisTaskScheduler -----------------------
(***************************************************************************)
(* schedule_analysis_tasks (src/src/scheduler/task_scheduler.py): from the *)
(* analyses that are requested for a file to the list scheduled_analysis,  *)
(* from the end of which the analysis scheduler takes one after the other. *)
(*                                                                         *)
(* The requested plugins are closed under dependencies, the mandatory ones *)
(* are added, and the list is built from its end in waves: each wave holds *)
(* the plugins whose dependencies are in the list, in a random order.      *)
(* Finally file_type is moved to the end.  Every graph of dependencies is  *)
(* admitted, with cycles and with plugins that could not be loaded.        *)
(***************************************************************************)
EXTENDS AnalysisPlugins

CONSTANTS
    LoadedSets,       \* the sets of plugins that the back end may have imported
    DependencyGraphs  \* the dependency graphs to look at

ASSUME GraphsAssumption ==
    /\ LoadedSets \subseteq SUBSET Plugins
    /\ DependencyGraphs \subseteq [Plugins -> SUBSET Plugins]
    /\ \A g \in DependencyGraphs : g[FileType] = {}

VARIABLES
    loaded,      \* the keys of self.plugins
    deps,        \* deps[p]: metadata.dependencies of p
    requested,   \* the argument scheduled_analysis
    mandatory,   \* the argument mandatory: 0 or 1
    todo,        \* scheduled_analyses_set
    remaining,   \* remaining_plugins
    scheduled,   \* scheduled_plugins: the last element is analysed first
    phase        \* where the call is

arguments == <<loaded, deps, requested, mandatory>>
taskVars == <<loaded, deps, requested, mandatory, todo, remaining, scheduled, phase>>

TaskInit ==
    /\ loaded \in LoadedSets
    /\ deps \in DependencyGraphs
    /\ requested \in SUBSET Plugins
    /\ mandatory \in {0, 1}
    /\ todo = requested
    /\ remaining = {}
    /\ scheduled = <<>>
    /\ phase = "dependencies"

-----------------------------------------------------------------------------
\* self.plugins[plugin] raises KeyError for a plugin that is not loaded
MissingPlugin(plugins) == ~(plugins \subseteq loaded)

Fail ==
    /\ phase' = "error"
    /\ UNCHANGED <<arguments, todo, remaining, scheduled>>

\* Mutant: what is there already is not removed
CumulativeDependencies(plugins) == UNION {deps[p] : p \in plugins}

\* get_cumulative_remaining_dependencies
CumulativeRemaining(plugins) == (UNION {deps[p] : p \in plugins}) \ plugins

\* one turn of the loop of _add_dependencies_recursively
AddDependencies ==
    LET new == CumulativeRemaining(todo) IN
    /\ phase = "dependencies"
    /\ ~MissingPlugin(todo)
    /\ new # {}
    /\ todo' = todo \cup new
    /\ UNCHANGED <<arguments, remaining, scheduled, phase>>

DependenciesFail == phase = "dependencies" /\ MissingPlugin(todo) /\ Fail

\* the end of the loop, and the mandatory plugins
AddMandatory ==
    /\ phase = "dependencies"
    /\ ~MissingPlugin(todo)
    /\ CumulativeRemaining(todo) = {}
    /\ remaining' = IF mandatory = 1 THEN todo \cup Mandatory ELSE todo
    /\ phase' = "shuffle"
    /\ UNCHANGED <<arguments, todo, scheduled>>

-----------------------------------------------------------------------------
\* Mutant: a dependency in the same wave is enough
MetWithinWave ==
    {p \in remaining : deps[p] \subseteq Elements(scheduled) \cup remaining}

\* _get_plugins_with_met_dependencies
Met == {p \in remaining : deps[p] \subseteq Elements(scheduled)}

\* one turn of the loop of _smart_shuffle: the wave goes in front of the list
ShuffleWave ==
    /\ phase = "shuffle"
    /\ ~MissingPlugin(remaining)
    /\ Met # {}
    /\ \E wave \in Shuffled(Met) : scheduled' = wave \o scheduled
    /\ remaining' = remaining \ Met
    /\ UNCHANGED <<arguments, todo, phase>>

ShuffleFails == phase = "shuffle" /\ MissingPlugin(remaining) /\ Fail

\* everything is scheduled, or what remains cannot be (an error is logged)
ShuffleEnds ==
    /\ phase = "shuffle"
    /\ ~MissingPlugin(remaining)
    /\ Met = {}
    /\ phase' = "file_type"
    /\ UNCHANGED <<arguments, todo, remaining, scheduled>>

-----------------------------------------------------------------------------

\* remove and append
MoveToEnd(s, i) ==
    [k \in 1..Len(s) |->
        IF k < i THEN s[k] ELSE IF k < Len(s) THEN s[k + 1] ELSE s[i]]

\* "assure file type is first for blacklist functionality"
MoveFileType ==
    /\ phase = "file_type"
    /\ phase' = "done"
    /\ \/ /\ FileType \notin Elements(scheduled)
          /\ UNCHANGED scheduled
       \/ \E i \in 1..Len(scheduled) :
             /\ scheduled[i] = FileType
             /\ scheduled' = MoveToEnd(scheduled, i)
    /\ UNCHANGED <<arguments, todo, remaining>>

TaskNext ==
    \/ AddDependencies \/ DependenciesFail \/ AddMandatory
    \/ ShuffleWave \/ ShuffleFails \/ ShuffleEnds \/ MoveFileType

TaskSpec == TaskInit /\ [][TaskNext]_taskVars
TaskFairSpec == TaskSpec /\ WF_taskVars(TaskNext)

-----------------------------------------------------------------------------
(* Properties.                                                             *)

\* Each variable has its type.
TaskTypeOK ==
    /\ loaded \subseteq Plugins
    /\ deps \in DependencyGraphs
    /\ requested \subseteq Plugins
    /\ mandatory \in {0, 1}
    /\ todo \subseteq Plugins
    /\ remaining \subseteq Plugins
    /\ scheduled \in Seq(Plugins)
    /\ phase \in {"dependencies", "shuffle", "file_type", "done", "error"}

\* "Plugins can have dependencies, these have to be present before the depending
\* plugin can be run": whatever the random orders are, each dependency of an
\* element of the list stands behind it (and is analysed before it).
DependenciesRunFirst ==
    \A i \in 1..Len(scheduled) : \A d \in deps[scheduled[i]] :
        \E k \in i + 1..Len(scheduled) : scheduled[k] = d

\* No plugin is in the list twice: a file is analysed once per plugin.
NoPluginTwice ==
    \A i, k \in 1..Len(scheduled) : scheduled[i] = scheduled[k] => i = k

\* What was requested is in the list unless it cannot be: every plugin that is
\* left out has a dependency that is left out too or is not to be scheduled, as in
\* a cycle.
NothingIsForgotten ==
    phase = "done" =>
        /\ requested \cup (IF mandatory = 1 THEN Mandatory ELSE {})
              \subseteq Elements(scheduled) \cup remaining
        /\ \A p \in remaining : ~(deps[p] \subseteq Elements(scheduled))

\* file_type is analysed first, so that the later analyses can be skipped by type.
FileTypeFirst ==
    phase = "done" /\ FileType \in Elements(scheduled) =>
        scheduled[Len(scheduled)] = FileType

\* What schedule_analysis_tasks returns can be run from its end: dependencies
\* first, file_type before all, nothing twice and nothing left out without a reason.
ScheduleIsSound ==
    /\ DependenciesRunFirst
    /\ NoPluginTwice
    /\ NothingIsForgotten
    /\ FileTypeFirst

\* The loops of a call end, also for a graph with cycles.
SchedulingEnds == phase = "dependencies" ~> phase \in {"done", "error"}
=============================================================================
