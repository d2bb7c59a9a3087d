--------------------------- MODULE AnalysisPlugins ---------------------------
(* The plugins that analyse a file, and lists of them: what                *)
(* AnalysisTaskScheduler, which makes the lists, and AnalysisScheduler,    *)
(* which works through them, have in common.                               *)
EXTENDS Naturals, Sequences, FiniteSets

CONSTANTS
    Plugins,      \* names of plugins
    Mandatory,    \* MANDATORY_PLUGINS
    FileType      \* "file_type"

ASSUME PluginsAssumption ==
    /\ IsFiniteSet(Plugins)
    /\ FileType \in Mandatory
    /\ Mandatory \subseteq Plugins

Elements(s) == {s[i] : i \in 1..Len(s)}

\* shuffled: the sequences that hold each element of a set once
Shuffled(set) ==
    {s \in [1..Cardinality(set) -> set] : \A x \in set : \E i \in DOMAIN s : s[i] = x}
=============================================================================
