---------------------------- MODULE PluginRunner ----------------------------
(***************************************************************************)
(* What a PluginRunner (src/src/scheduler/analysis/plugin.py) promises to   *)
(* the analysis scheduler: a task that is queued waits, is taken by at most *)
(* as many workers as there are, and comes out again once, with an analysis *)
(* or with an exception.  Only a shutdown gives a task up.                  *)
(***************************************************************************)
EXTENDS Naturals, FiniteSets

CONSTANTS
    Tasks,      \* the file objects queued for the analysis of the plugin
    Workers     \* the processes of the plugin

VARIABLES
    waiting,    \* tasks in the in-queue
    running,    \* tasks that a worker is busy with
    outcome,    \* outcome[t]: how t came out, or "none"
    closing     \* 1 once the back end shuts down

vars == <<waiting, running, outcome, closing>>

Outcomes == {"analysis", "exception"}

Init ==
    /\ waiting = {}
    /\ running = {}
    /\ outcome = [t \in Tasks |-> "none"]
    /\ closing = 0

New(t) == t \notin waiting \cup running /\ outcome[t] = "none"

Queue(t) ==
    /\ New(t)
    /\ waiting' = waiting \cup {t}
    /\ UNCHANGED <<running, outcome, closing>>

Take(t) ==
    /\ t \in waiting
    /\ Cardinality(running) < Cardinality(Workers)
    /\ waiting' = waiting \ {t}
    /\ running' = running \cup {t}
    /\ UNCHANGED <<outcome, closing>>

Finish(t, o) ==
    /\ t \in running
    /\ running' = running \ {t}
    /\ outcome' = [outcome EXCEPT ![t] = o]
    /\ UNCHANGED <<waiting, closing>>

Close ==
    /\ closing' = 1
    /\ UNCHANGED <<waiting, running, outcome>>

GiveUp(t) ==
    /\ closing = 1
    /\ t \in running
    /\ running' = running \ {t}
    /\ outcome' = [outcome EXCEPT ![t] = "lost"]
    /\ UNCHANGED <<waiting, closing>>

Next ==
    \/ Close
    \/ \E t \in Tasks :
          Queue(t) \/ Take(t) \/ GiveUp(t) \/ \E o \in Outcomes : Finish(t, o)

Spec == Init /\ [][Next]_vars
=============================================================================
