--------------------------------- MODULE Inputs ---------------------------------
(* The input that a pure function of FACT is called with. A module of functions  *)
(* extends this one, has an action per function that chooses an input, and       *)
(* states what the functions promise as invariants on the input that was chosen. *)
VARIABLE input

Nothing == [kind |-> "nothing"]
NoInput == input = Nothing
Given(kind) == input.kind = kind

\* The function named kind is called with one of the arguments.
Choose(kind, arguments) ==
    /\ NoInput
    /\ \E a \in arguments : input' = [kind |-> kind, arg |-> a]
================================================================================
