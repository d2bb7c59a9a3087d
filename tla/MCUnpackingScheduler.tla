------------------------ MODULE MCUnpackingScheduler ------------------------
(* Small instances of UnpackingScheduler.                                  *)
EXTENDS UnpackingScheduler, TLC

CONSTANTS image, a, b, other, c1, c2

\* image contains a and b, both contain the file other, which contains a again:
\* a diamond (a file with two parents) and a cycle
DiamondContent == image :> {a, b} @@ a :> {other} @@ b :> {other} @@ other :> {a}

\* image and other are both uploaded, share b, and other is also a file of image
SharedContent == image :> {b, other} @@ other :> {b} @@ b :> {}

\* What the runs combine: a second upload and a cancel request with one error of the
\* extractor, or one upload with two errors, a container that vanishes and a shutdown
Combined ==
    \/ /\ budget.failures >= MaxFailures - 1
       /\ budget.deaths = MaxDeaths
       /\ budget.stops = MaxStops
    \/ /\ budget.cancels = MaxCancels
       /\ \A fw \in Firmware : budget.submissions[fw] >= MaxSubmissions - 1

ContainerSymmetry == Permutations({c1, c2})
=============================================================================
