-------------------------- MODULE MCAnalysisStatus --------------------------
(* Small instances of AnalysisStatus.                                      *)
EXTENDS AnalysisStatus, TLC

CONSTANTS image, a, w1, p1

\* image contains a, and a contains image
ChainContent == image :> {a} @@ a :> {image}
NestedFiles == image :> {a}
=============================================================================
