------------------------------ MODULE MCComparison ------------------------------
EXTENDS Comparison, TLC
CONSTANTS image1, image2, file, shared

Contents == image1 :> {file, shared} @@ image2 :> {shared}
TwoBaskets == {{image1, image2}, {file, shared}}
ApiLists == {<<image2, image1>>, <<image1, image1>>}
================================================================================
