---------------------------- MODULE MCFirmwareStore ----------------------------
EXTENDS FirmwareStore
CONSTANTS imageA, imageB, imageC, file

\* imageA and imageB share a file, and imageA is a file of imageC, which holds the
\* file a second time
ShareAndNest == [u \in Uids |->
    CASE u \in {imageA, imageB} -> {file} [] u = imageC -> {imageA, file} [] u = file -> {}]

Budget(threads, u, d, r, c) ==
    [threads |-> threads, uploads |-> u, deletes |-> d, redos |-> r, cancels |-> c]

SomeOfEach == {Budget(1, 2, 1, 0, 0), Budget(1, 1, 1, 1, 0), Budget(1, 1, 0, 1, 1),
               Budget(2, 1, 1, 0, 1), Budget(2, 2, 0, 0, 1)}
================================================================================
