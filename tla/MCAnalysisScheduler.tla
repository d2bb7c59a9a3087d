------------------------ MODULE MCAnalysisScheduler ------------------------
(* Small instances of AnalysisScheduler.                                   *)
EXTENDS AnalysisScheduler, TLC

CONSTANTS
    file_type, pa, pb, pc,                \* plugins
    image, a,                             \* a firmware and the file in it
    image_new, a_new,                     \* the analysis after unpacking
    image_update, a_update,               \* the update of the firmware
    a_single, a_forced,                   \* updates of the file
    image_single                          \* update of the firmware's own analyses

\* a chain of dependencies; pa and pc look at the file type, which does not suit pc
ChainDeps == file_type :> {} @@ pa :> {} @@ pb :> {pa} @@ pc :> {pb, file_type}

NotForA == {<<pc, a>>}

AllJobs == {image_new, a_new, image_update, a_update, a_single, a_forced, image_single}

UidOf == [j \in AllJobs |-> IF j \in {image_new, image_update, image_single} THEN image ELSE a]
RootOf == [j \in AllJobs |-> IF j \in {a_single, a_forced, image_single} THEN NoRoot ELSE image]
EntryOf ==
    image_new :> "firmware" @@ a_new :> "file" @@ image_update :> "update"
        @@ a_update :> "update_file" @@ a_single :> "single" @@ a_forced :> "single"
        @@ image_single :> "single"
RequestedOf ==
    image_new :> {pb} @@ a_new :> {pc} @@ image_update :> {pa, pb} @@ a_update :> {pa, pb}
        @@ a_single :> {pc} @@ a_forced :> {pa, pb} @@ image_single :> {pc}

\* an upload, an update, updates of one file that get in each other's way, and updates
\* of two files that do not
AllScenarios ==
    {{image_new, a_new}, {image_update, a_update}, {a_single, a_forced},
     {image_update, image_single}, {image_single, a_single}}

Empty == [uid \in {image, a} |-> [p \in {file_type, pa, pb, pc} |-> NoRecord]]
Row(kind, date, current) == [kind |-> kind, date |-> date, current |-> current]

\* analysed before: pa has a new version since, and the firmware is older still
Outdated ==
    [uid \in {image, a} |->
        file_type :> Row("ok", 1, 1) @@ pa :> Row("ok", 1, 0)
            @@ pb :> Row("ok", 2, IF uid = image THEN 0 ELSE 1) @@ pc :> NoRecord]

\* only the mandatory plugin ran
Partial ==
    [uid \in {image, a} |->
        file_type :> Row("ok", 1, 1) @@ pa :> NoRecord @@ pb :> NoRecord @@ pc :> NoRecord]

\* pa ran as well
Half ==
    [uid \in {image, a} |->
        file_type :> Row("ok", 1, 1) @@ pa :> Row("ok", 1, 1) @@ pb :> NoRecord @@ pc :> NoRecord]

\* pa failed last time: pb got no new row, and pc was skipped
Failed ==
    [uid \in {image, a} |->
        file_type :> Row("ok", 1, 1) @@ pa :> Row("failed", 1, 1)
            @@ pb :> Row("ok", 0, 1) @@ pc :> Row("missing", 2, 1)]

\* all ran; pa and pc have new versions since
Renewed ==
    [uid \in {image, a} |->
        file_type :> Row("ok", 1, 1) @@ pa :> Row("ok", 1, 0)
            @@ pb :> Row("ok", 2, 1) @@ pc :> Row("ok", 2, 0)]

AllDatabases == {Empty, Partial, Half, Outdated, Failed, Renewed}
=============================================================================
