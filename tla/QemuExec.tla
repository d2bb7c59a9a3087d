-------------------------------- MODULE QemuExec --------------------------------
(* The plugin qemu_exec: the executables of a container are run in QEMU by a pool *)
(* of threads that share one dictionary of results.                               *)
EXTENDS Inputs, Naturals, FiniteSets, SequencesExt

CONSTANTS MaxWorkers,   \* threads of the pool, max_workers
          Containers    \* the containers that are analysed, see Container

VARIABLES submitted,    \* jobs in the order of their submission
          next,         \* index of the next entry of file_list
          job,          \* what a job knows: its phase and the copy tmp_dict
          results,      \* the shared dictionary, uid |-> [path, results]
          overlaps      \* history: <<j, k>> when j wrote between a look and a write of k

qemuVars == <<submitted, next, job, results, overlaps>>

--------------------------------------------------------------------------------
(* One execution. An output of a parameter is a name for stdout, stderr and the   *)
(* return code:                                                                   *)
(*   usage   output on stdout, return code 0       failure  stderr, return code 1  *)
(*   silent  no output                             late     killed after a second  *)
(*   signal  one of QEMU_ERRORS in the output                                      *)
Result(parameters) == [error |-> "none", parameters |-> parameters]
Error(e) == [error |-> e, parameters |-> <<>>]      \* a timeout, a process error, no JSON
NoResult == [error |-> "qemu", parameters |-> <<>>]

ArchToBin == << <<"aarch64", <<"aarch64">> >>, <<"ARM", <<"aarch64", "arm", "armeb">> >>,
    <<"MIPS32", <<"mipsel", "mips", "mipsn32", "mipsn32el">> >>,
    <<"MIPS64", <<"mips64", "mips64el">> >>,
    <<"MIPS", <<"mipsel", "mips", "mips64", "mips64el", "mipsn32", "mipsn32el">> >>,
    <<"80386", <<"i386">> >>, <<"80486", <<"x86_64", "i386">> >>, <<"x86", <<"x86_64", "i386">> >>,
    <<"PowerPC", <<"ppc", "ppc64", "ppc64le">> >>, <<"PPC", <<"ppc", "ppc64", "ppc64le">> >>,
    <<"Renesas SH", <<"sh4", "sh4eb">> >> >>

\* A full_type is the set of the names it contains: a "MIPS64" contains "MIPS" too.
FindArchSuffixes(fullType) ==
    LET found == {i \in DOMAIN ArchToBin : ArchToBin[i][1] \in fullType}
    IN  IF found = {} THEN <<>> ELSE ArchToBin[Min(found)][2]

ContainsQemuErrors(parameters) == \E i \in DOMAIN parameters : parameters[i].out = "signal"

\* The first two parameters with the same output become one entry, at the end.
MergeStep(r) ==
    LET pairs == {p \in (DOMAIN r) \X (DOMAIN r) : p[1] < p[2] /\ r[p[1]].out = r[p[2]].out}
        first == CHOOSE p \in pairs : \A q \in pairs : p[1] < q[1] \/ (p[1] = q[1] /\ p[2] <= q[2])
        i     == first[1]
        j     == first[2]
    IN  IF pairs = {} THEN r
        ELSE Append(RemoveAt(RemoveAt(r, j), i), [names |-> r[i].names \o r[j].names, out |-> r[i].out])
MergeIdenticalResults(r) == FoldLeft(LAMBDA acc, x : MergeStep(acc), r, r)

CheckQemuExecutability(run) ==
    CASE run.error # "none"                 -> run
      [] ContainsQemuErrors(run.parameters) -> NoResult
      [] OTHER                              -> Result(MergeIdenticalResults(run.parameters))

OutputWithoutErrorExists(out) == out = "usage"
ValidExecutionInResults(found) ==
    \E a \in DOMAIN found : /\ found[a].error = "none"
                            /\ \E i \in DOMAIN found[a].parameters :
                                    OutputWithoutErrorExists(found[a].parameters[i].out)

\* ParameterResult.from_result needs a return code; a parameter that was killed has
\* the entry "error" only.
FromResultFails(found) ==
    \E a \in DOMAIN found : \E i \in DOMAIN found[a].parameters : found[a].parameters[i].out = "late"

--------------------------------------------------------------------------------
(* One container: files are the executables found by _find_relevant_files, in      *)
(* order; run[uid][arch] is what the Docker container prints for them. With        *)
(* folder, the root path is the subdirectory fact_extracted, and a file that is    *)
(* outside of it has no path relative to the root.                                 *)
container == input.arg
RelativePathFails(c) == c.folder /\ \E i \in DOMAIN c.files : ~c.files[i].inside

Running == input.kind = "qemu" /\ ~container.binary /\ ~RelativePathFails(container)
SuffixesOf(i) == FindArchSuffixes(container.files[i].type)
JobsOf(i) == [k \in 1 .. Len(SuffixesOf(i)) |-> [file |-> i, arch |-> SuffixesOf(i)[k]]]
UidOf(j) == container.files[j.file].uid
Jobs == Range(submitted)
RunResult(j) == CheckQemuExecutability(container.run[UidOf(j)][j.arch])
Active == {j \in Jobs : job[j].phase \notin {"queued", "done"}}

QemuInit ==
    /\ submitted = <<>> /\ next = 1 /\ results = <<>> /\ overlaps = {}
    /\ job = <<>>

PickContainer == Choose("qemu", Containers)

\* _run_analysis_jobs: the next file, unless there are results for its uid.
Submit ==
    /\ Running /\ next <= Len(container.files)
    /\ submitted' = IF container.files[next].uid \in DOMAIN results THEN submitted
                    ELSE submitted \o JobsOf(next)
    /\ job' = [j \in Range(submitted') |-> IF j \in DOMAIN job THEN job[j] ELSE [phase |-> "queued", copy |-> <<>>]]
    /\ next' = next + 1
    /\ UNCHANGED <<results, overlaps>>

Become(j, phase, copy) == job' = [job EXCEPT ![j] = [phase |-> phase, copy |-> copy]]

\* A thread takes the first job of the queue and runs the container.
StartJob(j) ==
    /\ job[j].phase = "queued" /\ Cardinality(Active) < MaxWorkers
    /\ \A i \in DOMAIN submitted : job[submitted[i]].phase = "queued" => submitted[i] = j \/ \E k \in 1 .. i - 1 : submitted[k] = j
    /\ Become(j, IF RunResult(j) = NoResult THEN "done" ELSE "finished", <<>>)
    /\ UNCHANGED <<submitted, next, results, overlaps>>

\* process_qemu_job: `uid in results_dict`, the copy of the results, the write.
Look(j) ==
    /\ job[j].phase = "finished"
    /\ Become(j, IF UidOf(j) \in DOMAIN results THEN "known" ELSE "ready", <<>>)
    /\ UNCHANGED <<submitted, next, results, overlaps>>
Copy(j) ==
    /\ job[j].phase = "known"
    /\ Become(j, "ready", results[UidOf(j)].results)
    /\ UNCHANGED <<submitted, next, results, overlaps>>

PutEntry(f, k, v) == [x \in (DOMAIN f) \union {k} |-> IF x = k THEN v ELSE f[x]]
WriteWith(j, found) ==
    /\ job[j].phase = "ready"
    /\ results' = PutEntry(results, UidOf(j), [path |-> container.files[j.file].path, results |-> found])
    /\ overlaps' = overlaps \union {<<j, k>> : k \in {k \in Jobs \ {j} : UidOf(k) = UidOf(j) /\ job[k].phase \in {"known", "ready"}}}
    /\ Become(j, "done", <<>>)
    /\ UNCHANGED <<submitted, next>>
\* Mutant: the results of other architectures are not kept
WriteAlone(j) == WriteWith(j, j.arch :> RunResult(j))

Write(j) == WriteWith(j, PutEntry(job[j].copy, j.arch, RunResult(j)))

QemuNext == Submit \/ \E j \in Jobs : StartJob(j) \/ Look(j) \/ Copy(j) \/ Write(j)

QemuSpec ==
    /\ input = Nothing /\ QemuInit
    /\ [][(PickContainer /\ UNCHANGED qemuVars) \/ (QemuNext /\ UNCHANGED input)]_<<input, qemuVars>>

--------------------------------------------------------------------------------
Finished == Given("qemu") /\ (~Running \/ (next > Len(container.files) /\ \A j \in Jobs : job[j].phase = "done"))

\* The result of _process_container: a failure, or the results by uid.
Fails == RelativePathFails(container) \/ \E u \in DOMAIN results : FromResultFails(results[u].results)
Included == IF container.binary THEN <<>> ELSE results
Executable(u) == ValidExecutionInResults(Included[u].results)

\* The routes: the results of a file are looked up by its uid in its parents.
ResultForIncluded(u) == IF ~Fails /\ u \in DOMAIN Included THEN {Included[u]} ELSE {}

--------------------------------------------------------------------------------
(* Jobs for the same file read and write its entry in two steps: the result of an *)
(* architecture is missing in the end only if the job wrote it while another job   *)
(* of the file was between its look and its write.                                 *)
ResultsLostOnlyByOverlap ==
    Finished /\ Running => \A j \in Jobs :
        \/ RunResult(j) = NoResult
        \/ j.arch \in DOMAIN results[UidOf(j)].results
        \/ \E k \in Jobs : <<j, k>> \in overlaps

RunsOf(j) == container.run[UidOf(j)][j.arch]
Outputs(j) == {p.out : p \in Range(RunsOf(j).parameters)}

(* A file that could be executed in the container is shown as executable under the *)
(* path of one of its copies, unless its jobs overlapped, or the whole analysis      *)
(* failed: one executable outside of fact_extracted is enough for that, or one       *)
(* parameter that runs for more than a second.                                       *)
ExecutableIsShown ==
    Finished /\ Running /\ (\A j \in Jobs : "late" \in Outputs(j) => "signal" \in Outputs(j)) =>
        \A j \in Jobs :
            \/ "usage" \notin Outputs(j) \/ "signal" \in Outputs(j)
            \/ \E k \in Jobs : <<j, k>> \in overlaps
            \/ /\ Executable(UidOf(j))
               /\ \E i \in DOMAIN container.files, r \in ResultForIncluded(UidOf(j)) :
                    container.files[i] = [container.files[j.file] EXCEPT !.path = r.path]

(* Merging leaves one entry per output, which names exactly the parameters that    *)
(* had it.                                                                          *)
MergeIsByOutput ==
    Given("qemu") => \A u \in DOMAIN container.run : \A a \in DOMAIN container.run[u] :
        LET run    == container.run[u][a].parameters
            merged == MergeIdenticalResults(run)
        IN  /\ \A i, k \in DOMAIN merged : merged[i].out = merged[k].out => i = k
            /\ \A i \in DOMAIN run : \E k \in DOMAIN merged : merged[k].out = run[i].out
            /\ \A k \in DOMAIN merged :
                  Range(merged[k].names) = UNION {Range(e.names) : e \in {e \in Range(run) : e.out = merged[k].out}}

\* What is shown of an executable is what QEMU did with it, whatever the threads of the
\* pool overwrite, and equal outputs are merged.
QemuResultsAreShown ==
    /\ ResultsLostOnlyByOverlap
    /\ ExecutableIsShown
    /\ MergeIsByOutput
================================================================================
