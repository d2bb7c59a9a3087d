------------------------------ MODULE ComparePlugins ------------------------------
(* A comparison: the order of the plugins, which of them are skipped, and what the  *)
(* plugins File_Coverage, Software and File_Header compute; and the tree in which    *)
(* the web interface shows changed text files (filter.py).                           *)
EXTENDS Inputs, Naturals, FiniteSetsExt, SequencesExt, Functions

CONSTANTS PluginSetups,    \* order, dependencies, and plugins that lack an analysis
          Comparisons,     \* the compared objects with their files, similar and text files
          HeaderSets,      \* the contents of the compared files
          ChangedFiles,    \* sequences of paths with the number of changed pairs of files
          BytesToShow, ColumnWidth

--------------------------------------------------------------------------------
(* schedule_comparison_plugins: depth-first search. An error ends the visit of one    *)
(* plugin of the outer loop and leaves the marks of the plugins on its way.          *)
RECURSIVE Visit(_, _, _), VisitDependencies(_, _, _)
Visited(st, p) == [st EXCEPT !.temp = @ \ {p}, !.visited = @ \union {p}, !.sorted = Append(@, p)]
Visit(deps, st, p) ==
    IF p \in st.temp THEN [st EXCEPT !.failed = TRUE]
    ELSE IF p \in st.visited THEN st
    ELSE LET after == VisitDependencies(deps, [st EXCEPT !.temp = @ \union {p}], deps[p])
         IN  IF after.failed THEN after ELSE Visited(after, p)
VisitDependencies(deps, st, ds) ==
    IF ds = <<>> \/ st.failed THEN st
    ELSE IF Head(ds) \notin DOMAIN deps THEN [st EXCEPT !.failed = TRUE]
    ELSE VisitDependencies(deps, Visit(deps, st, Head(ds)), Tail(ds))
ScheduleComparisonPlugins(s) ==
    FoldLeft(LAMBDA st, p : Visit(s.deps, [st EXCEPT !.failed = FALSE], p),
             [temp |-> {}, visited |-> {}, sorted |-> <<>>, failed |-> FALSE], s.order).sorted

\* Mutant: the result of a skipped plugin is good enough
DependencyIsMissing(results, d) == d \notin DOMAIN results

\* compare: a plugin is skipped if an analysis is missing, or the result of another
\* plugin that it builds on, be it skipped itself.
DependencyIsMissingOrSkipped(results, d) == d \notin DOMAIN results \/ results[d] = "skipped"
ComparePlugin(s, results, p) ==
    (p :> IF p \in s.lacksAnalysis \/ \E d \in Range(s.deps[p]) : DependencyIsMissingOrSkipped(results, d)
          THEN "skipped" ELSE "compared") @@ results
ExecuteComparePlugins(s) ==
    FoldLeft(LAMBDA results, p : ComparePlugin(s, results, p), <<>>, ScheduleComparisonPlugins(s))

--------------------------------------------------------------------------------
(* File_Coverage; Software does the same with names of software. A comparison: the    *)
(* objects in order, each with the set all of its files and the set direct of those   *)
(* right below it; pairs of similar files; what the short form of a uid is.           *)
Rest(c, i) == (DOMAIN c.objects) \ {i}
GetExclusive(c, i) == c.objects[i].all \ UNION {c.objects[k].all : k \in Rest(c, i)}
GetIntersection(c) == {f \in c.objects[1].all : \A k \in DOMAIN c.objects : f \in c.objects[k].all}
GetInMoreThanOne(c, i) == (c.objects[i].all \ GetIntersection(c)) \ GetExclusive(c, i)

\* The exclusive files of an object are compared with the files right below the later ones.
ObjectPairs(c) == {<<i, k>> \in (DOMAIN c.objects) \X (DOMAIN c.objects) : i < k}
SimilarFilePairs(c) ==
    UNION {{{<<p[1], f>>, <<p[2], g>>} : <<f, g>> \in {q \in GetExclusive(c, p[1]) \X c.objects[p[2]].direct : {q[1], q[2]} \in c.similar}} :
           p \in ObjectPairs(c)}
\* find_cliques of networkx
GenerateSimilaritySets(pairs) ==
    LET cliques == {s \in SUBSET UNION pairs : Cardinality(s) > 1 /\ \A x, y \in s : x # y => {x, y} \in pairs}
    IN  {s \in cliques : ~\E t \in cliques : s \subseteq t /\ s # t}
\* A group gets the first characters of all uids as its key, and one file per object.
GroupId(c, group) == {<<x[1], c.short[x[2]]>> : x \in group}
CombineSimilarityResults(c) ==
    LET groups == GenerateSimilaritySets(SimilarFilePairs(c))
        ShownFor(id) == CHOOSE g \in groups : GroupId(c, g) = id
    IN  [id \in {GroupId(c, g) : g \in groups} |->
            [i \in {x[1] : x \in ShownFor(id)} |-> (CHOOSE x \in ShownFor(id) : x[1] = i)[2]]]

\* Text files: [path, file] of the two firmware images, without the files in both.
ChangedTextFilesAll(c) ==
    {<<x.path, x.file, y.file>> : <<x, y>> \in {p \in c.objects[1].text \X c.objects[2].text : p[1].path = p[2].path}}
FindChangedTextFiles(c) ==
    {t \in ChangedTextFilesAll(c) : t[2] \notin GetIntersection(c) /\ t[3] \notin GetIntersection(c)}

--------------------------------------------------------------------------------
(* File_Header: the colours of the first bytes.                                     *)
LowerBound(binaries) ==
    LET lengths == {Len(binaries[i]) : i \in DOMAIN binaries} \union {BytesToShow}
    IN  CHOOSE n \in lengths : \A m \in lengths : n <= m
RECURSIVE AtLeastTwoAreCommon(_)
AtLeastTwoAreCommon(values) ==
    values # <<>> /\ (Last(values) \in Range(Front(values)) \/ AtLeastTwoAreCommon(Front(values)))
Colour(bytes) ==
    IF \A k \in 2 .. Len(bytes) : bytes[k] = bytes[1] THEN "green"
    ELSE IF AtLeastTwoAreCommon(bytes) THEN "blue" ELSE "red"
GetByteMask(binaries) == [i \in 1 .. LowerBound(binaries) |-> Colour([k \in DOMAIN binaries |-> binaries[k][i]])]
GetNumberOfRows(n) == IF n % ColumnWidth = 0 THEN n \div ColumnWidth ELSE n \div ColumnWidth + 1

--------------------------------------------------------------------------------
(* group_path_dict_by_dirs. A path is a sequence of names, and the tree a function from     *)
(* the paths of its nodes; a file has its pairs as value, a folder is marked. A folder      *)
(* cannot be entered where a file is; a file replaces a folder with all that is in it.      *)
Folder == [folder |-> TRUE, pairs |-> 0]
ChangedFile(n) == [folder |-> FALSE, pairs |-> n]
NoTree == [failed |-> FALSE, nodes |-> [p \in {} |-> Folder]]
Above(path) == {SubSeq(path, 1, n) : n \in 1 .. Len(path) - 1}
Kept(nodes, path) == [p \in {p \in DOMAIN nodes : path \notin Above(p)} |-> nodes[p]]
InsertPath(tree, file) ==
    IF tree.failed \/ \E p \in Above(file.path) \cap DOMAIN tree.nodes : ~tree.nodes[p].folder THEN [tree EXCEPT !.failed = TRUE]
    ELSE [tree EXCEPT !.nodes = (file.path :> ChangedFile(file.pairs)) @@ Kept(@, file.path) @@ [p \in Above(file.path) |-> Folder]]
GroupPathDictByDirs(files) == FoldLeft(InsertPath, NoTree, files)

\* render_changed_text_files shows the files below a folder, and how many there are
CountChangedFiles(tree, top) == MapThenSumSet(LAMBDA p : tree.nodes[p].pairs, {p \in DOMAIN tree.nodes : top \in Above(p)})
RenderChangedTextFiles(tree) == [p \in {p \in DOMAIN tree.nodes : tree.nodes[p].folder} |-> CountChangedFiles(tree, p)]

--------------------------------------------------------------------------------
PickSetup == Choose("setup", PluginSetups)
PickComparison == Choose("comparison", Comparisons)
PickHeaders == Choose("headers", HeaderSets)
PickChangedFiles == Choose("changed", ChangedFiles)

--------------------------------------------------------------------------------
\* What a plugin needs, directly or not.
RECURSIVE Needs(_, _)
Needs(deps, ps) ==
    LET more == ps \union UNION {Range(deps[p]) : p \in ps \cap DOMAIN deps}
    IN  IF more = ps THEN ps ELSE Needs(deps, more)
NeedsStrictly(deps, p) == IF p \in DOMAIN deps THEN Needs(deps, Range(deps[p])) ELSE {}
(* Every plugin whose dependencies are known and free of cycles is scheduled, once and  *)
(* after its dependencies, and no other, whatever fails before in the same loop.        *)
SchedulableIsScheduled ==
    LET s == input.arg  sorted == ScheduleComparisonPlugins(s)
        fine == {p \in DOMAIN s.deps : \A q \in Needs(s.deps, {p}) : q \in DOMAIN s.deps /\ q \notin NeedsStrictly(s.deps, q)}
    IN  Given("setup") =>
            /\ Range(sorted) = fine /\ IsInjective(sorted)
            /\ \A i \in DOMAIN sorted : Range(s.deps[sorted[i]]) \subseteq {sorted[k] : k \in 1 .. i - 1}

(* A plugin compares if and only if all that it builds on, directly or not, compared,   *)
(* and has its analyses: a plugin never reads the result of a skipped one.              *)
ComparedOnFullResults ==
    LET s == input.arg  results == ExecuteComparePlugins(s) IN
    Given("setup") => \A p \in DOMAIN results :
        results[p] = "compared" <=> \A q \in Needs(s.deps, {p}) : q \in DOMAIN s.deps /\ q \notin s.lacksAnalysis

(* Every file of an object is in exactly one of the lists: common to all, exclusive, or *)
(* in several but not in all, and of the last there is none for two objects.            *)
FilesArePartitioned ==
    LET c == input.arg IN
    Given("comparison") => \A i \in DOMAIN c.objects : \A f \in c.objects[i].all :
        LET owners == {k \in DOMAIN c.objects : f \in c.objects[k].all} IN
        /\ f \in GetIntersection(c) <=> owners = DOMAIN c.objects
        /\ f \in GetExclusive(c, i) <=> Cardinality(owners) = 1
        /\ f \in GetInMoreThanOne(c, i) <=> Cardinality(owners) \in 2 .. Len(c.objects) - 1

(* Similar files are shown next to each other, and none of a group is hidden by another *)
(* one of the same object, if the file of the later object is right below it: a file in  *)
(* a nested container is only compared when its firmware comes first. The exception are  *)
(* groups whose keys are equal, of which one is shown.                                   *)
SimilarFilesAreShown ==
    LET c == input.arg  shown == CombineSimilarityResults(c)
        groups == GenerateSimilaritySets(SimilarFilePairs(c))
    IN  Given("comparison") =>
            /\ \A g \in groups : Cardinality({x[1] : x \in g}) = Cardinality(g)
            /\ (\A g, h \in groups : GroupId(c, g) = GroupId(c, h) => g = h) =>
                  \A i, k \in DOMAIN c.objects : \A f \in c.objects[i].all, h \in c.objects[k].all :
                      i < k /\ {f, h} \in c.similar =>
                          ((\E id \in DOMAIN shown : /\ {i, k} \subseteq DOMAIN shown[id]
                                                     /\ shown[id][i] = f /\ shown[id][k] = h)
                           <=> h \in c.objects[k].direct /\ f \in GetExclusive(c, i))

(* A path with different text files in two firmware images is reported, unless one of   *)
(* the two files also exists in the other firmware, at whatever path.                    *)
ChangedTextIsReported ==
    LET c == input.arg IN
    Given("comparison") /\ Len(c.objects) = 2 =>
        \A x \in c.objects[1].text, y \in c.objects[2].text :
            x.path = y.path => (<<x.path, x.file, y.file>> \in FindChangedTextFiles(c)
                                <=> x.file \notin c.objects[2].all /\ y.file \notin c.objects[1].all)

(* The colour of a byte tells how many of the files agree on it, for every byte that all *)
(* files have, and the rows are just enough for them.                                    *)
HeaderColoursAreRight ==
    LET b == input.arg  mask == GetByteMask(b)  Agree(i) == {{m \in DOMAIN b : b[m][i] = b[k][i]} : k \in DOMAIN b} IN
    Given("headers") =>
        /\ \A i \in DOMAIN mask : mask[i] = IF Agree(i) = {DOMAIN b} THEN "green"
                                           ELSE IF \E s \in Agree(i) : Cardinality(s) > 1 THEN "blue" ELSE "red"
        /\ GetNumberOfRows(Len(mask)) * ColumnWidth \in Len(mask) .. Len(mask) + ColumnWidth - 1

Below(files, top) == {i \in DOMAIN files : top \in Above(files[i].path)}
FileAtFolder(files) == \E i, j \in DOMAIN files : files[i].path \in Above(files[j].path)

\* The number that a folder is shown with is the number of changed files below it. The page
\* fails if and only if a path of a file, in one container, is that of a folder in another
\* one and comes first; if it comes later, files are left out.
ChangedFilesAreCounted ==
    Given("changed") =>
        LET files == input.arg
            tree  == GroupPathDictByDirs(files)
            shown == RenderChangedTextFiles(tree)
        IN  /\ tree.failed <=> \E i, j \in DOMAIN files : i < j /\ files[i].path \in Above(files[j].path)
            /\ ~FileAtFolder(files) =>
                    /\ DOMAIN shown = UNION {Above(files[i].path) : i \in DOMAIN files}
                    /\ \A top \in DOMAIN shown : shown[top] = MapThenSumSet(LAMBDA i : files[i].pairs, Below(files, top))
            /\ (FileAtFolder(files) /\ ~tree.failed) => \E i \in DOMAIN files : files[i].path \notin DOMAIN tree.nodes
================================================================================
