------------------------------- MODULE StoredFiles -------------------------------
(* What the front end reads from the tables of files: the firmware a file belongs  *)
(* to, its paths, its place in the file tree, links, summaries, propagated tags and *)
(* missing analyses.                                                                *)
EXTENDS Inputs, Naturals, FiniteSets, SequencesExt

CONSTANTS Databases,   \* snapshots of the tables, see Database in MCAlgorithms
          TagRows,     \* sequences of tags, in the order of the query for them
          Links        \* a directory with a target of a link

(* A database: the uids with a row in file_object and in firmware, the table         *)
(* included_files of pairs <<parent, child>>, the virtual file paths, and per uid the *)
(* plugins with an analysis.                                                         *)
Parents(db, u) == {e[1] : e \in {e \in db.included : e[2] = u}}
Children(db, u) == {e[2] : e \in {e \in db.included : e[1] = u}}

\* _get_files_in_files: children, and the children of children as long as there are any
FilesInFiles(db, uids) ==
    LET levels[n \in 0 .. Cardinality(db.files)] ==
            IF n = 0 THEN UNION {Children(db, u) : u \in uids} ELSE UNION {Children(db, u) : u \in levels[n - 1]}
    IN  UNION {levels[n] : n \in DOMAIN levels}
FilesInFo(db, u) == FilesInFiles(db, Children(db, u)) \union Children(db, u) \union {u}
\* fw_files: every file that was unpacked from a firmware has a row for it
FwFiles(db) == {<<r, f>> \in db.firmware \X db.files : f \in FilesInFo(db, r) \ {r}}
ParentFw(db, u) == {e[1] : e \in {e \in FwFiles(db) : e[2] = u}}
GetRootUid(db, u) ==    \* the first row of the query: any
    {e[1] : e \in {e \in FwFiles(db) : u \in {e[1], e[2]}}}

--------------------------------------------------------------------------------
(* Virtual file paths: rows [parent, file, path]. With a root, the rows are joined   *)
(* with the firmware images of the parent: a row appears once per join partner.      *)
None == "none"
JoinedVfps(db, u, root) ==
    {<<v, r>> \in db.vfps \X (db.firmware \union {None}) :
        /\ v.file = u
        /\ r \in ParentFw(db, v.parent) \/ (r = None /\ ParentFw(db, v.parent) = {})}
GetVfps(db, u, root) == {j \in JoinedVfps(db, u, root) : j[2] = root \/ j[1].parent = root}
GetHidFo(db, u, root) ==    \* some path, or the name of the file
    IF GetVfps(db, u, root) = {} THEN {<<u>>} ELSE {j[1].path : j \in GetVfps(db, u, root)}

\* get_objects_by_uid_list: the files that have a parent, and all firmware images
GetObjectsByUidList(db, uids) ==
    {[uid |-> u, class |-> "FileObject"] : u \in {u \in uids \cap db.files : Parents(db, u) # {}}}
    \union {[uid |-> u, class |-> "Firmware"] : u \in uids \cap db.firmware}

\* Mutant: only the parents of the file are looked up
PathsToParent(db, u) == {<<p, u>> : p \in Parents(db, u)}

\* get_file_tree_path: all paths that end in the file, upwards until nothing includes it
FileTreePaths(db, u) ==
    LET up[n \in 0 .. Cardinality(db.files)] == [f \in db.files |->
            IF Parents(db, f) = {} THEN {<<f>>}
            ELSE IF n = 0 THEN {} ELSE UNION {{Append(path, f) : path \in up[n - 1][p]} : p \in Parents(db, f)}]
    IN  up[Cardinality(db.files)][u]
PathsFromRoot(db, u, root) == {p \in FileTreePaths(db, u) : Head(p) = root}

--------------------------------------------------------------------------------
(* find_link_target: os.path.normpath on the directory of the link and the target,  *)
(* which are sequences of names; "/" starts an absolute target.                      *)
NormPath(path) == FoldLeft(LAMBDA acc, n : IF n = ".." THEN (IF acc = <<>> THEN <<>> ELSE Front(acc))
                                           ELSE IF n = "." THEN acc ELSE Append(acc, n), <<>>, path)
LinkPath(dir, target) == IF target # <<>> /\ Head(target) = "/" THEN Tail(target) ELSE NormPath(dir \o target)
FindLinkTarget(db, u, root, target) ==
    LET vfps       == {v \in db.vfps : v.file = u}
        candidates == {LinkPath(Front(v.path), target) : v \in vfps}
        inRoot     == {r \in FwFiles(db) : r[1] = root}
    IN  {v.file : v \in {v \in db.vfps : /\ v.parent \in {w.parent : w \in vfps} /\ v.path \in candidates
                                         /\ \E r \in inRoot : v.parent \in {r[1], r[2]}}}

--------------------------------------------------------------------------------
(* _collect_analysis_tags_from_children. The tags of one plugin come one after the   *)
(* other; a second value of a type gets the type and a number as its key.            *)
CollectTag(tags, t) ==
    IF ~t.propagate THEN tags
    ELSE LET key == IF <<t.type, 0>> \in DOMAIN tags /\ t.value \notin Range(tags)
                    THEN <<t.type, Cardinality(DOMAIN tags)>> ELSE <<t.type, 0>>
         IN  (key :> t.value) @@ tags
CollectTags(rows) == FoldLeft(CollectTag, <<>>, rows)

\* find_missing_analyses: files in a row for the firmware that miss one of its plugins
HasRow(db, u) == db.plugins[u] # {}
FindMissingAnalyses(db) ==
    {<<r, f>> \in FwFiles(db) : HasRow(db, r) /\ HasRow(db, f) /\ ~(db.plugins[r] \subseteq db.plugins[f])}

\* get_summary: the files of a firmware and itself, or all that a file contains
SummaryFiles(db, u) == IF u \in db.firmware THEN {e[2] : e \in {e \in FwFiles(db) : e[1] = u}} \union {u}
                       ELSE FilesInFo(db, u)

PickDatabase == Choose("database", Databases)
PickTags == Choose("tags", TagRows)
PickLink == Choose("link", Links)

--------------------------------------------------------------------------------
\* All sequences of files that start where nothing includes the file and follow the
\* table included_files.
IsTreePath(db, p) ==
    /\ Parents(db, Head(p)) = {}
    /\ \A i \in 1 .. Len(p) - 1 : <<p[i], p[i + 1]>> \in db.included
(* The file tree has exactly the paths from the outermost containers to the file. A   *)
(* firmware that was found inside of another one is never the start of a path: its    *)
(* files have no path when they are shown for it.                                     *)
TreePathsAreComplete ==
    LET db == input.arg IN
    Given("database") => \A u \in db.files :
        /\ FileTreePaths(db, u) = {p \in UNION {[1 .. n -> db.files] : n \in 1 .. Cardinality(db.files)} :
                                       Last(p) = u /\ IsTreePath(db, p)}
        /\ \A r \in ParentFw(db, u) : PathsFromRoot(db, u, r) = {} <=> Parents(db, r) # {}

(* The paths of a file inside of a firmware are those in the containers of the        *)
(* firmware and in the firmware itself, each of them once, unless the firmware is      *)
(* part of several others; it has a readable name whenever it has a path there.        *)
VfpsAreOfTheRoot ==
    LET db == input.arg IN
    Given("database") => \A u \in db.files, r \in db.firmware :
        /\ {j[1] : j \in GetVfps(db, u, r)} = {v \in db.vfps : v.file = u /\ (v.parent = r \/ r \in ParentFw(db, v.parent))}
        /\ Cardinality(GetVfps(db, u, r)) = Cardinality({j[1] : j \in GetVfps(db, u, r)}) \/ Cardinality(ParentFw(db, r)) > 1
        /\ (r \in ParentFw(db, u) => \A path \in GetHidFo(db, u, r) : path # <<u>>)

(* What the summary of a container is made of are all files below it, whatever the     *)
(* nesting; and a file is loaded once, but for a firmware inside of another one, which *)
(* comes both as a firmware and as a file.                                             *)
SummaryCoversAllFiles ==
    LET db == input.arg IN
    Given("database") => \A u \in db.files :
        /\ SummaryFiles(db, u) = {f \in db.files : f = u \/ \E p \in UNION {[1 .. n -> db.files] : n \in 2 .. Cardinality(db.files)} :
                                     Head(p) = u /\ Last(p) = f /\ \A i \in 1 .. Len(p) - 1 : <<p[i], p[i + 1]>> \in db.included}
        /\ Cardinality(GetObjectsByUidList(db, {u})) = 1 <=> ~(u \in db.firmware /\ Parents(db, u) # {})

(* Running the analyses that are reported as missing once is enough: nothing is      *)
(* reported afterwards, though a nested firmware gains plugins that way. What is      *)
(* never reported are files without any analysis.                                     *)
OneRepairSuffices ==
    LET db       == input.arg
        missing  == FindMissingAnalyses(db)
        Gained(u) == UNION {db.plugins[e[1]] : e \in {e \in missing : e[2] = u}}
        repaired == [db EXCEPT !.plugins = [u \in db.files |-> db.plugins[u] \union Gained(u)]]
    IN  Given("database") =>
            /\ FindMissingAnalyses(repaired) = {}
            /\ \A e \in FwFiles(db) : ~(repaired.plugins[e[1]] \subseteq repaired.plugins[e[2]]) => db.plugins[e[2]] = {}

(* A tag that propagates arrives at the firmware, unless another tag of its type came  *)
(* twice, the second time after it: the repetition replaces the first tag of the type. *)
TagsArrive ==
    Given("tags") => \A i \in DOMAIN input.arg :
        LET rows == input.arg  t == rows[i] IN
        t.propagate =>
            \/ t.value \in Range(CollectTags(rows))
            \/ \E n \in i + 1 .. Len(rows) : \E k \in 1 .. n - 1 : rows[k] = rows[n] /\ rows[k].type = t.type /\ rows[k].value # t.value

(* The target of a link is a file with the path that the link names, in a container    *)
(* that also holds the link and belongs to the firmware, and it is found if there is    *)
(* one.                                                                                 *)
LinkTargetIsFound ==
    Given("link") =>
        LET l == input.arg
            Resolves(path) == \E v \in l.db.vfps : v.file = l.file /\
                IF Head(l.target) = "/" THEN path = Tail(l.target)
                ELSE LET up == Cardinality({i \in DOMAIN l.target : l.target[i] = ".."})
                     IN  path = SubSeq(v.path, 1, (Len(v.path) - 1) - up) \o SelectSeq(l.target, LAMBDA n : n # "..")
        IN  FindLinkTarget(l.db, l.file, l.root, l.target) =
                {w.file : w \in {w \in l.db.vfps : /\ Resolves(w.path)
                    /\ \E v \in l.db.vfps : v.file = l.file /\ v.parent = w.parent
                    /\ (w.parent = l.root \/ l.root \in ParentFw(l.db, w.parent))}}
================================================================================
