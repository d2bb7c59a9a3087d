-------------------------------- MODULE FileTree --------------------------------
(* What the web interface shows of the content of a file: the file tree, which is    *)
(* unfolded level by level, the graph of linked libraries and the preview in hex.     *)
EXTENDS StoredFiles

CONSTANTS Trees,          \* a database, a root, the files it is narrowed down to, an order of rows
          Graphs,         \* the files of a directory tree, in the order of the query
          HexData,        \* sequences of bytes
          ChunkSize       \* the bytes of a line of the preview

--------------------------------------------------------------------------------
(* FileTreeNode: a directory is virtual and has no uid; the children of a node are a  *)
(* function from ids to nodes.                                                        *)
TreeNode(uid, virtual, name, hasChildren) ==
    [uid |-> uid, virtual |-> virtual, name |-> name, hasChildren |-> hasChildren, children |-> <<>>]
GetId(node) == <<node.name, node.virtual>>
RECURSIVE AddChildNode(_, _)
MergeNode(node, new) ==
    LET id == GetId(new)
        current == FoldSet(LAMBDA c, cur : AddChildNode(cur, new.children[c]), node.children[id], DOMAIN new.children)
    IN  [node EXCEPT !.children = (id :> current) @@ @]
AddChildNode(node, new) ==
    IF GetId(new) \in DOMAIN node.children THEN MergeNode(node, new)
    ELSE [node EXCEPT !.hasChildren = TRUE, !.children = (GetId(new) :> new) @@ @]

\* VirtualPathFileTree: the nodes of file u in the tree below parent
HasChildren(t, u) ==
    IF t.narrowed /\ t.whitelist # {} THEN \E f \in t.whitelist : f \in Children(t.db, u) ELSE Children(t.db, u) # {}
GetNodeForRealFile(t, u, name) == TreeNode(u, FALSE, name, HasChildren(t, u))
RECURSIVE CreateNodeFromVirtualPath(_, _, _)
CreateNodeFromVirtualPath(t, u, path) ==
    IF Len(path) > 1 THEN AddChildNode(TreeNode(None, TRUE, Head(path), FALSE), CreateNodeFromVirtualPath(t, u, Tail(path)))
    ELSE GetNodeForRealFile(t, u, path[1])
PathsIn(db, parent, u) == {v.path : v \in {v \in db.vfps : v.file = u /\ v.parent = parent}}
GetFileTreeNodes(t, parent, u) ==
    IF PathsIn(t.db, parent, u) = {} THEN {GetNodeForRealFile(t, u, u)}    \* by its file name
    ELSE {CreateNodeFromVirtualPath(t, u, p) : p \in PathsIn(t.db, parent, u)}

\* _generate_file_tree: the level below a file. Rows come in the order of the input.
ChildUids(t, parent) ==
    SelectSeq(t.order, LAMBDA u : u \in Children(t.db, parent) /\ (t.narrowed => u \in t.whitelist))
GenerateFileTree(t, parent) ==
    FoldLeft(LAMBDA root, u : FoldSet(LAMBDA n, r : AddChildNode(r, n), root, GetFileTreeNodes(t, parent, u)),
             TreeNode(None, FALSE, None, FALSE), ChildUids(t, parent))
\* convert_to_jstree_node: a file without nodes below it gets them when it is unfolded,
\* a directory has them: what is shown of a level are the files at their paths.
RECURSIVE JstreeNodes(_)
JstreeNodes(node) ==
    UNION {LET c == node.children[id] IN
           IF c.virtual THEN {[s EXCEPT !.path = <<c.name>> \o @] : s \in JstreeNodes(c)}
           ELSE {[uid |-> c.uid, path |-> <<c.name>>, unfolds |-> c.hasChildren]} : id \in DOMAIN node.children}

\* ajax_get_tree_root: without a parent the root has no path, and no directories above it
AjaxTreeRoot(t) == [uid |-> t.root, path |-> <<t.root>>, unfolds |-> HasChildren(t, t.root)]
AjaxTreeChildren(t, shown) == IF shown.unfolds THEN JstreeNodes(GenerateFileTree(t, shown.uid)) ELSE {}

--------------------------------------------------------------------------------
(* The dependency graph. An entry: uid, its paths, whether its type is one of a graph   *)
(* of programs, the names of its libraries, whether they are known, and a target if it  *)
(* is a link.                                                                           *)
GraphNodes(entries) ==
    FoldLeft(LAMBDA ns, e : IF e.program THEN ns \o [i \in DOMAIN e.paths |-> [id |-> e.paths[i], entry |-> e]] ELSE ns, <<>>, entries)
SymbolicLinkEdges(nodes) ==
    {[from |-> n.id, to |-> m.id, by |-> "link"] : n \in {n \in Range(nodes) : n.entry.target # <<>>},
       m \in Range(nodes)} \cap
    {[from |-> n.id, to |-> LinkPath(Front(n.id), n.entry.target), by |-> "link"] : n \in {n \in Range(nodes) : n.entry.target # <<>>}}
FindEdges(nodes, n, lib) ==
    LET fits == SelectSeq(nodes, LAMBDA m : Last(m.id) = lib)
    IN  IF fits = <<>> THEN {} ELSE {[from |-> n.id, to |-> fits[1].id, by |-> lib]}
DataGraph(entries) ==
    LET nodes == GraphNodes(entries)
        known == {n \in Range(nodes) : n.entry.analysed}
    IN  [nodes |-> nodes, missing |-> Cardinality({i \in DOMAIN nodes : ~nodes[i].entry.analysed}),
         edges |-> SymbolicLinkEdges(nodes) \union UNION {UNION {FindEdges(nodes, n, lib) : lib \in n.entry.libraries} : n \in known}]

--------------------------------------------------------------------------------
(* preview_data_as_hex. A line is a sequence of tokens: bytes and tags.                 *)
HighlightingClass(byte) ==
    CASE byte \in 65 .. 90 \union 97 .. 122 -> "number"
      [] byte \in 48 .. 57                   -> "built_in"
      [] byte \in 128 .. 254                 -> "keyword"
      [] byte \in {0, 255}                   -> "comment"
      [] OTHER                               -> None
SpanShouldClose(last, current) == last # None /\ current # last
SpanShouldOpen(last, current) == current # None /\ current # last
Token(kind, value) == [kind |-> kind, value |-> value]
HexToken(st, byte) ==
    LET class == HighlightingClass(byte) IN
    [last |-> class,
     out  |-> st.out \o (IF SpanShouldClose(st.last, class) THEN <<Token("close", None)>> ELSE <<>>)
                     \o (IF SpanShouldOpen(st.last, class) THEN <<Token("open", class)>> ELSE <<>>)
                     \o <<Token("byte", ToString(byte))>>]
HexLine(bytes) ==
    LET st == FoldLeft(HexToken, [last |-> None, out |-> <<>>], bytes)
    IN  st.out \o (IF st.last # None THEN <<Token("close", None)>> ELSE <<>>)
PreviewDataAsHex(data) ==
    [i \in 1 .. (Len(data) + ChunkSize - 1) \div ChunkSize |->
        HexLine(SubSeq(data, (i - 1) * ChunkSize + 1, IF i * ChunkSize <= Len(data) THEN i * ChunkSize ELSE Len(data)))]

PickTree == Choose("tree", Trees)
PickGraph == Choose("graph", Graphs)
PickHexData == Choose("hex", HexData)

--------------------------------------------------------------------------------
\* What is seen by a user who unfolds every node that can be unfolded.
RECURSIVE UnfoldAll(_, _)
UnfoldAll(t, shown) == {shown} \union UNION {UnfoldAll(t, c) : c \in AjaxTreeChildren(t, shown)}

(* Whoever unfolds the whole tree sees every file below the root at each of its paths,  *)
(* and in the tree of a comparison every file exclusive to the root. A path in a        *)
(* container that two files have (unpacked from it by different versions of an          *)
(* extractor) shows one of them.                                                        *)
UnfoldingShowsEverything ==
    LET t == input.arg
        shown == UnfoldAll(t, AjaxTreeRoot(t))
        wanted == {v \in t.db.vfps : v.parent \in FilesInFo(t.db, t.root) /\ (t.narrowed => v.file \in t.whitelist)}
        At(v) == {w \in wanted : w.parent = v.parent /\ w.path = v.path}
    IN  Given("tree") =>
            /\ \A v \in wanted : \E w \in At(v), s \in shown : s.uid = w.file /\ s.path = v.path
            /\ \A s \in shown : s.uid = t.root \/ \E v \in wanted : v.file = s.uid /\ v.path = s.path

(* A node that can be unfolded has something below it, unless the tree belongs to a       *)
(* firmware without exclusive files; a node that cannot hides nothing.                    *)
UnfoldsIffSomethingBelow ==
    LET t == input.arg IN
    Given("tree") => \A s \in UnfoldAll(t, AjaxTreeRoot(t)) :
        (s.unfolds <=> \E u \in Children(t.db, s.uid) : t.narrowed => u \in t.whitelist) \/ (t.narrowed /\ t.whitelist = {})

(* Every library that a program is linked against and that is found in the directory     *)
(* tree, be it by a link, is reached by exactly one edge; a link leads to the file it      *)
(* names even through "..", though an absolute target is not normalised.                    *)
LibrariesAreLinked ==
    LET entries == input.arg  g == DataGraph(entries)
        Named(lib) == {e \in Range(entries) : e.program /\ \E p \in Range(e.paths) : Last(p) = lib}
    IN  Given("graph") => \A e \in {e \in Range(entries) : e.program} : \A p \in Range(e.paths) :
            /\ \A lib \in e.libraries : e.analysed /\ Named(lib) # {} =>
                 Cardinality({x \in g.edges : x.from = p /\ Last(x.to) = lib /\ x.by = lib}) = 1
            /\ \A f \in Range(entries) : \A q \in Range(f.paths) :
                 (f.program /\ e.target # <<>> /\ Head(e.target) # "/" /\ q = NormPath(Front(p) \o e.target)) =>
                     [from |-> p, to |-> q, by |-> "link"] \in g.edges

(* In the preview every byte stands within a tag of its class and no other, tags never    *)
(* nest, and the lines hold the bytes in order.                                            *)
HexTagsMatchBytes ==
    LET lines == PreviewDataAsHex(input.arg)
        Open(l, i) == LET before == {k \in 1 .. i : l[k].kind # "byte"}
                      IN  IF before = {} THEN None ELSE l[CHOOSE k \in before : \A j \in before : j <= k].value
        bytes == FoldLeft(LAMBDA acc, l : acc \o SelectSeq(l, LAMBDA x : x.kind = "byte"), <<>>, lines)
    IN  Given("hex") =>
            /\ [i \in DOMAIN bytes |-> bytes[i].value] = [i \in DOMAIN input.arg |-> ToString(input.arg[i])]
            /\ \A n \in DOMAIN lines : LET l == lines[n]  of == SelectSeq(SubSeq(input.arg, (n - 1) * ChunkSize + 1, Len(input.arg)), LAMBDA b : TRUE) IN
                 /\ Open(l, Len(l)) = None
                 /\ \A i \in DOMAIN l : l[i].kind = "byte" =>
                        Open(l, i) = HighlightingClass(of[Cardinality({k \in 1 .. i : l[k].kind = "byte"})])
                 /\ \A i \in DOMAIN l : l[i].kind = "open" => Open(l, i - 1) = None
================================================================================
