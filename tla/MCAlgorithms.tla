------------------------------ MODULE MCAlgorithms ------------------------------
EXTENDS AnalysisTaskScheduler, QemuExec, FileSystemMetadata, SoftwareVulnerabilities, StoredFiles, Search, ComparePlugins, ConfigFiles, FileTree, Statistics, Users, Migration, Supervisor, CompareBasket

--------------------------------------------------------------------------------
(* schedule_analysis_tasks: every graph in which file_type has no dependency and     *)
(* file_hashes needs it; all plugins, or one of them could not be imported.          *)
SomeDependencies == {g \in [Plugins -> SUBSET Plugins] : g["file_type"] = {} /\ g["file_hashes"] = {"file_type"}}
AlmostAll == {Plugins, Plugins \ {"q"}, Plugins \ {"file_hashes"}}
NothingScheduled ==
    /\ loaded = Plugins
    /\ deps = [plugin \in Plugins |-> {}]
    /\ requested = {} /\ mandatory = 0
    /\ todo = {} /\ remaining = {} /\ scheduled = <<>>
    /\ phase = "done"
PickSchedule ==
    /\ NoInput /\ input' = [kind |-> "schedule"]
    /\ loaded' \in LoadedSets
    /\ deps' \in DependencyGraphs
    /\ requested' \in SUBSET Plugins
    /\ mandatory' \in {0, 1}
    /\ todo' = requested' /\ remaining' = {} /\ scheduled' = <<>>
    /\ phase' = "dependencies"

--------------------------------------------------------------------------------
(* qemu_exec: a file in two places, tried for two architectures; two files.        *)
Entries(outs) == Result([i \in DOMAIN outs |-> [names |-> <<i>>, out |-> outs[i]]])
Outs == {"usage", "failure", "silent", "late"}
Exe(path, uid, type, inside) == [path |-> path, uid |-> uid, type |-> type, inside |-> inside]
Container(folder, files, run) == [binary |-> FALSE, folder |-> folder, files |-> files, run |-> run]
OneFile(type, run) == Container(TRUE, <<Exe("a", "u", type, TRUE), Exe("b", "u", type, TRUE)>>, "u" :> run)
Works == Entries(<<"usage", "usage", "failure">>)
SomeContainers ==
    {OneFile({"x86"}, "x86_64" :> r @@ "i386" :> Works) : r \in {Works, Error("timeout"), Entries(<<"signal", "usage">>)}}
    \union {Container(f, <<Exe("a", "u", {"MIPS64", "MIPS"}, TRUE), Exe("b", "v", {"80386"}, i)>>,
                "u" :> ("mips64" :> Entries(outs) @@ "mips64el" :> Works) @@ "v" :> ("i386" :> Works)) :
                f \in BOOLEAN, i \in BOOLEAN, outs \in {<<"usage", "late">>, <<"silent", "usage">>}}
    \union {[Container(FALSE, <<>>, "u" :> ("arm" :> Entries(outs))) EXCEPT !.binary = TRUE] : outs \in [1 .. 5 -> Outs]}

--------------------------------------------------------------------------------
(* file_system_metadata: every mode of a file, and pairs of entries.               *)
Entry(mode, uid, uname, name, readable) == [mode |-> mode, uid |-> uid, uname |-> uname, name |-> name, readable |-> readable]
FileSystem(mime, fault, unpacker, entries) == [mime |-> mime, fault |-> fault, unpacker |-> unpacker, entries |-> entries]
Names == {<<"f">>, <<"bin", "f">>, <<"./", "bin", "f">>, <<"/", "f">>}
Modes == {{"regular", "ur"}, {"regular", "ur", "ux", "suid"}, {"regular", "sgid"}, {"link", "suid"}}
SomeFileSystems ==
    {FileSystem("yaffs", "none", "YAFFS", <<Entry({t} \union bits, 0, "", <<"f">>, TRUE)>>) : t \in {"regular", "link"}, bits \in SUBSET Bits}
    \union {FileSystem(m, f, "YAFFS", <<Entry(m1, u, IF u = 0 THEN "root" ELSE "", n1, TRUE), Entry(m2, 1 - u, "root", n2, r)>>) :
        m \in {"filesystem", "archive"}, f \in {"none", "broken", "umount"}, m1 \in Modes, m2 \in Modes, u \in {0, 1}, n1 \in Names, n2 \in Names, r \in BOOLEAN}
    \union {FileSystem(m, "none", "7z", <<Entry({"regular", "suid"}, 0, "root", <<"f">>, TRUE)>>) : m \in {"yaffs", "other"}}

--------------------------------------------------------------------------------
(* cve_lookup and software_components.                                             *)
Cpe(product, version) == [product |-> product, version |-> version]
Match(cpe, vulnerable, si, se, ei, ee) == [cpe |-> cpe, vulnerable |-> vulnerable,
    startIncluding |-> si, startExcluding |-> se, endIncluding |-> ei, endExcluding |-> ee]
Impact(cvss, score, primary) == [cvss |-> cvss, score |-> score, primary |-> primary]
Cve(id, impact, matches) == [id |-> id, impact |-> impact, matches |-> matches]
Request(feed, product, versions, matchAny) ==
    [feed |-> feed, software |-> [product |-> product, versions |-> versions], matchAny |-> matchAny, minimum |-> 90]
Ranges == {m \in [cpe : {Cpe(<<"linux", "kernel">>, AnyVersion), Cpe(<<"kernel">>, 3), Cpe(<<"7">>, 3)}, vulnerable : BOOLEAN,
               startIncluding : {0, 2}, startExcluding : {0, 2}, endIncluding : {0, 3}, endExcluding : {0, 4}] :
               m.cpe.version = AnyVersion \/ Unbounded(m)}
Ratings == {<<Impact("V3.1", 95, FALSE), Impact("V3.1", 50, TRUE)>>, <<Impact("V2", 95, TRUE), Impact("V2", 50, FALSE)>>,
            <<Impact("V2", 40, FALSE), Impact("V3.1", 91, FALSE), Impact("V2", 99, FALSE)>>}
SomeFeeds ==
    {Request(<<Cve("cve1", r, <<m>>)>>, <<"linux", "kernel", "7">>, <<v>>, a) :
        r \in Ratings, m \in Ranges, v \in {1, 2, 3, 4, 5, AnyVersion, Unparsable}, a \in BOOLEAN}
    \union {Request(<<Cve("cve1", <<>>, <<m1, m2>>), Cve(id, <<>>, <<Match(Cpe(<<"kernel">>, 3), TRUE, 0, 0, 0, 0)>>)>>, <<"linux", "kernel">>, vs, FALSE) :
        m1 \in Ranges, m2 \in {m \in Ranges : m.startExcluding = 0 /\ m.endIncluding = 0}, vs \in {<<3, 2>>, <<2>>, <<>>}, id \in {"cve1", "cve2"}}
Tools == {"ash", "awk", "cat", "wget", "df"}
SomeBusyboxFiles ==
    [blocks : {<<>>, <<Tools>>, <<{"awk", "cat"}>>, <<{"awk", "df"}, Tools>>},
     mentions : SUBSET ({"wget", "udhcp"} \X {"plain", "quoted", "underscore"})]
BusyboxInputs == {[blocks |-> f.blocks, mentions |-> {[word |-> m[1], form |-> m[2]] : m \in f.mentions}] : f \in SomeBusyboxFiles}
SomeSoftware == [name : {"Linux Kernel", "VxWorks", "BusyBox"}, version : {0, 4}]
SoftwareInputs == UNION {[1 .. n -> SomeSoftware] : n \in 0 .. 3}
OsNames == <<"Linux Kernel", "VxWorks">>

--------------------------------------------------------------------------------
(* The tables: two firmware images, the second possibly found in the first, and two *)
(* files, one of which may include the other.                                      *)
Edges == {<<"fw1", "fw2">>, <<"fw1", "a">>, <<"fw2", "a">>, <<"fw1", "b">>, <<"fw2", "b">>, <<"a", "b">>}
Vfp(parent, file, path) == [parent |-> parent, file |-> file, path |-> path]
Database(edges, vfps, plugins) == [files |-> {"fw1", "fw2", "a", "b"}, firmware |-> {"fw1", "fw2"}, included |-> edges, vfps |-> vfps, plugins |-> plugins]
PluginSets == [{"fw1", "fw2", "a", "b"} -> {{}, {"p"}, {"p", "q"}}]
SomeDatabases ==
    {Database(es, {Vfp(e[1], e[2], <<"dir", e[2]>>) : e \in es}, [u \in {"fw1", "fw2", "a", "b"} |-> {}]) :
        es \in {es \in SUBSET Edges : {"a", "b"} \subseteq {e[2] : e \in es}}}
    \union {Database(es, {Vfp(e[1], e[2], <<"dir", e[2]>>) : e \in es}, ps) : es \in {{<<"fw1", "fw2">>, <<"fw2", "a">>, <<"a", "b">>}, {<<"fw1", "a">>, <<"fw2", "a">>, <<"fw2", "b">>}}, ps \in PluginSets}
ATag(type, value, propagate) == [type |-> type, value |-> value, propagate |-> propagate]
SomeTags == UNION {[1 .. n -> {ATag("t", "x", TRUE), ATag("t", "y", TRUE), ATag("t", "z", TRUE), ATag("o", "w", TRUE), ATag("t", "x", FALSE)}] : n \in 0 .. 5}
LinkDatabase == Database({<<"fw1", "a">>, <<"fw1", "fw2">>, <<"fw2", "a">>, <<"fw2", "b">>, <<"fw1", "b">>},
    {Vfp("fw1", "a", <<"sbin", "ln">>), Vfp("fw1", "b", <<"bin", "x">>), Vfp("fw1", "fw2", <<"sbin", "x">>),
     Vfp("fw2", "a", <<"usr", "bin", "ln">>), Vfp("fw2", "b", <<"x">>)}, [u \in {"fw1", "fw2", "a", "b"} |-> {}])
SomeLinks == {[db |-> LinkDatabase, file |-> f, root |-> r, target |-> t] : f \in {"a", "b"}, r \in {"fw1", "fw2"},
                t \in {<<"x">>, <<"..", "bin", "x">>, <<"..", "..", "x">>, <<"..", "..", "..", "x">>, <<"/", "x">>, <<"/", "bin", "x">>}}

--------------------------------------------------------------------------------
(* Searches: two firmware images, a file in one of them and one in both.            *)
Row(uid, name, vendor, roots, analyses) == [uid |-> uid, name |-> name, vendor |-> vendor, roots |-> roots, analyses |-> analyses]
Analysed(plugin, value) == [plugin |-> plugin, value |-> value]
SearchDb == {Row("fw1", 1, 1, {}, {Analysed("p", 2)}), Row("fw2", 2, 2, {}, {}),
             Row("a", 2, 0, {"fw1"}, {Analysed("p", 1), Analysed("file_hashes", 2)}), Row("b", 1, 0, {"fw1", "fw2"}, {})}
Op(op, arg) == [op |-> op, arg |-> arg, dumps |-> 0]
Cond(table, plugin, ops) == [table |-> table, plugin |-> plugin, ops |-> ops]
SomeConditions == {Cond("analysis", "p", <<Op("=", {1})>>), Cond("analysis", "p", <<Op("$gt", {1})>>), Cond("analysis", "file_hashes", <<Op("$ne", {1})>>),
    Cond("analysis", "p", <<Op("$gt", {1}), Op("$lt", {3})>>), Cond("analysis", "file_hashes", <<Op("$in", {2})>>), Cond("analysis", "p", <<Op("$contains", {1})>>),
    Cond("firmware", "", <<Op("=", {1})>>), Cond("firmware", "", <<Op("$ne", {1})>>),
    Cond("file", "", <<Op("$like", {1})>>), Cond("file", "", <<Op("$gt", {1}), Op("$lt", {3})>>), Cond("file", "", <<Op("$unknown", {1})>>)}
Conjunctions == {<<>>} \union {<<c>> : c \in SomeConditions} \union {<<c, d>> : c \in SomeConditions, d \in SomeConditions}
SomeQueries == {[or |-> <<>>, and |-> cs] : cs \in Conjunctions}
       \union {[or |-> cs, and |-> <<Cond("firmware", "", <<Op("=", {1})>>)>>] : cs \in Conjunctions \ {<<>>}}
SomeRequests == [db : {SearchDb}, query : SomeQueries, vendor : {0, 1}, cached : BOOLEAN, onlyFirmware : BOOLEAN, inverted : BOOLEAN]
SomeForms == [db : {SearchDb}, form : [vendors : SUBSET {1, 2}, names : {{}, {1}, {2}}, hash : {0, 1, 2}]]
SomePages == [keys : UNION {[1 .. n -> 1 .. 3] : n \in 1 .. 4}, perPage : {2, 3}]
SomeBinarySearches == UNION {[1 .. n -> [rule : {"r1", "r2"}, found : {{}, {"a"}}]] : n \in 0 .. 3}

--------------------------------------------------------------------------------
(* Comparisons: four plugins with all dependencies of the last three; two or three  *)
(* objects with four files.                                                        *)
Deps(d1, d2, d3, d4) == [p1 |-> d1, p2 |-> d2, p3 |-> d3, p4 |-> d4]
SomeSetups == [order : {<<"p1", "p2", "p3", "p4">>, <<"p4", "p3", "p2", "p1">>, <<"p2", "p4", "p1", "p3">>},
    deps : {Deps(d1, d2, d3, d4) : d1 \in {<<"p2", "p3">>, <<"p2">>, <<"p4">>}, d2 \in {<<>>, <<"p4">>, <<"p4", "gone">>}, d3 \in {<<>>, <<"p4">>, <<"p2">>}, d4 \in {<<>>, <<"gone">>, <<"p1">>}},
    lacksAnalysis : {{}, {"p4"}, {"p2"}}]
Obj(all, direct, text) == [all |-> all, direct |-> direct, text |-> text]
TextAt(path, file) == [path |-> path, file |-> file]
FileSets == {{"f"}, {"f", "g"}, {"g", "h"}, {"h", "k"}, {"f", "k"}}
Similarities == {{{"f", "g"}}, {{"f", "h"}, {"g", "k"}}, {{"f", "g"}, {"g", "h"}, {"f", "h"}}}
ShortForms == {[f |-> 1, g |-> 2, h |-> 3, k |-> 4], [f |-> 1, g |-> 2, h |-> 1, k |-> 2]}
SomeComparisons ==
    {[objects |-> <<Obj(a, {"f", "g"} \cap a, {TextAt("x", f) : f \in a}), Obj(b, d \cap b, {TextAt("x", CHOOSE f \in b : TRUE), TextAt("y", "k")})>>, similar |-> s, short |-> n] :
        a \in FileSets, b \in FileSets, d \in {{"f", "g", "h"}, {"h", "k"}}, s \in Similarities, n \in ShortForms}
    \union {[objects |-> <<Obj(a, a, {}), Obj(b, b, {}), Obj(c, c, {})>>, similar |-> s, short |-> n] :
        a \in FileSets, b \in FileSets, c \in FileSets, s \in Similarities, n \in ShortForms}
SomeHeaders == UNION {[1 .. n -> {<<1>>, <<1, 2, 3>>, <<1, 3, 3, 2, 1>>, <<2, 2, 2, 2, 2>>, <<1, 2, 2, 2>>}] : n \in 2 .. 4}

--------------------------------------------------------------------------------
(* Configuration files of up to four lines.                                        *)
LinesOf(forms, n) == UNION {[1 .. k -> forms] : k \in 0 .. n}
SomeCandidates == [mime : {"none", "config", "unsuitable", "plain", "plain but binary"}, extension : {"config", "unsuitable", "other"},
                   loaded : BOOLEAN, content : {"parameters", "script", "empty"}]
SomePlain == {ls \in LinesOf({[form |-> f, key |-> "k", value |-> 1] : f \in {"kv", "kvspace", "spaced", "spacedquoted", "pair", "triple", "quoted", "second", "word", "comment"}}, 3) : ls # <<>>}
XmlTag(tag, name, value) == [tag |-> tag, name |-> name, value |-> value]
SomeXml == LinesOf({XmlTag("open", "a", 0), XmlTag("open", "b", 0), XmlTag("close", "a", 0), XmlTag("close", "b", 0), XmlTag("inline", "a", 1), XmlTag("inline", "c", 2)}, 4)
    \union {<<XmlTag("open", "a", 0), XmlTag("open", "b", 0), XmlTag("inline", "c", 1), XmlTag("close", "b", 0), x, y>> :
              x \in {XmlTag("inline", "c", 2), XmlTag("close", "b", 0)}, y \in {XmlTag("close", "a", 0), XmlTag("inline", "a", 3)}}
SomeToml == LinesOf({[tag |-> "header", name |-> <<"s">>, value |-> 0], [tag |-> "header", name |-> <<"s", "t">>, value |-> 0],
                     [tag |-> "key", name |-> <<"k">>, value |-> 1], [tag |-> "key", name |-> <<"k">>, value |-> 2], [tag |-> "key", name |-> <<"j">>, value |-> 3]}, 4)
SomeCsv == LinesOf({<<"a">>, <<"a", "b">>, <<"b", "a">>, <<"a", "b", "c">>, <<"x", "y", "z">>}, 3)
SomeYaml == LinesOf([indent : {0, 2, 4}, key : {"a", "b"}, value : {"", "v"}], 3)
    \union {<<[indent |-> 0, key |-> "a", value |-> ""]>> \o ls : ls \in [1 .. 3 -> [indent : {0, 2, 4}, key : {"b"}, value : {"", "v"}]]}
ConfigFile(uid, parents, path, treePaths, parameters) == [uid |-> uid, parents |-> parents, path |-> path, treePaths |-> treePaths, parameters |-> parameters]
PathsTo(f) == {<<"fw1", "c", f>>, <<"fw2", "c", f>>, <<"fw1", "d", f>>, <<"fw2", f>>, <<"fw3", "c", f>>, <<"fw2", "c", "d", f>>}
ParentsIn(ps) == SetToSeq({p[Len(p) - 1] : p \in Range(ps)})
SomePathSets(f) == {ps \in UNION {[1 .. n -> PathsTo(f)] : n \in 1 .. 2} : IsInjective(ps)}
SomeConfigTrees ==
    {[firmware |-> <<"fw1", "fw2">>, files |-> <<ConfigFile("f", ParentsIn(ps), [p \in Range(ParentsIn(ps)) |-> "x"], ps, n),
                                                 ConfigFile("g", ParentsIn(qs), [p \in Range(ParentsIn(qs)) |-> y], qs, "some")>>] :
        ps \in SomePathSets("f"), qs \in {<<<<"fw1", "d", "g">>>>, <<<<"fw2", "g">>, <<"fw1", "c", "g">>>>}, n \in {"some", CsvFailure}, y \in {"x", "y"}}

--------------------------------------------------------------------------------
(* File trees: a database in which paths share directories, a file has the name of a *)
(* directory, and two files have the same path.                                      *)
TreePaths(f) == {{<<"x">>}, {<<"d", "x">>, <<"d", "e", f>>}, {<<"d">>}}
TreeDatabase(es, pa, pb) == Database(es, {Vfp(e[1], e[2], p) : e \in {e \in es : e[2] = "a"}, p \in pa} \union {Vfp(e[1], e[2], p) : e \in {e \in es : e[2] = "b"}, p \in pb}
    \union {Vfp(e[1], e[2], <<"fw">>) : e \in {e \in es : e[2] = "fw2"}}, [u \in {"fw1", "fw2", "a", "b"} |-> {}])
SomeTrees ==
    {[db |-> TreeDatabase(es, pa, pb), root |-> "fw1", narrowed |-> n, order |-> o,
      whitelist |-> IF n THEN FilesInFo(TreeDatabase(es, pa, pb), "fw1") \ (FilesInFo(TreeDatabase(es, pa, pb), "fw2") \union {"fw1"}) ELSE {}] :
        es \in {es \in SUBSET Edges : {"a", "b"} \subseteq {e[2] : e \in es}}, pa \in TreePaths("a"), pb \in TreePaths("b"), n \in BOOLEAN,
        o \in {<<"a", "b", "fw2">>, <<"fw2", "b", "a">>}}
GraphEntry(uid, paths, program, analysed, libraries, target) ==
    [uid |-> uid, paths |-> paths, program |-> program, analysed |-> analysed, libraries |-> libraries, target |-> target]
SomeGraphs ==
    {<<GraphEntry("p", pp, TRUE, an, {"l.so", "m.so"}, <<>>), GraphEntry("l", lp, lib, TRUE, ls, <<>>), GraphEntry("s", <<<<"lib", "m.so">>, <<"m.so">>>>, TRUE, TRUE, {}, t)>> :
        pp \in {<<<<"bin", "p">>>>, <<<<"bin", "p">>, <<"p">>>>}, an \in BOOLEAN, lib \in BOOLEAN, ls \in {{}, {"m.so"}},
        lp \in {<<<<"lib", "l.so">>>>, <<<<"usr", "l.so">>, <<"lib", "l.so">>>>, <<<<"usr", "k.so">>>>},
        t \in {<<"l.so">>, <<"..", "usr", "l.so">>, <<"..", "lib", "l.so">>, <<"/", "lib", "l.so">>, <<"/", "usr", "..", "lib", "l.so">>}}
SomeHexData == UNION {[1 .. n -> {0, 48, 65, 90, 97, 127, 128, 254, 255}] : n \in 0 .. 4} \union [1 .. 5 -> {1, 65, 200}]

--------------------------------------------------------------------------------
(* Statistics: two firmware images of one vendor and one of another, the second of     *)
(* which may be a file of the first; two files.                                        *)
StatObject(uid, roots, mime, packed, archs, software) == [uid |-> uid, roots |-> roots, mime |-> mime, packed |-> packed, archs |-> archs, software |-> software]
Image(uid, vendor) == [uid |-> uid, vendor |-> vendor]
Component(name, version) == [name |-> name, version |-> version]
Arm == <<"ARM", "32-bit", "little">>
ArmBig == <<"ARM", "32-bit", "big">>
Mips == <<"MIPS">>
SomeStatsDatabases ==
    {[firmware |-> {Image(1, 1), Image(2, v2), Image(3, 2)},
      objects |-> {StatObject(1, {}, "img", TRUE, {}, {Component("linux", 4)}), StatObject(2, r2, "img", p2, {Arm}, {}), StatObject(3, {}, "fs", FALSE, {}, {}),
                   StatObject(4, r4, m4, TRUE, a4, {Component("busybox", 1), Component("busybox", 2)}), StatObject(5, r5, "elf", p2, a5, s5)}] :
        v2 \in {1, 2}, r2 \in {{}, {1}}, p2 \in BOOLEAN, r4 \in {{1}, {1, 2}, {3}, {1, 2, 3}}, m4 \in {"img", "elf"}, a4 \in {{}, {Arm}, {ArmBig}},
        r5 \in {{1}, {2, 3}}, a5 \in {{Arm, Mips}, {Mips}}, s5 \in {{}, {Component("linux", 5)}}}
Dates == {<<1970, 1>>, <<1999, 11>>, <<1999, 12>>, <<2000, 3>>, <<2002, 1>>}
SomeReleaseDates == {{[year |-> d[1], month |-> d[2], count |-> IF d[2] = 12 THEN 2 ELSE 1] : d \in ds} : ds \in SUBSET Dates}
SomeSummaryCounts == UNION {[ks -> {1, 2, 5}] : ks \in SUBSET {"enabled", "partially", "disabled", "other"}}

--------------------------------------------------------------------------------
(* Records: texts that are special in HTML or not, an empty field with a list, tags.     *)
Upload(v, vl, p, pl, d, ts, f, x) ==
    [text |-> [vendor |-> v, device_part |-> p, version |-> Text("1")], list |-> [vendor |-> vl, device_part |-> pl], date |-> d, tags |-> ts, file |-> f, unknownPlugin |-> x]
SomeUploads ==
    {Upload(v, vl, p, pl, d, ts, f, x) : v \in {Empty, Text("acme"), Text("a&b"), [w |-> "a&b", esc |-> 1]}, vl \in {Text("missing"), Text("new entry"), Text("acme")}, p \in {Empty, Text("kernel"), Text("complete")},
        pl \in {Text("missing"), Text("complete"), Text("new entry")}, d \in {"", "2020-02-02", "2/2/2020"}, ts \in {{}, {Text("t")}, {Text("t"), Text("a&b")}}, f \in BOOLEAN, x \in BOOLEAN}
SomeRedos == {r \in [redo : BOOLEAN, answer : {"timeout", "unknown", "empty", "binary"}, hasFileName : BOOLEAN, date : {"", "2020-02-02", "2/2/2020"}, exists : BOOLEAN] :
                 r.answer # "timeout" => (r.exists <=> r.answer # "unknown")}
SomeRestRequests ==
    [query : {"absent", "empty", "dict", "list", "text"}, recursive : {"absent", "bool", "int", "text"}, inverted : {"absent", "bool", "text"},
     offset : {"absent", "int", "text"}, summary : {"absent"}, update : {"absent"}, known : {TRUE}, plugins : {{}}]
    \union [query : {"absent"}, recursive : {"absent"}, inverted : {"absent"}, offset : {"absent"}, summary : {"absent", "bool", "text", "int"},
            update : {"absent", "empty", "list", "text", "dict"}, known : BOOLEAN, plugins : SUBSET {"unpacker", "supported", "unknown"}]
Leaves == {Value("str", FALSE, <<>>), Value("str", TRUE, <<>>), Value("bytes", FALSE, <<>>), Value("num", FALSE, <<>>)}
Lists == {Value(t, FALSE, <<Item("", FALSE, v)>>) : t \in {"list", "tuple"}, v \in Leaves}
DeepLists == {Value("list", FALSE, <<Item("", FALSE, v)>>) : v \in Lists} \union {Value("list", FALSE, <<Item("", FALSE, Value("dict", FALSE, <<Item("k", TRUE, v)>>))>>) : v \in Leaves}
SomePluginData ==
    {Value("dict", FALSE, <<Item("k", n1, v1), Item(k2, n2, v2)>>) : n1, n2 \in BOOLEAN, k2 \in {"k", "l"}, v1 \in Leaves \union Lists, v2 \in Leaves \union DeepLists}
        \ {Value("dict", FALSE, <<Item("k", n, v1), Item("k", n, v2)>>) : n \in BOOLEAN, v1 \in Leaves \union Lists, v2 \in Leaves \union DeepLists}
SomeArchives == {[db |-> d, fw |-> "fw1", lost |-> l, rounds |-> n] :
    d \in {d \in SomeDatabases : \A u \in d.files : d.plugins[u] = {}}, l \in {{}, {"a"}, {"fw2"}}, n \in 0 .. 2}

--------------------------------------------------------------------------------
(* Migration: two firmware images, one of which may be a file of the other; paths that    *)
(* contain a separator; files of one or of two firmware images in MongoDB.                *)
SchemaDatabase(es, vfps) ==
    [files |-> {"fw1", "fw2", "a", "b"}, firmware |-> {"fw1", "fw2"}, included |-> es, vfps |-> vfps, old |-> [u \in {"fw1", "fw2", "a", "b"} |-> {}],
     revision |-> 6, cascade |-> {"analysis", "included_files", "fw_files", "compared_files", "firmware"},
     indexes |-> {"analysis", "included_files", "fw_files", "virtual_file_path", "result_gin"}, matchData |-> "matches", comments |-> TRUE]
SomeSchemas ==
    {[db |-> SchemaDatabase(es, {Vfp(e[1], e[2], IF e[2] = "b" THEN p ELSE <<"x">>) : e \in {e \in es : e \notin no}}), to |-> to] :
        es \in {es \in SUBSET Edges : {"a", "b"} \subseteq {e[2] : e \in es}}, p \in {<<"y">>, <<"y", "z">>}, no \in {{}, {<<"a", "b">>}}, to \in 0 .. 5}
Mongo(order, fs, inc, paths) ==
    [firmwares |-> order, files |-> fs, included |-> inc, paths |-> paths, analyses |-> [u \in {"fw1", "fw2", "a", "b"} |-> <<"p", "q">>],
     comparisons |-> {{"fw1", "fw2"}}]
MongoPaths(inc) == [u \in {"a", "b", "fw2"} |-> {r \in {"fw1", "fw2"} : u # r /\ (u \in inc[r] \/ \E w \in {"a", "fw2"} : w \in inc[r] /\ u \in inc[w])}]
SomeMongos ==
    {[mongo |-> Mongo(o, fs, inc, MongoPaths(inc)), crash |-> c] :
        o \in {<<"fw1", "fw2">>, <<"fw2", "fw1">>}, fs \in {{"a", "b"}, {"a", "b", "fw2"}}, c \in 0 .. 12,
        inc \in {[fw1 |-> i1, fw2 |-> i2, a |-> ia, b |-> {}] : i1 \in {{"a"}, {"a", "b"}, {"fw2"}, {"a", "fw2"}}, i2 \in {{}, {"b"}, {"a"}}, ia \in {{}, {"b"}}}}
ConsistentMongos == {m \in SomeMongos : "fw2" \in m.mongo.files <=> "fw2" \in m.mongo.included["fw1"]}

--------------------------------------------------------------------------------
(* Users: nobody yet, or an administrator who also holds a role that is not in ROLES.   *)
SomeBaskets == {NoBasket, Basket({"u1"}), Basket({"u1", "u2"})}
SomeUserDatabases ==
    {[users |-> [i \in {} |-> 0], links |-> NoLinks, roles |-> {}],
     [users |-> <<[email |-> "x", legal |-> TRUE]>>, links |-> [l \in {<<1, "guest">>, <<1, "extra">>} |-> 1], roles |-> {"guest", "extra"}]}

--------------------------------------------------------------------------------
(* Supervisor: every process of the back end may have died.                             *)
Field(ref, file) == [reference |-> ref, file |-> file]
SomeFields == {Field(FALSE, "none")} \union {Field(TRUE, f) : f \in {"loads", "gone", "no_class"}}
SomeStoredResults == {[flag |-> b, fields |-> <<x, y, z>>] : b \in BOOLEAN, x, y, z \in SomeFields}
States == {"runs", "raised", "killed"}
SomeBackends ==
    {[monitor |-> Proc("monitor", 0, m), comparison |-> Proc("comparison", 0, c), scheduling |-> <<Proc("runner", 0, r1), Proc("runner", 1, r2)>>,
      collecting |-> <<Proc("collector", 2, k1), Proc("collector", 3, k2)>>, throw |-> t, shutdown |-> FALSE, error |-> FALSE, ended |-> {}] :
        m, c, r1, r2, k1, k2 \in States, t \in BOOLEAN}

--------------------------------------------------------------------------------
(* Known vulnerabilities: lists of at most two items with two keys, one may be missing,  *)
(* or of something else; a library found twice.                                          *)
KeyValue(k, v) == IF v = "missing" THEN <<>> ELSE <<[key |-> k, v |-> IF v = "list" THEN List(<<Leaf("x")>>) ELSE Leaf(v)]>>
SomeItems(values) == {Leaf("x")} \union {Dict(KeyValue("k1", v) \o KeyValue("k2", w)) : v \in values, w \in {"missing", "x"}}
ItemLists(values) == LET some == SomeItems(values) IN {<<>>} \union {<<i>> : i \in some} \union {<<i, j>> : i, j \in some}
OnResults(items) == Dict(<<[key |-> "p", v |-> Dict(<<[key |-> "list", v |-> List(items)]>>)]>>)
ListPath == <<"p", "list">>
KeyRules(path) == {<<Single(path \o <<<<"k1">>>>, r, Leaf("x")), Single(path \o <<<<"k2">>>>, "equals", Leaf("x"))>> : r \in {"exists", "equals"}}
ListRules == {<<Single(<<<<"k1">>>>, r, List(<<Leaf("x"), Leaf("y")>>))>> : r \in {"in", "intersection"}}
SomeRules == {Meta(rs, a) : rs \in KeyRules(<<ListPath>>), a \in BOOLEAN} \union {SubPath(<<ListPath>>, rs, a) : rs \in KeyRules(<<>>), a \in BOOLEAN}
SomeRuleInputs ==
    {[d |-> OnResults(items), rule |-> rule] : items \in ItemLists({"missing", "x", "y"}), rule \in SomeRules}
    \union {[d |-> OnResults(items), rule |-> SubPath(<<ListPath>>, rs, a)] : items \in ItemLists({"missing", "x", "list"}), rs \in ListRules, a \in BOOLEAN}
Library(name, version) == [name |-> name, versions |-> {version}]
SomeSoftwareOf == {Library("openssl", "1.0.1a"), Library("liblzma", "5.6.0"), Library("liblzma", "5.4"), Library("netusb", "1")}
SomeVulnerableFiles ==
    {[software |-> sw, yara |-> y, ghidra |-> g, hash |-> h] :
        sw \in {<<>>} \union {<<x>> : x \in SomeSoftwareOf} \union {<<x, z>> : x, z \in SomeSoftwareOf},
        y \in {<<>>, <<Vulnerability("rule", "high")>>, <<Vulnerability("rule", "low")>>}, g \in {"none", "vulnerable", "fixed"}, h \in BOOLEAN}

--------------------------------------------------------------------------------
(* Binary search: an image and two files, one inside the other; two rules. Strings with     *)
(* and without names and words. Filters: files and folders at the same path.                *)
Str(named, words) == [named |-> named, words |-> words]
StringLists == {<<>>, <<Str(TRUE, TRUE)>>, <<Str(FALSE, TRUE)>>, <<Str(TRUE, TRUE), Str(FALSE, TRUE), Str(TRUE, TRUE)>>, <<Str(TRUE, TRUE), Str(TRUE, FALSE), Str(TRUE, TRUE), Str(TRUE, FALSE)>>}
RuleMatches == {[rule |-> [name |-> r, long |-> r # "r"], strings |-> ss] : r \in {"r", "rule"}, ss \in StringLists}
SomeScans ==
    {[files |-> <<"fw", "a", "b">>, included |-> [fw |-> {"a"}], inFirmware |-> [fw |-> {"a", "b"}], compiles |-> c,
      matches |-> [fw |-> <<>>, a |-> <<m>>, b |-> <<n>>]] : c \in BOOLEAN, m, n \in RuleMatches}
    \union {[files |-> <<"fw", "a", "b">>, included |-> [fw |-> {"a"}], inFirmware |-> [fw |-> {"a", "b"}], compiles |-> TRUE,
      matches |-> [fw |-> <<m>>, a |-> <<>>, b |-> <<m>>]] : m \in RuleMatches}
ChangedPaths == {<<"x">>, <<"x", "y">>, <<"x", "z">>, <<"x", "y", "z">>, <<"w", "y">>}
SomeChangedFiles == {[i \in DOMAIN ps |-> [path |-> ps[i], pairs |-> i]] : ps \in {ps \in [1 .. 3 -> ChangedPaths] : Cardinality(ToSet(ps)) = 3}}
SomeRoleSets == SUBSET (ToSet(Roles) \union {"extra"})

--------------------------------------------------------------------------------
Init == input = Nothing /\ NothingScheduled /\ QemuInit /\ UsersInit /\ BasketInit
PickPlugin == PickRule \/ PickVulnerableFile \/ PickContainer \/ PickFileSystem \/ PickRequest \/ PickBusybox \/ PickSoftware
PickStored == PickDatabase \/ PickTags \/ PickLink \/ PickSearch \/ PickForm \/ PickPages \/ PickBinarySearches
PickCompared == PickSetup \/ PickComparison \/ PickHeaders
PickRecord == PickUpload \/ PickRedo \/ PickRestRequest \/ PickPluginData \/ PickArchive
PickMigration == PickStoredResult \/ PickBackend \/ PickCrash \/ PickSchema \/ PickMongo
PickView == PickChangedFiles \/ PickRoles \/ PickScan \/ PickTree \/ PickGraph \/ PickHexData
PickStatistics == PickStatsDatabase \/ PickReleaseDates \/ PickSummaryCounts
PickConfig == PickCandidate \/ PickPlain \/ PickXml \/ PickToml \/ PickCsv \/ PickYaml \/ PickConfigTree
Pick == PickPlugin \/ PickStored \/ PickCompared \/ PickConfig \/ PickView \/ PickStatistics \/ PickRecord \/ PickMigration
Next == \/ Pick /\ UNCHANGED <<taskVars, qemuVars, userVars, basketVars>>
        \/ (PickSchedule \/ (TaskNext /\ UNCHANGED input)) /\ UNCHANGED <<qemuVars, userVars, basketVars>>
        \/ QemuNext /\ UNCHANGED <<input, taskVars, userVars, basketVars>>
        \/ (PickUserDatabase \/ UsersNext) /\ UNCHANGED <<taskVars, qemuVars, basketVars>>
        \/ (PickBasket \/ BasketNext) /\ UNCHANGED <<taskVars, qemuVars, userVars>>
Spec == /\ Init /\ [][Next]_<<input, taskVars, qemuVars, userVars, basketVars>>
        /\ WF_taskVars(TaskNext)

--------------------------------------------------------------------------------
(* Properties of several modules.                                                     *)

\* The analysis plugins report what is in a file, and only that: owners and modes, software
\* with its CVEs, rules, and the tags that are propagated.
FindingsAreRight ==
    /\ FilemodeRoundTrip
    /\ FileIsFoundByPath
    /\ TagMeansRunsAsRoot
    /\ FoundIffAffected
    /\ CriticalTagIsJustified
    /\ ToolCveIsKept
    /\ OsIsPropagated
    /\ SubPathRuleIsAboutOneItem
    /\ MetaRuleNeedsCompleteItems
    /\ AffectedSoftwareIsReported

\* What the front end shows of the content of a firmware is what the tables hold: paths,
\* links, summaries, tags (StoredFiles), trees, libraries and bytes (FileTree); of a user,
\* the roles by their power; and the numbers of the statistics add up, by vendor and in
\* charts (StatisticUpdater).
ContentIsShown ==
    /\ TreePathsAreComplete
    /\ VfpsAreOfTheRoot
    /\ SummaryCoversAllFiles
    /\ OneRepairSuffices
    /\ TagsArrive
    /\ LinkTargetIsFound
    /\ UnfoldingShowsEverything
    /\ UnfoldsIffSomethingBelow
    /\ LibrariesAreLinked
    /\ HexTagsMatchBytes
    /\ RolesAreAHierarchy
    /\ VendorsAddUp
    /\ SoftwareOfImagesHasNoVendor
    /\ OneArchitecturePerFirmware
    /\ HistogramHasNoGaps
    /\ ChartLosesNothing

\* Searches in the database (query_conversion.py) and with YARA find what matches, page by
\* page, and nothing else.
SearchesFindMatches ==
    /\ SearchFindsWhatMatches
    /\ TotalIsTheNumberOfResults
    /\ VendorFilterApplies
    /\ BasicSearchFollowsForm
    /\ PagesShowEverything
    /\ LinkShowsLatestSearch
    /\ MatchesAreReported
    /\ InventedOnlyAfterUnreadable
    /\ SearchInFirmwareIsComplete

\* A comparison shows the differences of its objects: the plugins run on the results of
\* others, files, headers and configuration files are compared as they are.
DifferencesAreShown ==
    /\ SchedulableIsScheduled
    /\ ComparedOnFullResults
    /\ FilesArePartitioned
    /\ SimilarFilesAreShown
    /\ ChangedTextIsReported
    /\ HeaderColoursAreRight
    /\ ContentNeverDecides
    /\ AssignmentsAreShown
    /\ XmlFallbackAgrees
    /\ TomlKeysHaveTheirSection
    /\ CsvValuesAreKept
    /\ YamlKeysArePaths
    /\ ConfigIsShownForItsFirmware
    /\ ChangedFilesAreCounted
================================================================================
