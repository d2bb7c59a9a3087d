------------------------------- MODULE ConfigFiles -------------------------------
(* The comparison plugin file_config: which files are configuration files, how they *)
(* are parsed, and where their parameters are shown. A line of a file is what the   *)
(* expressions of the plugin tell apart.                                            *)
EXTENDS Inputs, Naturals, FiniteSets, SequencesExt

CONSTANTS Candidates,     \* files with name, type, and content
          PlainFiles, XmlFiles, TomlFiles, CsvFiles, YamlFiles,    \* sequences of lines
          ConfigTrees     \* the containers and files of the compared firmware images

--------------------------------------------------------------------------------
(* A candidate: class of its MIME type ("none" without file_type), of its extension,  *)
(* whether its content was loaded, and what the content looks like.                  *)
IsConfigFile(f) ==
    IF f.mime = "plain but binary" THEN FALSE
    ELSE IF f.mime \in {"config", "unsuitable"} THEN f.mime = "config"
    ELSE IF f.extension \in {"config", "unsuitable"} THEN f.extension = "config"
    ELSE f.loaded /\ f.mime # "none" /\ f.content = "parameters"
\* The files of a comparison come from the database, which does not load the content.
FilterConfigFiles(fs) == {f \in fs : IsConfigFile([f EXCEPT !.loaded = FALSE])}

--------------------------------------------------------------------------------
(* Lines of files without a format of their own:                                    *)
(*   kv "k=v", kvspace "k: v", spaced "k = v", spacedquoted 'k = "v w"',             *)
(*   pair "k v", triple "k j v", quoted 'k j "v w"', second "k j=v", word, comment.  *)
TwoWords == {"kvspace", "pair", "second"}
IsInvalid(form) == form \in (TwoWords \union {"quoted", "spacedquoted"}) \ {"second"}
IsDualKeyLine(form) == form \in {"triple", "spaced", "second"}
DetermineConfigType(lines) ==
    IF (\E l \in Range(lines) : IsInvalid(l.form)) \/ ~\E l \in Range(lines) : IsDualKeyLine(l.form)
    THEN "default" ELSE "dualkey"

\* A parameter has a key, a sequence of names, and a value; the last one of a key counts.
SetParameter(params, key, value) == (key :> value) @@ params
ParseHelperDefault(lines) ==
    FoldLeft(LAMBDA ps, l : IF l.form \in {"kv", "kvspace", "spaced", "spacedquoted"} THEN SetParameter(ps, <<l.key>>, l.value) ELSE ps,
             <<>>, lines)
\* Of "k = v" the first two words are the keys.
ParseHelperDualkey(lines) ==
    FoldLeft(LAMBDA ps, l : CASE l.form \in {"second", "triple", "quoted"} -> SetParameter(ps, <<l.key, "j">>, l.value)
                              [] l.form \in {"spaced", "spacedquoted"}     -> SetParameter(ps, <<l.key, "=">>, l.value)
                              [] OTHER                                     -> ps,
             <<>>, lines)
ParsePlain(lines) == IF DetermineConfigType(lines) = "dualkey" THEN ParseHelperDualkey(lines) ELSE ParseHelperDefault(lines)

--------------------------------------------------------------------------------
(* XML, one tag per line: [tag, name, value] with tag open, close or inline. The        *)
(* library parses what is well formed, the fallback the rest.                        *)
XmlPop(stack, l) == IF stack # <<>> /\ Last(stack) = l.name THEN Front(stack) ELSE stack
ParseHelperXmlRugged(lines) ==
    FoldLeft(LAMBDA st, l :
        CASE l.tag = "open"   -> [st EXCEPT !.stack = Append(@, l.name)]
          [] l.tag = "close"  -> [st EXCEPT !.stack = XmlPop(@, l)]
          [] l.tag = "inline" -> [st EXCEPT !.params = SetParameter(@, Append(st.stack, l.name), l.value)],
        [stack |-> <<>>, params |-> <<>>], lines).params

(* TOML lines: a header names a section, every other line has a key and a value.         *)
TomlLine(st, l) == IF l.tag = "header" THEN [st EXCEPT !.section = l.name]
                   ELSE [st EXCEPT !.params = SetParameter(@, st.section \o l.name, l.value)]
ParseHelperTomlRugged(lines) == FoldLeft(TomlLine, [section |-> <<>>, params |-> <<>>], lines).params

(* CSV lines are sequences of fields. Without any line there is no result at all.        *)
NoParameters == <<>>
CsvFailure == "failure"
CsvError == "error"
Csv(outcome, params) == [outcome |-> outcome, params |-> params]
PerLine(lines) == FoldLeft(LAMBDA ps, l : IF Len(l) >= 2 THEN SetParameter(ps, Front(l), Last(l)) ELSE ps, NoParameters, lines)
ParseHelperCsv(lines) ==
    CASE Len(lines) > 2 -> Csv("parsed", PerLine(lines))
      [] Len(lines) = 2 -> IF Len(lines[1]) # Len(lines[2]) THEN Csv(CsvError, NoParameters)
                           ELSE Csv("parsed", FoldLeft(LAMBDA ps, i : SetParameter(ps, <<lines[1][i]>>, lines[2][i]), NoParameters, [i \in DOMAIN lines[1] |-> i]))
      [] Len(lines) = 1 -> Csv("parsed", [k \in {<<f>> : f \in Range(lines[1])} |-> ""])
      [] Len(lines) = 0 -> Csv(CsvFailure, NoParameters)

(* YAML lines: indentation, key, and a value or "". The stack of parents also takes the  *)
(* keys that have a value.                                                               *)
PopToSmaller(stack, indent) == SelectSeq(stack, LAMBDA e : e.indent < indent)
YamlParents(stack, indent) == PopToSmaller(stack, indent)
YamlLine(st, l) ==
    LET parents == YamlParents(st.stack, l.indent) IN
    [stack  |-> Append(parents, l),
     params |-> IF l.value = "" THEN st.params
                ELSE SetParameter(st.params, [i \in DOMAIN parents |-> parents[i].key] \o <<l.key>>, l.value)]
ParseHelperYaml(lines) == FoldLeft(YamlLine, [stack |-> <<>>, params |-> <<>>], lines).params

--------------------------------------------------------------------------------
(* compare_function. A tree: the compared firmware, the sequence of configuration files, *)
(* each with its parents in order and its last path in each parent, the paths of uids     *)
(* that lead to it in order, and the number of its parameters (a csv file may fail).     *)
FirmwareRoot(t, f, parent) ==
    LET fits == SelectSeq(f.treePaths, LAMBDA p : parent \in Range(p) /\ Head(p) \in Range(t.firmware))
    IN  IF fits = <<>> THEN {} ELSE {Head(Head(fits))}
AddConfigFile(t, results, f) ==
    FoldLeft(LAMBDA rs, parent : IF FirmwareRoot(t, f, parent) = {} THEN rs
                                 ELSE (<<f.path[parent], CHOOSE r \in FirmwareRoot(t, f, parent) : TRUE>> :> f) @@ rs,
             results, f.parents)
CompareConfigFiles(t) ==
    IF \E f \in Range(t.files) : f.parameters = CsvFailure THEN [failed |-> TRUE, shown |-> <<>>]
    ELSE [failed |-> FALSE, shown |-> FoldLeft(LAMBDA rs, f : AddConfigFile(t, rs, f), <<>>, t.files)]

PickCandidate == Choose("candidate", Candidates)
PickPlain == Choose("plain", PlainFiles)
PickXml == Choose("xml", XmlFiles)
PickToml == Choose("toml", TomlFiles)
PickCsv == Choose("csv", CsvFiles)
PickYaml == Choose("yaml", YamlFiles)
PickConfigTree == Choose("config tree", ConfigTrees)

--------------------------------------------------------------------------------
(* What a file contains never decides: in a comparison a file is a configuration file   *)
(* by its type or else by its extension.                                                *)
ContentNeverDecides ==
    Given("candidate") => \A c \in {"parameters", "script", "empty"} :
        (FilterConfigFiles({input.arg}) # {}) <=> (FilterConfigFiles({[input.arg EXCEPT !.content = c]}) # {})

(* The assignments of a file are shown under their keys unless all that looks like a     *)
(* parameter looks like one with two keys. "k = v" does: a file with nothing else is      *)
(* shown with the equals sign as a second key, and "k=v" is not shown beside it.          *)
AssignmentsAreShown ==
    LET lines == input.arg
        assignments == {l \in Range(lines) : l.form \in {"kv", "kvspace", "spaced", "spacedquoted"}}
        helps == \E l \in Range(lines) : l.form \in {"kvspace", "pair", "quoted", "spacedquoted"}
        misleads == \E l \in Range(lines) : l.form \in {"triple", "spaced", "second"}
    IN  Given("plain") => \A l \in assignments : <<l.key>> \in DOMAIN ParsePlain(lines) <=> helps \/ ~misleads

\* A document: tags that match, and one element around all.
RECURSIVE OpenTags(_)
OpenTags(lines) ==    \* the names of the elements that are open, or a name that does not match
    IF lines = <<>> THEN <<>>
    ELSE LET before == OpenTags(Front(lines))  l == Last(lines) IN
         CASE l.tag = "open"   -> Append(before, l.name)
           [] l.tag = "close"  -> IF before # <<>> /\ Last(before) = l.name THEN Front(before) ELSE <<"mismatch">> \o before
           [] l.tag = "inline" -> before
WellFormed(lines) ==
    /\ lines # <<>> /\ OpenTags(lines) = <<>> /\ lines[1].tag = "open"
    /\ \A i \in 1 .. Len(lines) - 1 : OpenTags(SubSeq(lines, 1, i)) # <<>> /\ "mismatch" \notin Range(OpenTags(SubSeq(lines, 1, i)))
(* The fallback gives the parameters of a well-formed document under the same keys as    *)
(* the parser; and a closing tag that is missing or wrong never removes a parent: keys    *)
(* only get longer.                                                                       *)
XmlFallbackAgrees ==
    LET lines == input.arg  params == ParseHelperXmlRugged(lines) IN
    Given("xml") =>
        \A i \in DOMAIN lines : lines[i].tag = "inline" =>
            \/ ~WellFormed(lines) /\ \E key \in DOMAIN params : Last(key) = lines[i].name
            \/ WellFormed(lines) /\ Append(OpenTags(SubSeq(lines, 1, i - 1)), lines[i].name) \in DOMAIN params

(* A key in a TOML file without valid syntax is shown under the section that it is in,   *)
(* with its last value.                                                                   *)
TomlKeysHaveTheirSection ==
    LET lines == input.arg
        Section(i) == LET hs == {k \in 1 .. i : lines[k].tag = "header"}
                      IN  IF hs = {} THEN <<>> ELSE lines[CHOOSE k \in hs : \A j \in hs : j <= k].name
        keys == {i \in DOMAIN lines : lines[i].tag = "key"}
        Same(i, k) == Section(i) \o lines[i].name = Section(k) \o lines[k].name
        params == ParseHelperTomlRugged(lines)
    IN  Given("toml") =>
            /\ DOMAIN params = {Section(i) \o lines[i].name : i \in keys}
            /\ \A i \in keys : (\A k \in keys : Same(i, k) => k <= i) => params[Section(i) \o lines[i].name] = lines[i].value

(* No value of a table is lost: with a line of names and one of values, each value is    *)
(* under its name; from three lines on, the first line is taken for a parameter too.      *)
CsvValuesAreKept ==
    LET lines == input.arg  r == ParseHelperCsv(lines) IN
    Given("csv") /\ r.outcome = "parsed" =>
        IF Len(lines) = 2 THEN \A i \in DOMAIN lines[1] : (\A k \in i + 1 .. Len(lines[1]) : lines[1][k] # lines[1][i]) =>
            <<lines[1][i]>> \in DOMAIN r.params /\ r.params[<<lines[1][i]>>] = lines[2][i]
        ELSE \A i \in DOMAIN lines : Len(lines[i]) > 1 /\ Len(lines) > 2 => Front(lines[i]) \in DOMAIN r.params

RECURSIVE Enclosing(_, _)
Enclosing(lines, i) ==
    LET above == {k \in 1 .. i - 1 : lines[k].indent < lines[i].indent}
        nearest == CHOOSE k \in above : \A j \in above : j <= k
    IN  Append(IF above = {} THEN <<>> ELSE Enclosing(lines, nearest), lines[i].key)

(* The key of a value in a YAML file is the path of the keys that enclose it: the nearest *)
(* line above with a smaller indentation, and so on.                                      *)
YamlKeysArePaths ==
    LET lines == input.arg IN
    Given("yaml") =>
        DOMAIN ParseHelperYaml(lines) = {Enclosing(lines, i) : i \in {i \in DOMAIN lines : lines[i].value # ""}}

(* A configuration file is shown for every compared firmware that it is in, unless the    *)
(* firmware images share the container: it is then shown for one of them; and unless       *)
(* another file has the same path in the same firmware. One csv file without lines and     *)
(* the whole comparison fails.                                                             *)
ConfigIsShownForItsFirmware ==
    LET t == input.arg  r == CompareConfigFiles(t)
        In(f, fw) == \E p \in Range(f.treePaths) : Head(p) = fw
        Shared(f, fw) == \A p \in Range(f.treePaths) : Head(p) = fw =>
            \E q \in Range(f.treePaths) : Head(q) \in Range(t.firmware) \ {fw} /\ p[Len(p) - 1] \in Range(q)
    IN  Given("config tree") =>
            /\ r.failed <=> \E f \in Range(t.files) : f.parameters = CsvFailure
            /\ ~r.failed => \A f \in Range(t.files), fw \in Range(t.firmware) :
                  In(f, fw) /\ ~Shared(f, fw) =>
                      \E p \in Range(f.parents) : /\ <<f.path[p], fw>> \in DOMAIN r.shown
                                                  /\ r.shown[<<f.path[p], fw>>] = f
                                                     \/ \E g \in Range(t.files) \ {f} : In(g, fw) /\ \E q \in Range(g.parents) : g.path[q] = f.path[p]
================================================================================
