------------------------ MODULE SoftwareVulnerabilities ------------------------
(* The plugins software_components and cve_lookup: from the strings of a binary to *)
(* its software and versions, and from those to the CVEs of the feed. The plugin      *)
(* known_vulnerabilities: rules that are evaluated on the results of other plugins     *)
(* (internal/rulebook.py), and what is reported for a file (code).                    *)
EXTENDS Inputs, Integers, FiniteSetsExt, SequencesExt

CONSTANTS CveFeeds,        \* a feed with a request, see Request in MCAlgorithms
          BusyboxFiles,    \* a BusyBox binary with the mentions in a summary
          SoftwareLists,   \* the software found in a file
          RuleInputs,      \* a rule with the results it is evaluated on
          VulnerableFiles, \* files with their software, YARA matches, and what Ghidra finds
          MinToolCount,    \* MIN_TOOL_COUNT
          OsList           \* OS_LIST, a sequence of names

(* Versions are numbers. A bound that is not given is Unset; the wildcards of a CPE *)
(* are AnyVersion and NotApplicable; Unparsable is a version that cannot be compared.      *)
Unset == 0
AnyVersion == -1
NotApplicable == -2
Unparsable == -3

--------------------------------------------------------------------------------
(* The database is built from the feed.                                           *)
ExtractCpeData(matches) ==
    FoldLeft(LAMBDA acc, m : IF m.vulnerable /\ \A e \in Range(acc) : e.cpe # m.cpe THEN Append(acc, m) ELSE acc,
             <<>>, matches)

\* The score of a CVSS version is the one of the last primary source, else the first.
ExtractCveImpact(entries) ==
    FoldLeft(LAMBDA acc, e : IF e.primary \/ e.cvss \notin DOMAIN acc THEN (e.cvss :> e.score) @@ acc ELSE acc,
             <<>>, entries)

\* The first entry with an id counts; a criterion and a CVE have one association.
AddCveItems(feed) ==
    FoldLeft(LAMBDA acc, c : IF \E e \in Range(acc) : e.id = c.id THEN acc
                ELSE Append(acc, [id |-> c.id, scores |-> ExtractCveImpact(c.impact), cpes |-> ExtractCpeData(c.matches)]),
             <<>>, feed)
Associations(db) == UNION {{[cve |-> c, match |-> m] : m \in Range(c.cpes)} : c \in Range(db)}

--------------------------------------------------------------------------------
(* Lookup. A product is a sequence of words; the search terms are its parts, but   *)
(* for numbers and single letters.                                                 *)
GenerateSearchTerms(product) ==
    {SubSeq(product, p[1], p[2]) : p \in {p \in (DOMAIN product) \X (DOMAIN product) : p[1] <= p[2]}} \ {<<"7">>, <<"x">>}

\* Mutant: an excluded end is taken for an included one
IsVersionInBoundariesClosed(m, v) ==
    /\ v # Unparsable
    /\ (m.startIncluding # Unset => m.startIncluding <= v) /\ (m.startExcluding # Unset => m.startExcluding < v)
    /\ (m.endIncluding # Unset => m.endIncluding >= v) /\ (m.endExcluding # Unset => m.endExcluding >= v)

\* The bound is compared with the requested version: le, lt, ge, gt.
IsVersionInBoundaries(m, v) ==
    /\ v # Unparsable
    /\ (m.startIncluding # Unset => m.startIncluding <= v) /\ (m.startExcluding # Unset => m.startExcluding < v)
    /\ (m.endIncluding # Unset => m.endIncluding >= v) /\ (m.endExcluding # Unset => m.endExcluding > v)
Unbounded(m) == {m.startIncluding, m.startExcluding, m.endIncluding, m.endExcluding} = {Unset}
VersionInBoundaries(m, v, matchAny) ==
    IF Unbounded(m) THEN matchAny /\ m.cpe.version = AnyVersion ELSE IsVersionInBoundaries(m, v)

FindMatchingAssociations(db, terms, v, matchAny) ==
    IF v \in {AnyVersion, NotApplicable} THEN {}
    ELSE {a \in Associations(db) : /\ a.match.cpe.product \in terms
                                   /\ a.match.cpe.version = v \/ VersionInBoundaries(a.match, v, matchAny)}

\* A BusyBox binary has blocks of tool names; the first that is long enough counts.
GetBusyboxComponents(blocks) ==
    LET lists == SelectSeq(blocks, LAMBDA b : Cardinality(b) >= MinToolCount)
    IN  IF lists = <<>> THEN {} ELSE Head(lists)

(* A summary mentions tools. What a pattern of group 1 matches includes the quotes, *)
(* and one of group 2 an underscore that precedes the name.                         *)
GetMatchedWords(mentions) == {[word |-> m.word, as |-> m.form] : m \in mentions}
FilterKeeps(components, mentions) ==
    LET words == GetMatchedWords(mentions)
    IN  words = {} \/ \E w \in words : w.as = "plain" /\ w.word \in components
FilterBusyboxCves(blocks, mentions) ==
    LET components == GetBusyboxComponents(blocks) IN components = {} \/ FilterKeeps(components, mentions)

LookupVulnerabilities(db, product, v, matchAny) ==
    {a.cve : a \in FindMatchingAssociations(db, GenerateSearchTerms(product), v, matchAny)}

--------------------------------------------------------------------------------
(* The plugins. The versions of a component are a list in no particular order, and *)
(* only the first is looked up.                                                     *)
LookedUp(software) == IF software.versions = <<>> THEN {} ELSE {Head(software.versions)}
CveResults(r) == UNION {LookupVulnerabilities(AddCveItems(r.feed), r.software.product, v, r.matchAny) : v \in LookedUp(r.software)}
HasCriticalRating(cve, minimum) == \E s \in DOMAIN cve.scores : cve.scores[s] >= minimum
CriticalTag(r) == \E c \in CveResults(r) : HasCriticalRating(c, r.minimum)

\* summarize: an entry per version, or the bare name; sorted, so the bare name first.
OsTag(entry) ==
    IF entry.version = 0 THEN << [name |-> "OS", value |-> entry, propagate |-> TRUE] >>
    ELSE << [name |-> "OS", value |-> [entry EXCEPT !.version = 0], propagate |-> FALSE],
            [name |-> "OS Version", value |-> entry, propagate |-> TRUE] >>
OsTags(summary) == FlattenSeq([i \in DOMAIN summary |->
    IF summary[i].name \in Range(OsList) THEN OsTag(summary[i]) ELSE <<>>])
\* get_analysis keeps the tags in a dictionary: the last one of a name counts.
TagsDict(tags) == FoldLeft(LAMBDA acc, t : (t.name :> t) @@ acc, <<>>, tags)

PickRequest == Choose("cve", CveFeeds)
PickBusybox == Choose("busybox", BusyboxFiles)
PickSoftware == Choose("software", SoftwareLists)

--------------------------------------------------------------------------------
\* What the feed says: the version is named, or inside of a range with a bound.
Covers(m, v, matchAny) ==
    /\ m.vulnerable /\ v \notin {AnyVersion, NotApplicable}
    /\ \/ m.cpe.version = v
       \/ v > 0 /\ ~Unbounded(m) /\ v \in {w \in 1 .. 9 :
              /\ w >= m.startIncluding /\ (m.endIncluding = 0 \/ w <= m.endIncluding)
              /\ (m.startExcluding = 0 \/ w >= m.startExcluding + 1) /\ (m.endExcluding = 0 \/ w <= m.endExcluding - 1)}
       \/ Unbounded(m) /\ matchAny /\ m.cpe.version = AnyVersion

(* A CVE is shown for a component exactly if the first entry of the feed with its id *)
(* has a criterion for a part of the product's name that covers the version, of the   *)
(* entries with the same criterion only the first: a second range of versions of the  *)
(* same product is lost when the feed is read.                                        *)
FoundIffAffected ==
    LET r == input.arg IN
    Given("cve") => \A i \in DOMAIN r.feed :
        LET c == r.feed[i]
            affected == \E k \in DOMAIN c.matches : \E v \in LookedUp(r.software) :
                /\ Covers(c.matches[k], v, r.matchAny)
                /\ \A n \in 1 .. k - 1 : c.matches[n].vulnerable => c.matches[n].cpe # c.matches[k].cpe
                /\ \E a, b \in DOMAIN r.software.product :
                      c.matches[k].cpe.product = SubSeq(r.software.product, a, b) /\ c.matches[k].cpe.product \notin {<<>>, <<"7">>}
        IN  (\A n \in 1 .. i - 1 : r.feed[n].id # c.id) =>
                (affected <=> \E f \in CveResults(r) : f.id = c.id)

(* The tag for a critical CVE is set exactly if a CVE that is shown has a score that *)
(* is high enough by a primary source, or by the first source where no primary one   *)
(* rates it.                                                                         *)
CriticalTagIsJustified ==
    LET r == input.arg
        Rating(c) == {c.impact[k].score : k \in {k \in DOMAIN c.impact :
            \/ c.impact[k].primary /\ \A n \in k + 1 .. Len(c.impact) : c.impact[n].cvss = c.impact[k].cvss => ~c.impact[n].primary
            \/ \A n \in DOMAIN c.impact : c.impact[n].cvss = c.impact[k].cvss => ~c.impact[n].primary /\ n >= k}}
    IN  Given("cve") =>
        (CriticalTag(r) <=> \E i \in DOMAIN r.feed : /\ \A n \in 1 .. i - 1 : r.feed[n].id # r.feed[i].id
                                                     /\ \E f \in CveResults(r) : f.id = r.feed[i].id
                                                     /\ \E s \in Rating(r.feed[i]) : s >= r.minimum)

(* No CVE is hidden for a tool that the BusyBox binary contains, as long as the       *)
(* summary names the tool plainly; a name in quotes or after an underscore never       *)
(* counts, so a CVE of a tool that is there is dropped if it is only named so.         *)
ToolCveIsKept ==
    Given("busybox") =>
        LET f == input.arg
            present == {m \in f.mentions : m.word \in GetBusyboxComponents(f.blocks)}
        IN  (FilterBusyboxCves(f.blocks, f.mentions) <=>
                \/ \A i \in DOMAIN f.blocks : Cardinality(f.blocks[i]) < MinToolCount
                \/ f.mentions = {}
                \/ \E m \in present : m.form = "plain")

(* The operating system of a file reaches its firmware: whatever else was found, the  *)
(* last of its operating systems is named by a tag, and one tag propagates; with a    *)
(* version it is the tag for the version.                                             *)
OsIsPropagated ==
    Given("software") =>
        LET summary == input.arg
            os      == SelectSeq(summary, LAMBDA e : e.name \in Range(OsList))
            tags    == TagsDict(OsTags(summary))
        IN  IF os = <<>> THEN tags = <<>>
            ELSE /\ tags["OS"].value.name = Last(os).name
                 /\ \E t \in DOMAIN tags : tags[t].propagate
                 /\ (Last(os).version # 0 => tags["OS Version"] = [name |-> "OS Version", value |-> Last(os), propagate |-> TRUE])

--------------------------------------------------------------------------------
(* Results are trees of dicts and lists. A path is a sequence of dotted paths, each of   *)
(* which is a sequence of keys.                                                          *)
Leaf(a) == [t |-> "leaf", a |-> a, items |-> <<>>]
List(items) == [t |-> "list", a |-> "none", items |-> [i \in DOMAIN items |-> [key |-> "none", v |-> items[i]]]]
Dict(items) == [t |-> "dict", a |-> "none", items |-> items]
EntriesOf(d, key) == {i \in DOMAIN d.items : d.items[i].key = key}
Got(v) == [ok |-> "yes", v |-> v]
GotNothing(how) == [ok |-> how, v |-> Leaf("none")]

RECURSIVE GetDottedPath(_, _)
GetDottedPath(d, keys) ==
    IF d.t # "dict" THEN GotNothing("error")
    ELSE IF EntriesOf(d, Head(keys)) = {} THEN GotNothing("missing")
    ELSE LET v == d.items[CHOOSE i \in EntriesOf(d, Head(keys)) : TRUE].v
         IN  IF Len(keys) = 1 THEN Got(v) ELSE GetDottedPath(v, Tail(keys))

\* _get_value: one item of a list that fails makes the whole list fail; what is left of the
\* path is ignored if the value is not a list
RECURSIVE GetValue(_, _)
GetValue(d, path) ==
    LET got == GetDottedPath(d, Head(path))
    IN  IF got.ok # "yes" \/ got.v.t # "list" \/ Len(path) = 1 THEN got
        ELSE LET all == [i \in DOMAIN got.v.items |-> GetValue(got.v.items[i].v, Tail(path))]
                 bad == {i \in DOMAIN all : all[i].ok # "yes"}
             IN  IF bad # {} THEN all[Min(bad)] ELSE Got(List([i \in DOMAIN all |-> all[i].v]))

--------------------------------------------------------------------------------
(* Rules. The result is "true", "false" or "error"; any and all stop where they are      *)
(* decided.                                                                              *)
Single(path, relation, comparison) == [type |-> "single", path |-> path, relation |-> relation, comparison |-> comparison, rules |-> <<>>, any |-> TRUE]
Meta(rules, any) == [type |-> "meta", path |-> <<>>, relation |-> "none", comparison |-> Leaf("none"), rules |-> rules, any |-> any]
SubPath(path, rules, any) == [Meta(rules, any) EXCEPT !.type = "sub", !.path = path]
ValidRule(rule) ==
    /\ rule.type = "single" => rule.relation \in {"exists", "equals", "in", "intersection"}
    /\ \A i \in DOMAIN rule.rules : rule.rules[i].type = "single"

FirstNot(results, r) == LET other == {i \in DOMAIN results : results[i] # r} IN IF other = {} THEN r ELSE results[Min(other)]
AnyOrAll(results, any) == FirstNot(results, IF any THEN "false" ELSE "true")
Truth(b) == IF b THEN "true" ELSE "false"
Members(v) == {v.items[i].v : i \in DOMAIN v.items}
ApplyRelation(relation, v, comparison) ==
    CASE relation = "exists" -> TRUE
      [] relation = "equals" -> v = comparison
      [] relation = "in" -> v \in Members(comparison)
      [] relation = "intersection" -> Members(v) \cap Members(comparison) # {}

EvaluateSingleRule(d, rule) ==
    LET got == GetValue(d, rule.path)
    IN  IF got.ok # "yes" THEN got.ok
        ELSE IF got.v.t # "list" \/ rule.comparison.t = "list" THEN Truth(ApplyRelation(rule.relation, got.v, rule.comparison))
        ELSE Truth(\E v \in Members(got.v) : ApplyRelation(rule.relation, v, rule.comparison))
\* evaluate catches KeyError, for every part of a rule that it is called for
Evaluate(d, rule) ==
    IF d.t # "dict" THEN "error" ELSE LET r == EvaluateSingleRule(d, rule) IN IF r = "missing" THEN "false" ELSE r
EvaluateMetaRule(d, rule) == AnyOrAll([i \in DOMAIN rule.rules |-> Evaluate(d, rule.rules[i])], rule.any)
EvaluateSubPathRule(d, rule) ==
    LET got == GetValue(d, rule.path)
    IN  IF got.ok = "missing" THEN "false"
        ELSE IF got.ok = "error" THEN "error"
        ELSE IF got.v.t # "list" THEN EvaluateMetaRule(got.v, rule)
        ELSE AnyOrAll([i \in DOMAIN got.v.items |-> EvaluateMetaRule(got.v.items[i].v, rule)], TRUE)
EvaluateRule(d, rule) ==
    CASE rule.type = "single" -> Evaluate(d, rule)
      [] rule.type = "meta" -> EvaluateMetaRule(d, rule)
      [] rule.type = "sub" -> EvaluateSubPathRule(d, rule)

--------------------------------------------------------------------------------
(* The plugin. The software of a file is a list of names with versions; a YARA match has  *)
(* a score.                                                                               *)
Vulnerability(name, score) == [name |-> name, score |-> score]
Affected == [openssl |-> {"1.0.1a"}, liblzma |-> {"5.6.0"}]
SoftwareRule(software, name) == \E i \in DOMAIN software : software[i].name = name /\ software[i].versions \cap Affected[name] # {}
CheckVulnerabilities(f) ==
    (IF SoftwareRule(f.software, "openssl") THEN <<Vulnerability("heartbleed", "high")>> ELSE <<>>)
    \o (IF f.hash THEN <<Vulnerability("netgear_cgi", "medium")>> ELSE <<>>)
\* software_by_name: of several entries of one name the last one counts
Named(f, name) == {i \in DOMAIN f.software : f.software[i].name = name}
\* No result of Ghidra (a timeout, an error) is no vulnerability.
CheckNetusb(f) ==
    CASE f.ghidra = "none" -> <<>>
      [] f.ghidra = "vulnerable" -> <<Vulnerability("netusb", "high")>>
      [] f.ghidra = "fixed" -> <<Vulnerability("netusb", "none")>>
CheckXzBackdoor(f) ==
    IF f.software[Max(Named(f, "liblzma"))].versions \cap Affected["liblzma"] # {} THEN <<Vulnerability("xz", "high")>> ELSE <<>>
\* "for vuln, _ in yara_result" unpacks an object of six fields, if there is one
AnalysisFails(f) == Named(f, "liblzma") # {} /\ f.yara # <<>>
GetMatchedVulnerabilities(f) ==
    CheckVulnerabilities(f) \o (IF Named(f, "netusb") # {} THEN CheckNetusb(f) ELSE <<>>)
    \o (IF Named(f, "liblzma") # {} THEN CheckXzBackdoor(f) ELSE <<>>)
Analyze(f) == f.yara \o GetMatchedVulnerabilities(f)
\* A later tag of the same name replaces an earlier one.
GetTags(f) ==
    LET found == SelectSeq(Analyze(f), LAMBDA v : v.score # "none")
        last(n) == found[Max({i \in DOMAIN found : found[i].name = n})]
    IN  {[name |-> n, propagate |-> last(n).score = "high"] : n \in {found[i].name : i \in DOMAIN found}}

PickRule == Choose("rule", {r \in RuleInputs : ValidRule(r.rule)})
PickVulnerableFile == Choose("vulnerable", VulnerableFiles)

--------------------------------------------------------------------------------
(* A rule is evaluated on the items of one list; p.list is the path to it in RuleInputs. *)
Items(d) == Members(GetDottedPath(d, <<"p", "list">>).v)
HasKey(item, rule) == GetValue(item, rule.path).ok = "yes"
ItemMatches(item, rule) == HasKey(item, rule) /\ ApplyRelation(rule.relation, GetValue(item, rule.path).v, rule.comparison)
AllAreDicts(d) == \A item \in Items(d) : item.t = "dict"

\* A SubPathRule is about one item of a list: there is an item for which any, or all, of its
\* parts hold. Items that lack a key do not matter. It ends with an error only if an item is
\* not a dict.
SubPathRuleIsAboutOneItem ==
    (Given("rule") /\ input.arg.rule.type = "sub") =>
        LET rule == input.arg.rule
            d    == input.arg.d
            hit(item) == IF rule.any THEN \E i \in DOMAIN rule.rules : ItemMatches(item, rule.rules[i])
                                     ELSE \A i \in DOMAIN rule.rules : ItemMatches(item, rule.rules[i])
        IN  IF AllAreDicts(d) THEN EvaluateRule(d, rule) = Truth(\E item \in Items(d) : hit(item))
            ELSE EvaluateRule(d, rule) = "true" => \E item \in Items(d) : item.t = "dict" /\ hit(item)

\* The parts of a MetaRule may hold for different items; but an item that lacks the key hides
\* all other items from a part, because the KeyError is caught outside of the loop.
MetaRuleNeedsCompleteItems ==
    (Given("rule") /\ input.arg.rule.type = "meta") =>
        LET d       == input.arg.d
            rule    == input.arg.rule
            part(i) == [rule.rules[i] EXCEPT !.path = Tail(@)]
            holds(i) == (\A item \in Items(d) : HasKey(item, part(i))) /\ \E item \in Items(d) : ItemMatches(item, part(i))
        IN  AllAreDicts(d) =>
                EvaluateRule(d, rule) = Truth(IF rule.any THEN \E i \in DOMAIN rule.rules : holds(i) ELSE \A i \in DOMAIN rule.rules : holds(i))

\* What a file is affected by reaches the firmware as a propagated tag. The exceptions: with
\* liblzma any YARA match makes the analysis fail, and an affected entry of liblzma is
\* overlooked when an unaffected one follows it.
AffectedSoftwareIsReported ==
    (Given("vulnerable") /\ ~AnalysisFails(input.arg)) =>
        LET f     == input.arg
            up(n) == \E t \in GetTags(f) : t.name = n /\ t.propagate
            xz    == Named(f, "liblzma")
        IN  /\ up("heartbleed") <=> SoftwareRule(f.software, "openssl")
            /\ up("netusb") <=> Named(f, "netusb") # {} /\ f.ghidra = "vulnerable"
            /\ up("xz") <=> (SoftwareRule(f.software, "liblzma") /\ (Cardinality(xz) = 1 \/ f.software[Max(xz)].versions \cap Affected["liblzma"] # {}))
================================================================================
