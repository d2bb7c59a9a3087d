------------------------------------ MODULE Search -------------------------------------
(* The searches of the web interface: a query (a dict of keys and conditions) is      *)
(* turned into a SELECT over file objects that is joined with the analyses and the    *)
(* firmware data if a key asks for them; the number of matches and the pages come     *)
(* from further SELECTs. And the binary search (helperFunctions/yara_binary_search.py):*)
(* YARA is run on all stored files, or on each file of a firmware, and its output is  *)
(* parsed with a regular expression that is not bound to the beginning of a line.     *)
EXTENDS Inputs, Integers, FiniteSetsExt, SequencesExt

CONSTANTS SearchRequests,    \* a database and the parameters of browse_database
          SearchForms,       \* a database and a filled in search form
          PagedResults,      \* sort keys of the results, and results per page
          BinarySearches,    \* sequences of finished binary searches
          Scans,             \* rules that match in the files, and the files of the firmware
          MaxStringsPerMatch \* config.backend.binary_search.max_strings_per_match

(* A file: uid, name, vendor (0 without a row in firmware), roots, and its analyses, *)
(* rows [plugin, value]. A value 0 stands for a key that is absent.                 *)
(* A condition: table, plugin, and the operators of its dict in their order, each    *)
(* [op, arg, dumps] with the set of values that the argument stands for and how     *)
(* often json.dumps was applied to it.                                              *)
Precedence == <<"=", "$exists", "$regex", "$like", "$in", "$ne", "$lt", "$gt", "$contains">>

\* _dict_key_to_filter looks for the operators one after the other: only one is used.
DictKeyToFilter(ops) ==
    LET known == SelectSeq(Precedence, LAMBDA p : \E o \in Range(ops) : o.op = p)
    IN  CHOOSE o \in Range(ops) : o.op = Head(known)
Supported(ops) == \E o \in Range(ops) : o.op \in Range(Precedence)

\* _add_json_filter replaces the arguments in the dict of the caller by JSON.
AddJsonFilter(ops) ==
    LET asText == {i \in DOMAIN ops : ops[i].op \in {"$in", "$like", "="}}
    IN  [i \in DOMAIN ops |-> IF \E k \in asText : k <= i THEN ops[i] ELSE [ops[i] EXCEPT !.dumps = @ + 1]]

\* PostgreSQL on a column and an argument. What was dumped twice is a string, which is
\* less than every number; nothing is true of NULL.
Matches(value, o) ==
    /\ value # 0
    /\ CASE o.op = "$exists"   -> TRUE
         [] o.op = "$ne"       -> o.dumps > 1 \/ value \notin o.arg
         [] o.op = "$gt"       -> o.dumps > 1 \/ \A x \in o.arg : value > x
         [] o.op = "$lt"       -> o.dumps <= 1 /\ \A x \in o.arg : value < x
         [] o.op = "$contains" -> o.dumps <= 1 /\ value \in o.arg
         [] OTHER              -> value \in o.arg

--------------------------------------------------------------------------------
(* build_query_from_dict. A query: whether it has "$or", the conditions under "$or", *)
(* and the conditions beside it, which then are not looked at.                       *)
Conditions(q) == IF q.or # <<>> THEN q.or ELSE q.and
Asks(q, table) == \E c \in Range(Conditions(q)) : c.table = table

\* The rows of the join for one file: without a partner there is none, but for the
\* outer join with firmware in an "$or" query.
JoinedRows(q, f) ==
    [analysis : IF Asks(q, "analysis") THEN f.analyses ELSE {[plugin |-> "", value |-> 0]},
     vendor : IF ~Asks(q, "firmware") THEN {0}
              ELSE IF f.vendor # 0 THEN {f.vendor} ELSE IF q.or # <<>> THEN {0} ELSE {}]
Holds(c, f, row) ==
    CASE c.table = "analysis" -> row.analysis.plugin = c.plugin /\ Matches(row.analysis.value, DictKeyToFilter(AddJsonFilter(c.ops)))
      [] c.table = "firmware" -> Matches(row.vendor, DictKeyToFilter(c.ops))
      [] c.table = "file"     -> Matches(f.name, DictKeyToFilter(c.ops))
RowSelected(q, f, row) == IF q.or # <<>> THEN \E c \in Range(q.or) : Holds(c, f, row)
                          ELSE \A c \in Range(q.and) : Holds(c, f, row)
\* Mutant: the tables are joined, but the conditions are not applied
BuildQueryInner(db, q) == {f \in db : Asks(q, "firmware") => f.vendor # 0}

BuildQueryFromDict(db, q) == {f \in db : \E row \in JoinedRows(q, f) : RowSelected(q, f, row)}

\* What is left in the dict of the caller after the query was built.
QueryAfterwards(q) ==
    LET After(cs) == [i \in DOMAIN cs |-> IF cs[i].table = "analysis" THEN [cs[i] EXCEPT !.ops = AddJsonFilter(@)] ELSE cs[i]]
    IN  IF q.or # <<>> THEN [q EXCEPT !.or = After(@)] ELSE [q EXCEPT !.and = After(@)]

IsEmptyQuery(q) == q.or = <<>> /\ q.and = <<>>
FirmwareOf(db) == {f \in db : f.vendor # 0}
QueryParentFirmware(db, q, inverted) ==
    LET found == {r \in FirmwareOf(db) : \E f \in BuildQueryFromDict(db, q) : r.uid = f.uid \/ r.uid \in f.roots}
    IN  IF inverted THEN FirmwareOf(db) \ found ELSE found
GenericSearch(db, q, onlyFirmware, inverted) ==
    IF IsEmptyQuery(q) THEN FirmwareOf(db)
    ELSE IF onlyFirmware THEN QueryParentFirmware(db, q, inverted) ELSE BuildQueryFromDict(db, q)
GetNumberOfTotalMatches(db, q, onlyFirmware, inverted) ==
    Cardinality(IF IsEmptyQuery(q) THEN FirmwareOf(db)
                ELSE IF onlyFirmware THEN QueryParentFirmware(db, q, inverted) ELSE BuildQueryFromDict(db, q))

--------------------------------------------------------------------------------
(* browse_database. The vendor chosen on the page goes into the dict, where it        *)
(* replaces a condition on the vendor.                                               *)
ApplyFiltersToQuery(q, vendor) ==
    IF vendor = 0 THEN q
    ELSE [q EXCEPT !.and = Append(SelectSeq(@, LAMBDA c : c.table # "firmware"),
                                  [table |-> "firmware", plugin |-> "", ops |-> <<[op |-> "=", arg |-> {vendor}, dumps |-> 0]>>])]
\* The identifier of an earlier binary search stands for its query, without filters.
GetSearchParameters(r) == IF r.cached THEN r.query ELSE ApplyFiltersToQuery(r.query, r.vendor)
BrowseDatabase(r) ==
    LET q == GetSearchParameters(r) IN
    IF \E c \in Range(Conditions(q)) : ~Supported(c.ops) THEN [error |-> TRUE, found |-> {}, total |-> 0]
    ELSE [error |-> FALSE, found |-> GenericSearch(r.db, q, r.onlyFirmware, r.inverted),
          total |-> GetNumberOfTotalMatches(r.db, QueryAfterwards(q), r.onlyFirmware, r.inverted)]
\* The form of the basic search: an empty set or 0 is a field that was left empty. The
\* hash is looked for among the results of file_hashes.
Condition(table, plugin, op, arg) == [table |-> table, plugin |-> plugin, ops |-> <<[op |-> op, arg |-> arg, dumps |-> 0]>>]
BuildSearchQuery(form) ==
    [or  |-> IF form.hash = 0 THEN <<>> ELSE <<Condition("analysis", "file_hashes", "=", {form.hash})>>,
     and |-> (IF form.vendors = {} THEN <<>> ELSE <<Condition("firmware", "", "$in", form.vendors)>>)
             \o (IF form.names = {} THEN <<>> ELSE <<Condition("file", "", "$like", form.names)>>)]
\* The quick search: the term names a vendor or a file (or a device, a tag, a hash).
StartQuickSearch(term) == [or |-> <<Condition("firmware", "", "$like", term), Condition("file", "", "$like", term)>>, and |-> <<>>]

\* Finished binary searches are kept under the rules that they were for.
AddToSearchQueryCache(cache, s) == (s.rule :> s.found) @@ cache
SearchCache(searches) == FoldLeft(AddToSearchQueryCache, <<>>, searches)

\* One page. The database returns the rows in an order that sorts the keys; what it
\* does with equal keys may change from one request to the next.
Orders(keys) == {o \in [1 .. Len(keys) -> 1 .. Len(keys)] :
                    IsInjective(o) /\ \A i \in 1 .. Len(keys) - 1 : keys[o[i]] <= keys[o[i + 1]]}
ApplyOffsetAndLimit(rows, offset, limit) ==
    SubSeq(rows, offset + 1, IF limit = 0 \/ offset + limit > Len(rows) THEN Len(rows) ELSE offset + limit)
ExtractPagination(order, page, perPage) == ApplyOffsetAndLimit(order, perPage * (page - 1), perPage)

PickSearch == Choose("search", SearchRequests)
PickForm == Choose("form", SearchForms)
PickPages == Choose("pages", PagedResults)
PickBinarySearches == Choose("binary searches", BinarySearches)

--------------------------------------------------------------------------------
\* A condition of its own, as the operators say: all of them.
HoldsAlone(c, f) ==
    \A o \in Range(c.ops) :
        CASE c.table = "analysis" -> \E a \in f.analyses : a.plugin = c.plugin /\ Matches(a.value, o)
          [] c.table = "firmware" -> Matches(f.vendor, o)
          [] c.table = "file"     -> Matches(f.name, o)
OneOperatorEach(q) == \A c \in Range(Conditions(q)) : Cardinality({o.op : o \in Range(c.ops)}) = 1
PluginsOf(q) == {c.plugin : c \in {c \in Range(Conditions(q)) : c.table = "analysis"}}

(* A search finds only files for which each condition holds, or one of them for "$or", *)
(* and it finds all of them when the conditions are on the results of one plugin at    *)
(* most and, for an "$or" that asks for a result, among the files with an analysis.    *)
SearchFindsWhatMatches ==
    LET db == input.arg.db  q == input.arg.query
        expected == IF q.or # <<>> THEN {f \in db : \E c \in Range(q.or) : HoldsAlone(c, f)} ELSE {f \in db : \A c \in Range(q.and) : HoldsAlone(c, f)}
        found    == BuildQueryFromDict(db, q)
    IN  Given("search") /\ ~IsEmptyQuery(q) /\ ~BrowseDatabase(input.arg).error /\ OneOperatorEach(q) =>
            /\ found \subseteq expected
            /\ q.or = <<>> /\ Cardinality(PluginsOf(q)) <= 1 => expected \subseteq found
            /\ q.or # <<>> => {f \in expected : Asks(q, "analysis") => f.analyses # {}} \subseteq found

(* What the page of the advanced search says of a query, a dict of MongoDB: it finds    *)
(* the files for which each of its conditions holds, each with all of its operators.   *)
(* The code joins one row of analysis to a file and uses one operator of a condition.  *)
EveryConditionCounts ==
    LET r == input.arg IN
    Given("search") /\ ~IsEmptyQuery(r.query) /\ r.query.or = <<>> /\ ~BrowseDatabase(r).error =>
        BuildQueryFromDict(r.db, r.query) = {f \in r.db : \A c \in Range(r.query.and) : HoldsAlone(c, f)}

(* The total that the pages are computed from is the number of results, whether files *)
(* or firmware are searched, unless a condition on an analysis result has an operator  *)
(* that gets its argument as JSON: the second query then asks for JSON of JSON.        *)
TotalIsTheNumberOfResults ==
    LET r == input.arg
        json == \E c \in Range(Conditions(r.query)) : c.table = "analysis" /\ \E o \in Range(c.ops) : o.op \in {"$gt", "$lt", "$ne", "$contains"}
    IN  Given("search") /\ ~json => LET b == BrowseDatabase(r) IN b.total = Cardinality(b.found)

(* With a vendor chosen on the page, exactly the results of this vendor are left over, *)
(* unless the search is an "$or" (the quick search, or one with a hash).               *)
VendorFilterApplies ==
    LET r == input.arg IN
    Given("search") /\ r.vendor # 0 /\ ~r.cached /\ r.query.or = <<>> /\ ~r.onlyFirmware /\ Cardinality(PluginsOf(r.query)) < 2 /\ OneOperatorEach(r.query) =>
        BrowseDatabase(r).error \/
        BrowseDatabase(r).found = {f \in r.db : f.vendor = r.vendor /\ \A c \in Range(r.query.and) : c.table = "firmware" \/ HoldsAlone(c, f)}

(* The basic search finds what has all the properties in the form, and with a hash in *)
(* it all files with this hash, whatever else is in the form; an empty form finds all  *)
(* firmware. The quick search for the same names finds all of these files as well.     *)
BasicSearchFollowsForm ==
    LET r == input.arg  Found(q) == GenericSearch(r.db, q, FALSE, FALSE) IN
    Given("form") =>
        /\ Found(BuildSearchQuery(r.form)) =
              {f \in r.db : IF r.form.hash # 0 THEN \E a \in f.analyses : a.plugin = "file_hashes" /\ a.value = r.form.hash
                            ELSE /\ (r.form.vendors # {} => f.vendor \in r.form.vendors)
                                 /\ (r.form.names # {} => f.name \in r.form.names)
                                 /\ (r.form.vendors = {} /\ r.form.names = {} => f.vendor # 0)}
        /\ r.form.names # {} /\ r.form.hash = 0 => Found(BuildSearchQuery(r.form)) \subseteq Found(StartQuickSearch(r.form.names))

(* The pages show every result once, whatever the order of equal results in each of   *)
(* the requests, if and only if no page ends between equal results.                    *)
PagesShowEverything ==
    LET p == input.arg  n == Len(p.keys)
        sorted == CHOOSE o \in Orders(p.keys) : TRUE
        splitsTies == \E i \in 1 .. n - 1 : i % p.perPage = 0 /\ p.keys[sorted[i]] = p.keys[sorted[i + 1]]
        pages == 1 .. ((n + p.perPage - 1) \div p.perPage)
    IN  Given("pages") =>
            ((\A orders \in [pages -> Orders(p.keys)] :
                  UNION {Range(ExtractPagination(orders[i], i, p.perPage)) : i \in pages} = 1 .. n) <=> ~splitsTies)

(* The link to a finished binary search shows the results of the search, until the    *)
(* same rules are searched for again, be it in another firmware.                       *)
LinkShowsLatestSearch ==
    Given("binary searches") => \A i \in DOMAIN input.arg :
        LET s == input.arg  same == {k \in i .. Len(s) : s[k].rule = s[i].rule}
        IN  SearchCache(s)[s[i].rule] = s[CHOOSE k \in same : \A j \in same : j <= k].found
--------------------------------------------------------------------------------
(* The binary search. Its output: a line with the rule and the file, then a line for each string. A rule may  *)
(* have a name of one letter, a string may have no name, and its content may have a word    *)
(* followed by a space in it.                                                               *)
Header(rule, uid) == [is |-> "header", rule |-> rule.name, uid |-> uid, named |-> rule.long, words |-> FALSE]
StringLine(s) == [is |-> "string", rule |-> "none", uid |-> "none", named |-> s.named, words |-> s.words]
RawResult(scan, uids) ==
    FlattenSeq([i \in DOMAIN uids |->
        FlattenSeq([j \in DOMAIN scan.matches[uids[i]] |->
            LET m == scan.matches[uids[i]][j] IN <<Header(m.rule, uids[i])>> \o [k \in DOMAIN m.strings |-> StringLine(m.strings[k])]])])
\* get_all_files_in_fw: the firmware image itself is not among its files
FilesToScan(scan, fw) == IF fw = "all" THEN scan.files ELSE SelectSeq(scan.files, LAMBDA u : u \in scan.inFirmware[fw])

\* _parse_raw_result. Where a match of the expression may begin, and what it consumes.
BeginsAt(raw, i) ==
    /\ i < Len(raw) /\ raw[i + 1].is = "string" /\ raw[i + 1].named
    /\ IF raw[i].is = "header" THEN raw[i].named ELSE raw[i].words
LastConsumed(raw, i) == Max({j \in i + 1 .. Len(raw) : \A k \in i + 1 .. j : raw[k].is = "string" /\ raw[k].named})
Collected(n) == Min({n, MaxStringsPerMatch})
RECURSIVE ParseFrom(_, _)
ParseFrom(raw, i) ==
    IF i > Len(raw) THEN {}
    ELSE IF BeginsAt(raw, i)
    THEN {[uid |-> raw[i].uid, rule |-> raw[i].rule, strings |-> Collected(LastConsumed(raw, i) - i)]} \union ParseFrom(raw, LastConsumed(raw, i) + 1)
    ELSE ParseFrom(raw, i + 1)
ParseRawResult(raw) == ParseFrom(raw, 1)
\* Rules with a syntax error are an answer, too.
GetBinarySearchResult(scan, fw) == IF scan.compiles THEN ParseRawResult(RawResult(scan, FilesToScan(scan, fw))) ELSE {}

PickScan == Choose("scan", Scans)

--------------------------------------------------------------------------------
AllMatches(scan) == UNION {{[uid |-> u, m |-> scan.matches[u][j]] : j \in DOMAIN scan.matches[u]} : u \in ToSet(scan.files)}
IsRead(m) == m.rule.long /\ m.strings # <<>> /\ m.strings[1].named
NamedStrings(m) == Cardinality({k \in DOMAIN m.strings : \A l \in 1 .. k : m.strings[l].named})
Ordinary(scan) == \A x \in AllMatches(scan) : x.m.rule.long /\ \A k \in DOMAIN x.m.strings : x.m.strings[k].named
Invented(found) == {r \in found : r.uid = "none"}

\* A match is reported, with as many of its strings as are allowed, if and only if the name of
\* its rule has more than one letter and its first string has a name: others are dropped
\* without a word, among them all rules that only have a condition.
MatchesAreReported ==
    (Given("scan") /\ input.arg.compiles) =>
        LET scan  == input.arg
            found == GetBinarySearchResult(scan, "all")
        IN  found \ Invented(found)
                = {[uid |-> x.uid, rule |-> x.m.rule.name, strings |-> Min({NamedStrings(x.m), MaxStringsPerMatch})] : x \in {x \in AllMatches(scan) : IsRead(x.m)}}

\* Matches of files that do not exist are invented from the content of strings, but only
\* after a match that cannot be read, or a string without a name.
InventedOnlyAfterUnreadable ==
    Given("scan") => (Invented(GetBinarySearchResult(input.arg, "all")) # {} => ~Ordinary(input.arg))

\* A search in one firmware finds what the search in everything finds in its files, at any
\* depth. Matches in the image itself are not found: it is none of its own files.
SearchInFirmwareIsComplete ==
    (Given("scan") /\ Ordinary(input.arg)) =>
        \A fw \in DOMAIN input.arg.inFirmware :
            GetBinarySearchResult(input.arg, fw) = {r \in GetBinarySearchResult(input.arg, "all") : r.uid \in input.arg.inFirmware[fw]}
================================================================================
