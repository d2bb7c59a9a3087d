------------------------------- MODULE Statistics -------------------------------
(* The statistics over all firmware images, or over those of one vendor, and how      *)
(* they become charts.                                                                *)
EXTENDS Inputs, Integers, FiniteSets, SequencesExt, FiniteSetsExt

CONSTANTS StatsDatabases, \* [objects, firmware]
          ReleaseDates,   \* sets of rows [year, month, count]
          SummaryCounts,  \* counts of the values in summaries: functions from labels to numbers
          ChartLimit      \* bars of a chart

(* An object: uid, the firmware images it was unpacked from, its MIME type, whether it  *)
(* is packed, the architectures of its summary and the software components in it.       *)
(* A firmware: uid and vendor; its object has the same uid. Vendor 0: no filter.         *)
FilterIsEmpty(vendor) == vendor = 0
JoinFw(db) == {<<o, f>> \in db.objects \X db.firmware : o.uid = f.uid}
JoinFo(db) == {<<o, f>> \in db.objects \X db.firmware : f.uid \in o.roots}
JoinFwOrFo(db, firmware) == IF firmware THEN JoinFw(db) ELSE JoinFo(db)
JoinAll(db) == JoinFo(db) \union JoinFw(db)
FilterBy(rows, vendor) == {r \in rows : FilterIsEmpty(vendor) \/ r[2].vendor = vendor}

\* A statistic counts rows by a value, given as a function of the rows; an object may be
\* on several rows.
CountBy(value) == [v \in {value[r] : r \in DOMAIN value} |-> Cardinality({r \in DOMAIN value : value[r] = v})]
OfMime(rows) == [r \in rows |-> r[1].mime]

CountDistinctInAnalysis(db, vendor, firmware) == CountBy(OfMime(FilterBy(JoinFwOrFo(db, firmware), vendor)))
\* Without a filter the table of analyses is not joined: every object is on one row.
Unjoined(db) == {<<o, [uid |-> 0, vendor |-> 0]>> : o \in db.objects}
RowsFor(db, vendor, joined) == IF FilterIsEmpty(vendor) THEN Unjoined(db) ELSE FilterBy(joined, vendor)
GetUnpackingFileTypes(db, vendor) == CountBy(OfMime({r \in RowsFor(db, vendor, JoinAll(db)) : r[1].packed}))
\* get_software_components: an element of an array per row, counted by name over all versions
GetSoftwareComponents(db, vendor) ==
    LET rows == UNION {{<<r[1], r[2], s>> : s \in r[1].software} : r \in RowsFor(db, vendor, JoinFo(db))}
    IN  CountBy([r \in rows |-> r[3].name])

\* get_arch_stats and get_architecture_stats: the most frequent architecture of each firmware
GetArchStats(db, vendor) ==
    LET rows == UNION {{<<r[1], r[2], a>> : a \in r[1].archs} : r \in FilterBy(JoinFo(db), vendor)}
    IN  {<<r[3], Cardinality({q \in rows : q[3] = r[3] /\ q[2] = r[2]}), r[2].uid>> : r \in rows}
FindMostFrequentArchitecture(stats) ==    \* the first of the most frequent in the order of the query: any
    {s[1] : s \in {s \in stats : \A t \in stats : s[2] >= t[2]}}
\* An architecture is a name, bits, byte order; short ones have a name only. The first two remain.
ShortenArchitectureString(arch) == IF Len(arch) > 2 THEN SubSeq(arch, 1, 2) ELSE arch
ArchOutcomes(db, vendor) ==
    LET uids == {s[3] : s \in GetArchStats(db, vendor)}
        Of(u) == FindMostFrequentArchitecture({s \in GetArchStats(db, vendor) : s[3] = u})
    IN  {c \in [uids -> UNION {Of(u) : u \in uids}] : \A u \in uids : c[u] \in Of(u)}
GetArchitectureStats(db, vendor) ==    \* all outcomes
    {[a \in {ShortenArchitectureString(c[u]) : u \in DOMAIN c} |-> Cardinality({u \in DOMAIN c : ShortenArchitectureString(c[u]) = a})] : c \in ArchOutcomes(db, vendor)}

--------------------------------------------------------------------------------
(* The histogram of release dates. Dates are counted in months: 12 * year + month - 1;   *)
(* a firmware without a date has the year 1970.                                          *)
EpochYear == 1970
BuildTimeDict(rows) ==
    LET dated == {r \in rows : r.year > EpochYear} IN
    [y \in {r.year : r \in dated} |-> [m \in {r.month : r \in {r \in dated : r.year = y}} |->
        (CHOOSE r \in dated : r.year = y /\ r.month = m).count]]
FillInTimeGaps(years) ==
    LET startYear == Min(DOMAIN years)  startMonth == Min(DOMAIN years[startYear])
        endYear == Max(DOMAIN years)    endMonth == Max(DOMAIN years[endYear])
        First(y) == IF y = startYear THEN startMonth ELSE 1
        Final(y) == IF y = endYear THEN endMonth ELSE 12
    IN  [y \in startYear .. endYear |->
            (IF y \in DOMAIN years THEN years[y] ELSE <<>>) @@ [m \in First(y) .. Final(y) |-> 0]]
RECURSIVE Ascending(_)
Ascending(numbers) == IF numbers = {} THEN <<>> ELSE <<Min(numbers)>> \o Ascending(numbers \ {Min(numbers)})
BuildStatsEntryFromDateQuery(rows) ==
    LET filled == IF BuildTimeDict(rows) = <<>> THEN <<>> ELSE FillInTimeGaps(BuildTimeDict(rows))
        Bars(y) == LET ms == Ascending(DOMAIN filled[y])
                   IN  [i \in DOMAIN ms |-> [month |-> 12 * y + ms[i] - 1, count |-> filled[y][ms[i]]]]
    IN  FoldLeft(LAMBDA bars, y : bars \o Bars(y), <<>>, Ascending(DOMAIN filled))

--------------------------------------------------------------------------------
(* Shares and charts. A label stands for the keyword that it contains.                    *)
GetRelativeStats(keywords, counts) ==
    LET found == SelectSeq(keywords, LAMBDA k : k \in DOMAIN counts)
        total == FoldLeft(LAMBDA sum, k : sum + counts[k], 0, found)
    IN  [i \in DOMAIN found |-> [label |-> found[i], value |-> counts[found[i]], percentage |-> (100000 * counts[found[i]]) \div total]]
SortChartListByValue(pairs) == SortSeq(pairs, LAMBDA a, b : a.value > b.value)
SetLimitForDataToChart(chart, limit) ==
    IF Len(chart) > limit
    THEN Append(SubSeq(chart, 1, limit), [label |-> "rest", value |-> FoldLeft(LAMBDA sum, p : sum + p.value, 0, SubSeq(chart, limit + 1, Len(chart)))])
    ELSE chart
DataToChartLimited(counts) ==
    LET pairs == SetToSortSeq({[label |-> k, value |-> counts[k]] : k \in DOMAIN counts}, LAMBDA a, b : a.value < b.value)
    IN  SetLimitForDataToChart(SortChartListByValue(pairs), ChartLimit)
\* data_to_chart_with_value_percentage_pairs cuts off labels and values, not percentages
ValuePercentagePairs(stats, limit) ==
    [values      |-> SetLimitForDataToChart([i \in DOMAIN stats |-> [label |-> stats[i].label, value |-> stats[i].value]], limit),
     percentages |-> [i \in DOMAIN stats |-> stats[i].percentage]]
ExploitMitigations == <<"enabled", "partially", "disabled">>

PickStatsDatabase == Choose("stats", StatsDatabases)
PickReleaseDates == Choose("dates", ReleaseDates)
PickSummaryCounts == Choose("summary", SummaryCounts)

--------------------------------------------------------------------------------
Vendors(db) == {f.vendor : f \in db.firmware}
At(counts, value) == IF value \in DOMAIN counts THEN counts[value] ELSE 0
(* The numbers of the vendors add up to the number of all for everything that is counted  *)
(* per firmware. What is not joined without a filter counts an object once then and once   *)
(* per firmware with a filter: the filter may only add to the number, and does so iff an    *)
(* object is in several firmware images, or a firmware is also a file of another one.        *)
VendorsAddUp ==
    LET db == input.arg
        mimes == {o.mime : o \in db.objects}
        Total(Stat(_)) == MapThenSumSet(Stat, Vendors(db))
        shared == \E o \in db.objects : o.packed /\ Cardinality(o.roots \union ({o.uid} \cap {f.uid : f \in db.firmware})) > 1
    IN  Given("stats") =>
            /\ \A mm \in mimes, b \in BOOLEAN : LET Of(v) == At(CountDistinctInAnalysis(db, v, b), mm)
                                         IN  Total(Of) = At(CountDistinctInAnalysis(db, 0, b), mm)
            /\ \A mm \in mimes : LET Of(v) == At(GetUnpackingFileTypes(db, v), mm)
                         IN  Total(Of) >= At(GetUnpackingFileTypes(db, 0), mm)
            /\ ~shared => \A mm \in mimes : LET Of(v) == At(GetUnpackingFileTypes(db, v), mm)
                                    IN  Total(Of) = At(GetUnpackingFileTypes(db, 0), mm)

(* A name is counted once per firmware, file and version; software that is only found in   *)
(* the image itself is in the total but under no vendor.                                    *)
SoftwareOfImagesHasNoVendor ==
    LET db == input.arg
        names == UNION {{s.name : s \in o.software} : o \in db.objects}
        InFiles(n) == {o \in db.objects : o.roots # {} /\ \E s \in o.software : s.name = n}
    IN  Given("stats") => \A n \in names :
            /\ At(GetSoftwareComponents(db, 0), n) > 0
            /\ (\E v \in Vendors(db) : At(GetSoftwareComponents(db, v), n) > 0) <=> InFiles(n) # {}

(* Every firmware in which some file has an architecture is counted exactly once, under     *)
(* one that no other architecture outnumbers in its files, whatever order the rows have.    *)
OneArchitecturePerFirmware ==
    LET db == input.arg
        having == {f \in db.firmware : \E o \in db.objects : f.uid \in o.roots /\ o.archs # {}}
        Files(f, a) == Cardinality({o \in db.objects : f.uid \in o.roots /\ a \in o.archs})
        archs == UNION {o.archs : o \in db.objects}
    IN  Given("stats") => \A counts \in GetArchitectureStats(db, 0) :
            /\ MapThenSumSet(LAMBDA a : counts[a], DOMAIN counts) = Cardinality(having)
            /\ \A short \in DOMAIN counts : \E f \in having, a \in archs :
                   /\ short = SubSeq(a, 1, IF Len(a) > 2 THEN 2 ELSE Len(a))
                   /\ \A b \in archs : Files(f, a) >= Files(f, b)

(* The histogram has a bar for each month from the first to the last release, in order, and *)
(* none for images without a date; no image is lost.                                        *)
HistogramHasNoGaps ==
    LET rows == input.arg
        dated == {r \in rows : r.year # EpochYear}
        bars == BuildStatsEntryFromDateQuery(rows)
        Month(r) == 12 * r.year + r.month - 1
    IN  Given("dates") =>
            /\ (bars = <<>>) <=> (dated = {})
            /\ \A i \in 1 .. Len(bars) - 1 : bars[i + 1].month = bars[i].month + 1
            /\ dated # {} => bars[1].month = Min({Month(r) : r \in dated}) /\ Last(bars).month = Max({Month(r) : r \in dated})
            /\ FoldLeft(LAMBDA sum, b : sum + b.count, 0, bars) = MapThenSumSet(LAMBDA r : r.count, dated)

(* A chart with a limit shows the largest numbers and the sum of the others: no bar before *)
(* the rest is smaller than one that was left out, and nothing is lost. The shares of        *)
(* exploit mitigations fit below the limit, so that each bar has its own percentage.          *)
ChartLosesNothing ==
    LET counts == input.arg
        chart == DataToChartLimited(counts)
        pairs == ValuePercentagePairs(GetRelativeStats(ExploitMitigations, counts), Len(ExploitMitigations))
        Sum(s) == FoldLeft(LAMBDA sum, p : sum + p.value, 0, s)
    IN  Given("summary") =>
            /\ Sum(chart) = MapThenSumSet(LAMBDA k : counts[k], DOMAIN counts)
            /\ \A k \in (DOMAIN counts) \ {p.label : p \in Range(chart)} : \A p \in Range(chart) : p.label = "rest" \/ p.value >= counts[k]
            /\ Len(pairs.values) = Len(pairs.percentages)
            /\ \A i \in DOMAIN pairs.values : pairs.values[i].value * 100000 >= pairs.percentages[i] * Sum(pairs.values)
            /\ FoldLeft(LAMBDA sum, p : sum + p, 0, pairs.percentages) <= 100000
================================================================================
