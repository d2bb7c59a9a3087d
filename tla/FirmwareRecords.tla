----------------------------- MODULE FirmwareRecords ----------------------------
(* How a firmware image becomes a record: the upload form and the REST API make a  *)
(* task of it, the task becomes an object, the object becomes rows, the rows become *)
(* an object again, a page with a form, or an archive that another FACT imports.    *)
EXTENDS StoredFiles

CONSTANTS Uploads,          \* what is uploaded, see Upload in MCAlgorithms
          Redos,            \* requests to do the analysis of a firmware again
          RestRequests,     \* parameters of REST requests
          PluginData,       \* results of plugins, see Value
          Archives          \* a database, a firmware that is exported from it, and the import

--------------------------------------------------------------------------------
(* Forms. A text is a word, and how often it was escaped: only words with characters *)
(* that are special in HTML change.                                                  *)
Text(w) == [w |-> w, esc |-> 0]
Empty == Text("")
Special == {"a&b"}
Escape(t) == IF t.w \in Special THEN [t EXCEPT !.esc = @ + 1] ELSE t

Fields == {"vendor", "device_part", "version"}
DropdownFields == {"vendor", "device_part"}
GetMetaFromRequest(form) ==
    [f \in Fields |->
        IF form.text[f] = Empty /\ f \in DropdownFields /\ form.list[f] # Text("new entry")
        THEN Escape(form.list[f]) ELSE Escape(form.text[f])]
\* The form of upload.html has no lists: its fields are required and offer known values.
FieldIsMissing(form) == \E f \in DropdownFields : form.text[f] = Empty /\ form.list[f] = Text("missing")
\* tags are separated by commas: the set of the words
GetTagList(tags) == {Escape(t) : t \in tags}

DefaultReleaseDate(date) == IF date = "" THEN "1970-01-01" ELSE date
Task(form) == [meta |-> GetMetaFromRequest(form), date |-> DefaultReleaseDate(form.date), tags |-> GetTagList(form.tags)]
CreateAnalysisTask(form) == Task(form)

\* convert_analysis_task_to_fw_obj and set_part_name
ConvertAnalysisTaskToFwObj(task) ==
    [task EXCEPT !.meta["device_part"] = IF @ = Text("complete") THEN Empty ELSE @]

NoFirmware == [meta |-> [f \in Fields |-> Empty], date |-> "none", tags |-> {}]
\* create_firmware_entry parses the date, in the back end; firmware_from_entry formats it
CreateFirmwareEntry(fw) == IF fw.date \in {"1970-01-01", "2020-02-02"} THEN fw ELSE NoFirmware
\* An upload without a file, or without a field, ends in a KeyError.
PostUpload(form) == IF form.file /\ ~FieldIsMissing(form) THEN CreateFirmwareEntry(ConvertAnalysisTaskToFwObj(CreateAnalysisTask(form))) ELSE NoFirmware

\* upload.html: the form of a firmware that is analysed again
PrefilledForm(fw) ==
    [text |-> [fw.meta EXCEPT !["device_part"] = IF @ = Empty THEN Text("complete") ELSE @],
     list |-> [f \in DropdownFields |-> Text("missing")], date |-> fw.date, tags |-> fw.tags, file |-> FALSE, unknownPlugin |-> FALSE]
PostUpdateAnalysis(fw, form) == ConvertAnalysisTaskToFwObj(Task(form))

\* REST: nothing is escaped, the model has the default date, and plugins must be available
RestPutFirmware(u) ==
    IF ~u.file \/ u.unknownPlugin THEN NoFirmware
    ELSE CreateFirmwareEntry(ConvertAnalysisTaskToFwObj([meta |-> u.text, date |-> DefaultReleaseDate(u.date), tags |-> u.tags]))

\* convert_analysis_task_to_fw_obj with the answer of the back end to get_binary_and_filename:
\* (None, None) for an unknown uid raises a TypeError, an empty binary (the file cannot be
\* read) makes another firmware, and a form without a file name raises a KeyError.
Converted(r) == IF r.answer = "unknown" \/ ~r.hasFileName THEN "none" ELSE IF r.answer = "empty" THEN "other" ELSE "same"

\* Mutant: the firmware is deleted before its binary is asked for
DeleteThenFetch(r) ==
    [deleted |-> r.redo, scheduled |-> IF r.redo /\ r.answer # "timeout" THEN Converted(r) ELSE "none"]

\* _schedule_re_analysis_task: the old firmware is deleted after the answer has come, and
\* before the task becomes a firmware; without an answer there is nothing to unpack
ScheduleReAnalysisTask(r) ==
    IF r.redo /\ r.answer # "timeout" THEN [deleted |-> TRUE, scheduled |-> Converted(r)]
    ELSE [deleted |-> FALSE, scheduled |-> IF ~r.redo /\ r.exists THEN "same" ELSE "none"]
\* The back end makes rows of what is scheduled to be unpacked, which fails with a
\* malformed date.
InDatabase(r) ==
    LET s == ScheduleReAnalysisTask(r)
    IN  r.exists /\ (~s.deleted \/ (s.scheduled = "same" /\ CreateFirmwareEntry([NoFirmware EXCEPT !.date = DefaultReleaseDate(r.date)]) # NoFirmware))

--------------------------------------------------------------------------------
(* Parameters of REST requests: absent, or text that is JSON of some type, or not. A   *)
(* ValueError is answered with 400, any other error with 500.                          *)
Malformed == "ValueError"
GetPaging(p) == IF p \in {"absent", "int"} THEN "ok" ELSE Malformed
GetQuery(p) == IF p \in {"absent", "dict", "empty"} THEN "ok" ELSE Malformed
GetBoolean(p) == IF p \in {"absent", "bool"} THEN "ok" ELSE Malformed
GetUpdate(p) == IF p = "list" THEN "ok" ELSE Malformed

CombinationIsAllowed(r) ==
    /\ r.recursive = "bool" => r.query = "dict"
    /\ r.inverted = "bool" => r.recursive = "bool"
GetFirmwareList(r) ==
    IF /\ GetQuery(r.query) = "ok" /\ GetBoolean(r.recursive) = "ok" /\ GetBoolean(r.inverted) = "ok"
       /\ GetPaging(r.offset) = "ok"
    THEN IF CombinationIsAllowed(r) THEN 200 ELSE 400
    ELSE IF \E e \in {GetQuery(r.query), GetBoolean(r.recursive), GetBoolean(r.inverted), GetPaging(r.offset)} : e \notin {"ok", Malformed} THEN 500
    ELSE 400
\* the flag is read outside of a try block
GetFirmwareWithUid(r) == IF GetBoolean(r.summary) # "ok" THEN 500 ELSE IF r.known THEN 200 ELSE 400
\* put: update, then look up the firmware, then the names of the plugins
PutFirmwareWithUid(r) ==
    IF GetUpdate(r.update) = "ok" /\ r.known /\ r.plugins \subseteq {"unpacker", "supported"} THEN 200 ELSE 400

--------------------------------------------------------------------------------
(* Results of plugins become JSON. A value is a string with or without a null byte,    *)
(* bytes, a number, or a list, tuple or dict of items; an item of a dict has a key,    *)
(* which also can have a null byte.                                                    *)
Value(t, nul, items) == [t |-> t, nul |-> nul, items |-> items]
Item(key, nul, v) == [key |-> key, nul |-> nul, v |-> v]

RECURSIVE Sanitize(_)
RECURSIVE SanitizeList(_)
SanitizeElement(v) ==
    CASE v.t = "tuple" -> SanitizeList([v EXCEPT !.t = "list"])
      [] v.t = "dict"  -> Sanitize(v)
      [] v.t = "list"  -> SanitizeList(v)
      [] v.t = "str"   -> [v EXCEPT !.nul = FALSE]
      [] OTHER         -> v
SanitizeList(v) == [v EXCEPT !.items = [i \in DOMAIN v.items |-> [v.items[i] EXCEPT !.v = SanitizeElement(@)]]]
SanitizeValue(v) == IF v.t = "bytes" THEN Value("str", FALSE, <<>>) ELSE SanitizeElement(v)
\* A key with a null byte is renamed when its turn comes. Of two entries that have the same
\* name then, the one that is assigned last stays; a list or dict is changed in place.
IsAssigned(v) == v.t \in {"str", "bytes", "tuple"}
SanitizeKey(items, i) ==
    \A j \in (DOMAIN items) \ {i} : items[j].key = items[i].key =>
        IF items[i].nul THEN j < i \/ ~IsAssigned(items[j].v) ELSE j < i /\ IsAssigned(items[i].v)
Sanitize(v) ==
    LET kept == SelectSeq([i \in DOMAIN v.items |-> i], LAMBDA i : SanitizeKey(v.items, i))
    IN  [v EXCEPT !.items = [n \in DOMAIN kept |-> Item(v.items[kept[n]].key, FALSE, SanitizeValue(v.items[kept[n]].v))]]

--------------------------------------------------------------------------------
(* Export and import. An archive has the files of a firmware, each with its paths in    *)
(* the others; a firmware that is part of the exported one appears twice, the second    *)
(* time as a firmware, without paths.                                                   *)
InFirmware(db, fw) == {e[2] : e \in {e \in FwFiles(db) : e[1] = fw}}
PathsOf(db, u, within) == {v \in db.vfps : v.file = u /\ v.parent \in within}
FetchDbData(db, fw) ==
    LET files == InFirmware(db, fw)
        found == {o.uid : o \in GetObjectsByUidList(db, files)}
    IN  [uid |-> fw, files |-> [u \in found |-> IF u \in db.firmware THEN {} ELSE PathsOf(db, u, files \union {fw})]]

\* FileObject.from_json: the parents are those of the paths
ArchiveParents(archive, u) == {v.parent : v \in archive.files[u]}
ParentIsMissing(archive, u) == ~(ArchiveParents(archive, u) \subseteq (DOMAIN archive.files) \union {archive.uid})
Orphans(archive) == {u \in DOMAIN archive.files : ParentIsMissing(archive, u)}
\* _insert_objects_hierarchically: rounds, each adds what has all its parents
Rounds(archive) ==
    LET rest == (DOMAIN archive.files) \ Orphans(archive)
        added[n \in 0 .. Cardinality(rest)] ==
            IF n = 0 THEN {archive.uid}
            ELSE added[n - 1] \union {u \in rest : ArchiveParents(archive, u) \subseteq added[n - 1]}
    IN  added
ImportEnds(archive) == LET r == Rounds(archive) IN (DOMAIN archive.files) \ Orphans(archive) \subseteq r[Cardinality(DOMAIN r) - 1]
Imported(archive, rounds) ==
    LET n     == Cardinality(DOMAIN Rounds(archive)) - 1
        files == Rounds(archive)[IF rounds < n THEN rounds ELSE n]
    IN  [files |-> files, firmware |-> {archive.uid}, vfps |-> UNION {archive.files[u] : u \in files \ {archive.uid}},
         included |-> {<<v.parent, v.file>> : v \in UNION {archive.files[u] : u \in files \ {archive.uid}}}]
NothingImported == [files |-> {}, firmware |-> {}, vfps |-> {}, included |-> {}]
\* _import_file: a firmware that is in the database already is skipped
ImportFile(db, archive, rounds) == IF archive.uid \in db.firmware THEN db ELSE Imported(archive, rounds)

PickUpload == Choose("upload", Uploads)
PickRedo == Choose("redo", Redos)
PickRestRequest == Choose("rest", RestRequests)
PickPluginData == Choose("data", PluginData)
PickArchive == Choose("archive", Archives)

--------------------------------------------------------------------------------
HasSpecial(fw) == \E t \in {fw.meta[f] : f \in Fields} \union fw.tags : t.w \in Special

\* Sending the form of a firmware back unchanged (update analysis) keeps what is known of
\* the firmware if and only if no text of it is special in HTML: the texts are stored
\* escaped, and escaped again by task_conversion.py.
UnchangedFormKeepsMeta ==
    Given("upload") =>
        LET fw == PostUpload(input.arg) IN
        fw.meta["vendor"] # Empty => (PostUpdateAnalysis(fw, PrefilledForm(fw)) = fw <=> ~HasSpecial(fw))

\* The form and the REST API make the same firmware of the same data, unless the form
\* takes a value from one of its lists or escapes something.
WebAndRestAgree ==
    Given("upload") =>
        LET fw == PostUpload(input.arg) IN
        (\A f \in DropdownFields : input.arg.text[f] # Empty \/ input.arg.list[f] = Text("new entry")) /\ ~input.arg.unknownPlugin /\ ~HasSpecial([fw EXCEPT !.meta = input.arg.text])
            => fw = RestPutFirmware(input.arg)

\* A firmware is in the database after it was scheduled again: if its analysis is only
\* updated, if no answer came, and otherwise if its file could be read, the form has its
\* name, as that of the page does, and a date that can be parsed.
RedoKeepsTheFirmware ==
    Given("redo") =>
        LET r == input.arg
            wellFormed == r.answer = "binary" /\ r.hasFileName /\ r.date \in {"", "2020-02-02"}
        IN  r.exists /\ (~r.redo \/ r.answer = "timeout" \/ wellFormed) => InDatabase(r)

\* A REST request with a malformed parameter is answered with 400. The flag summary of
\* GET firmware/<uid> is the exception: it ends in an internal error.
MalformedIsRejected ==
    Given("rest") =>
        /\ GetFirmwareList(input.arg) # 500 /\ PutFirmwareWithUid(input.arg) # 500
        /\ (\E p \in {"query", "recursive", "inverted", "offset"} : input.arg[p] = "text") => GetFirmwareList(input.arg) = 400
        /\ GetFirmwareWithUid(input.arg) = 500 <=> input.arg.summary \notin {"absent", "bool"}

RECURSIVE Storable(_)
Storable(v) == v.t \notin {"bytes", "tuple"} /\ ~v.nul /\ \A i \in DOMAIN v.items : ~v.items[i].nul /\ Storable(v.items[i].v)
RECURSIVE BytesInList(_)
BytesInList(v) == \/ v.t \in {"list", "tuple"} /\ \E i \in DOMAIN v.items : v.items[i].v.t = "bytes"
                  \/ \E i \in DOMAIN v.items : BytesInList(v.items[i].v)
\* What sanitize returns can be stored as JSON in PostgreSQL, whatever the plugin put
\* together, unless bytes are an element of a list; and every key keeps a value.
SanitizedIsStorable ==
    Given("data") =>
        LET s == Sanitize(input.arg) IN
        /\ BytesInList(input.arg) \/ Storable(s)
        /\ {input.arg.items[i].key : i \in DOMAIN input.arg.items} = {s.items[i].key : i \in DOMAIN s.items}

\* A firmware that is exported and then imported into an empty database has the same
\* files at the same places, except for firmware images among them, whose place is lost.
ImportRestoresFirmware ==
    Given("archive") =>
        LET db    == input.arg.db
            fw    == input.arg.fw
            files == InFirmware(db, fw)
            got   == ImportFile(NothingImported, FetchDbData(db, fw), Cardinality(files))
        IN  /\ got.files = files \union {fw}
            /\ got.vfps = {v \in db.vfps : v.file \in files \ db.firmware /\ v.parent \in files \union {fw}}

\* The import of an archive ends, unless a file in it has a parent that was left out as
\* an orphan: then nothing is left to add, and the loop never stops.
ImportEndsUnlessBelowOrphan ==
    Given("archive") =>
        LET full    == FetchDbData(input.arg.db, input.arg.fw)
            archive == [full EXCEPT !.files = [u \in (DOMAIN full.files) \ input.arg.lost |-> full.files[u]]]
        IN  ImportEnds(archive)
                <=> ~\E u, p \in DOMAIN archive.files : p \in ArchiveParents(archive, u) /\ ParentIsMissing(archive, p) /\ ~ParentIsMissing(archive, u)

\* An import that is interrupted is not completed by the next one: the firmware is added
\* first, and then skipped because it is there. Only files can be missing then, never the
\* parent of a file that is there.
InterruptedImportIsConsistent ==
    Given("archive") =>
        LET archive == FetchDbData(input.arg.db, input.arg.fw)
            broken  == ImportFile(NothingImported, archive, input.arg.rounds)
            again   == ImportFile(broken, archive, Cardinality(DOMAIN archive.files))
        IN  again = broken /\ \A v \in again.vfps : v.parent \in again.files
================================================================================
