-------------------------------- MODULE Migration -------------------------------
(* Setting up the database, the revisions of its schema, and the migration from     *)
(* MongoDB: programs that work through the whole database, can be interrupted, and   *)
(* are started again.                                                                *)
EXTENDS FirmwareRecords

CONSTANTS Crashes,            \* after how many steps the set-up is interrupted
          SchemaDatabases,    \* databases whose schema is changed, see SchemaDatabase in MCAlgorithms
          StoredResults,      \* results in MongoDB whose fields may be stored in files
          Mongos              \* contents of MongoDB, see Mongo in MCAlgorithms, with a crash

--------------------------------------------------------------------------------
(* init_postgres.py: what exists is not created again. The tables, the privileges on   *)
(* them and the revision are created if there is no table file_object.                 *)
SetUpSteps == <<"admin", "databases", "users", "alembic", "tables", "privileges", "revision">>
StepsToDo(done) ==
    SelectSeq(SetUpSteps, LAMBDA s : IF s \in {"tables", "privileges", "revision"} THEN "tables" \notin done ELSE s \notin done)
SetUp(done, crash) == LET plan == StepsToDo(done) IN done \union {plan[i] : i \in {i \in DOMAIN plan : i <= crash}}

\* migrate_database.py. The column is added outside of a transaction, all that follows is
\* one; a second run fails because the column exists.
UpgradeUsers(t, crash) ==
    CASE crash = 0 \/ t.column      -> t
      [] crash < 5 /\ ~t.column     -> [t EXCEPT !.column = TRUE]
      [] OTHER                      -> [t EXCEPT !.column = TRUE, !.unique = TRUE]
DowngradeUsers(t) == [t EXCEPT !.column = FALSE, !.unique = FALSE]

--------------------------------------------------------------------------------
(* Revisions of the schema, the oldest first. A database has the elements of a schema,  *)
(* and data in them. A migration runs in one transaction: when it fails, nothing changes. *)
Revisions == <<"cascade", "vfp", "indexes", "gin", "match_data", "comments">>
Has(db, element) == db.revision >= (CHOOSE i \in DOMAIN Revisions : Revisions[i] = element)

\* 221cfef47173: with the cascade, deleting a file deletes the rows that point to it
UpgradeCascade(db) == [db EXCEPT !.cascade = {"analysis", "included_files", "fw_files", "compared_files", "firmware"}]
DowngradeCascade(db) == [db EXCEPT !.cascade = {}]

\* a1312300d62d: the old paths are sequences of uids, then the path; a "|" in a path splits it.
\* A firmware without files has no old paths at all.
NoPaths == {<<"null">>}
ParentOfPath(path) == path[Len(path) - 1]
OldToVfp(db, u, path) == [parent |-> ParentOfPath(path), file |-> u, path |-> <<path[Len(path)]>>]
UpgradeVfp(db) ==
    IF \E u \in db.files : db.old[u] = NoPaths THEN db
    ELSE [db EXCEPT !.revision = 2, !.old = [u \in db.files |-> {}],
             !.vfps = {v \in UNION {{OldToVfp(db, u, p) : p \in {p \in db.old[u] : Len(p) >= 2}} : u \in db.files} : v.parent \in db.files}]
FullPaths(db, u) == {p \in FileTreePaths(db, u) : Len(p) >= 2}
PathsWithin(db, u, parent) == {v.path : v \in {v \in db.vfps : v.file = u /\ v.parent = parent}}
DowngradeVfp(db) ==
    IF \E u \in db.files : \E p \in FullPaths(db, u) : PathsWithin(db, u, p[Len(p) - 1]) = {} THEN db
    ELSE [db EXCEPT !.revision = 1, !.vfps = {},
             !.old = [u \in db.files |->
                        CASE Parents(db, u) # {} -> UNION {{Front(p) \o path : path \in PathsWithin(db, u, p[Len(p) - 1])} : p \in FullPaths(db, u)}
                          [] Parents(db, u) = {} /\ Children(db, u) # {} -> {<<u>>}
                          [] OTHER -> NoPaths]]

\* 70ae1212bc03, 05d8effce8b3: indexes; 81a549a2be95: a column of search_cache
UpgradeIndexes(db) == [db EXCEPT !.indexes = @ \union {"analysis", "included_files", "fw_files", "virtual_file_path"}]
DowngradeIndexes(db) == [db EXCEPT !.indexes = @ \ {"analysis", "included_files", "fw_files", "virtual_file_path"}]
UpgradeGin(db) == [db EXCEPT !.indexes = @ \union {"result_gin"}]
DowngradeGin(db) == [db EXCEPT !.indexes = @ \ {"result_gin"}]
UpgradeMatchData(db) == [db EXCEPT !.matchData = "empty"]
DowngradeMatchData(db) == [db EXCEPT !.matchData = "none"]
\* 6a1c50ade0f3: comments on tables and columns
UpgradeComments(db) == [db EXCEPT !.comments = TRUE]
DowngradeComments(db) == [db EXCEPT !.comments = FALSE]

Upgrade(db) ==
    LET to == db.revision + 1
        up == CASE to = 1 -> UpgradeCascade(db) [] to = 2 -> UpgradeVfp(db) [] to = 3 -> UpgradeIndexes(db) [] to = 4 -> UpgradeGin(db)
                [] to = 5 -> UpgradeMatchData(db) [] to = 6 -> UpgradeComments(db) [] OTHER -> db
    IN  IF to = 2 \/ to > 6 THEN up ELSE [up EXCEPT !.revision = to]
Downgrade(db) ==
    LET down == CASE db.revision = 6 -> DowngradeComments(db) [] db.revision = 5 -> DowngradeMatchData(db) [] db.revision = 4 -> DowngradeGin(db)
                  [] db.revision = 3 -> DowngradeIndexes(db) [] db.revision = 2 -> DowngradeVfp(db) [] db.revision = 1 -> DowngradeCascade(db) [] OTHER -> db
    IN  IF db.revision \in {0, 2} THEN down ELSE [down EXCEPT !.revision = @ - 1]
UpgradeTo(db, n) == FoldLeft(LAMBDA d, i : IF d.revision < n THEN Upgrade(d) ELSE d, db, <<1, 2, 3, 4, 5, 6>>)
DowngradeTo(db, n) == FoldLeft(LAMBDA d, i : IF d.revision > n THEN Downgrade(d) ELSE d, db, <<1, 2, 3, 4, 5, 6>>)

--------------------------------------------------------------------------------
(* migrate_db_to_postgresql.py. The files are visited from each firmware downwards; an   *)
(* object is inserted, then its analyses one by one. A step is an insert; the migration  *)
(* stops after so many steps (a crash), or when an error is not caught.                  *)
Postgres == [objects |-> {}, firmware |-> {}, parents |-> {}, roots |-> {}, analyses |-> {}, steps |-> 0, failed |-> FALSE]
Goes(st) == st.steps > 0 /\ ~st.failed
InsertAnalyses(mongo, st, u) ==
    FoldLeft(LAMBDA s, p : IF Goes(s) THEN [s EXCEPT !.analyses = @ \union {<<u, p>>}, !.steps = @ - 1] ELSE s, st, mongo.analyses[u])
GetObject(mongo, u) == IF u \in mongo.files THEN "file" ELSE "firmware"
\* get_object looks among the files first: a firmware that is also a file of another one has
\* no parent then, when it is visited as a firmware. The roots among its paths must exist.
MigrateSingleObject(mongo, st, u, parent, root) ==
    LET file == GetObject(mongo, u) = "file"
    IN  IF file /\ (parent = "none" \/ ~(mongo.paths[u] \subseteq st.objects)) THEN [st EXCEPT !.failed = TRUE]
        ELSE InsertAnalyses(mongo,
                [st EXCEPT !.objects = @ \union {u}, !.steps = @ - 1, !.firmware = IF file THEN @ ELSE @ \union {u},
                    !.parents = IF file THEN @ \union {<<parent, u>>} ELSE @, !.roots = IF file THEN @ \union {<<root, u>>} ELSE @], u)
RECURSIVE MigrateFw(_, _, _, _, _)
MigrateObject(mongo, st, u, parent, root) ==
    IF ~Goes(st) THEN st
    ELSE FoldLeft(LAMBDA s, c : MigrateFw(mongo, s, c, u, IF parent = "none" THEN u ELSE root),
                  IF u \notin st.objects THEN MigrateSingleObject(mongo, st, u, parent, root)
                  ELSE IF parent = "none" THEN st
                  ELSE [st EXCEPT !.parents = @ \union {<<parent, u>>}, !.roots = @ \union {<<root, u>>}],
                  SetToSeq(mongo.included[u]))
MigrateFw(mongo, st, u, parent, root) == MigrateObject(mongo, st, u, parent, root)
MigrateAll(mongo, st, steps) ==
    FoldLeft(LAMBDA s, u : MigrateFw(mongo, s, u, "none", "none"), [st EXCEPT !.steps = steps, !.failed = FALSE], mongo.firmwares)
\* migrate_comparisons: those that are not there yet, if all their files are
MigrateComparisons(mongo, st) == {c \in mongo.comparisons : c \subseteq st.objects}

\* _fix_illegal_dict: bytes in a dict end the migration (most plugins), in a list they are decoded
RECURSIVE FixIllegalList(_)
RECURSIVE FixIllegalDict(_)
FixElement(v) ==
    CASE v.t = "dict"  -> FixIllegalDict(v)
      [] v.t = "list"  -> FixIllegalList(v)
      [] v.t = "tuple" -> FixIllegalList([v EXCEPT !.t = "list"])
      [] v.t = "str"   -> [v EXCEPT !.nul = FALSE]
      [] v.t = "bytes" -> Value("str", FALSE, <<>>)
      [] OTHER         -> v
FixIllegalList(v) == [v EXCEPT !.items = [i \in DOMAIN v.items |-> [v.items[i] EXCEPT !.v = FixElement(@)]]]
FixIllegalDict(v) == [v EXCEPT !.items = [i \in DOMAIN v.items |-> [v.items[i] EXCEPT !.v = IF @.t = "bytes" THEN @ ELSE FixElement(@)]]]
RECURSIVE EndsMigration(_)
EndsMigration(v) == \E i \in DOMAIN v.items : (v.t = "dict" /\ v.items[i].v.t = "bytes") \/ EndsMigration(v.items[i].v)

\* retrieve_analysis: fields of a result may be references to files with their pickled values.
\* get_last_version raises NoFile, which ends the retrieval of the whole result; a class
\* that is no longer there makes the field empty.
Retrievable(f) == ~f.reference \/ f.file # "gone"
RetrieveBinaries(f) == CASE ~f.reference -> "value" [] f.reference /\ f.file = "loads" -> "value" [] OTHER -> "empty"
RetrieveAnalysis(r) ==
    IF r.flag /\ \A i \in DOMAIN r.fields : Retrievable(r.fields[i])
    THEN [i \in DOMAIN r.fields |-> RetrieveBinaries(r.fields[i])]
    ELSE [i \in DOMAIN r.fields |-> IF r.fields[i].reference THEN "reference" ELSE "value"]

PickCrash == Choose("crash", Crashes)
PickSchema == Choose("schema", SchemaDatabases)
PickMongo == Choose("mongo", Mongos)
PickStoredResult == Choose("stored", StoredResults)

--------------------------------------------------------------------------------
\* A set-up that was interrupted is completed by the next one, unless it stopped between
\* the creation of the tables and the stamp of the revision: init_postgres.py skips the
\* rest then. The upgrade of the users can only be repeated if nothing was done yet.
SetUpIsResumable ==
    Given("crash") =>
        LET again == SetUp(SetUp({}, input.arg), 7)
            users == UpgradeUsers(UpgradeUsers([column |-> FALSE, unique |-> FALSE], input.arg), 5)
        IN  /\ again = {SetUpSteps[i] : i \in DOMAIN SetUpSteps} <=> input.arg \notin {5, 6}
            /\ users.unique <=> input.arg \notin 1 .. 4

RoundTripIsPossible(db) ==
    /\ \A u \in db.firmware : Parents(db, u) # {} \/ Children(db, u) # {}
    /\ \A v \in db.vfps : Len(v.path) = 1

\* Downgrading to any revision and upgrading again gives back the database. What is lost:
\* the matches of searches, and everything about paths when a firmware has no files (the
\* upgrade fails on its missing paths), when an included file has no path (the downgrade
\* fails), or when a path has a "|" in it.
MigrationRoundTrip ==
    Given("schema") =>
        LET db   == [input.arg.db EXCEPT !.matchData = IF Has(input.arg.db, "match_data") THEN @ ELSE "none"]
            down == DowngradeTo(db, input.arg.to)
            up   == UpgradeTo(down, 6)
            same == [db EXCEPT !.matchData = IF input.arg.to < 5 /\ down.revision < 5 THEN "empty" ELSE @]
        IN  up = same <=> input.arg.to >= 2 \/ RoundTripIsPossible(db) \/ down.revision = 2

\* A migration from MongoDB that was interrupted anywhere is completed by the next one:
\* the same objects with the same parents and roots. Only analyses of the one object that
\* was being inserted can be missing.
MigrationIsResumable ==
    Given("mongo") =>
        LET mongo == input.arg.mongo
            all   == MigrateAll(mongo, Postgres, 100)
            again == MigrateAll(mongo, MigrateAll(mongo, Postgres, input.arg.crash), 100)
        IN  ~all.failed =>
                /\ ~again.failed /\ again.objects = all.objects /\ again.parents = all.parents /\ again.roots = all.roots
                /\ \E u \in all.objects : \A a \in all.analyses \ again.analyses : a[1] = u
                /\ MigrateComparisons(mongo, again) = MigrateComparisons(mongo, all)

\* Without nested firmware the migration fails if and only if a file of one firmware also
\* has a path in one that comes later: the path is stored with the file, and refers to a
\* firmware that has no row yet. It always fails on a nested firmware that comes first.
MigrationFailsOnSharedFiles ==
    Given("mongo") =>
        LET mongo == input.arg.mongo
            order == mongo.firmwares
            below == [i \in DOMAIN order |-> FilesInFo([files |-> mongo.files \union ToSet(order), included |-> UNION {{u} \X mongo.included[u] : u \in DOMAIN mongo.included}], order[i])]
            fails == MigrateAll(mongo, Postgres, 100).failed
        IN  IF ToSet(order) \cap mongo.files = {}
            THEN fails <=> \E i, j \in DOMAIN order : i < j /\ \E u \in below[i] \cap mongo.files : order[j] \in mongo.paths[u]
            ELSE order[1] \in mongo.files => fails

\* What the migration makes of a result can be stored, whatever MongoDB had in it: it stops
\* at bytes in a dict, and repairs everything else.
MigratedIsStorable ==
    Given("data") => EndsMigration(input.arg) \/ Storable(Sanitize(FixIllegalDict(input.arg)))

\* A result whose fields were stored in files is restored whole or not at all: one file that
\* is gone leaves the names of all the others in the result, and they are migrated as if
\* they were results. A field is emptied only if its class is gone.
RestoredWholeOrNotAtAll ==
    Given("stored") =>
        LET fields == input.arg.fields
            got    == RetrieveAnalysis(input.arg)
            stored == {i \in DOMAIN fields : fields[i].reference}
        IN  /\ (\E i \in stored : got[i] = "reference") => \A i \in stored : got[i] = "reference"
            /\ \A i \in DOMAIN fields : got[i] = "empty" <=> i \in stored /\ fields[i].file = "no_class" /\ \A j \in stored : got[j] # "reference"
            /\ (\E i \in stored : fields[i].file = "gone") => \A i \in stored : got[i] = "reference"

\* A firmware survives what is done to its record: forms, REST requests, export and
\* import (FirmwareRecords), the set-up, revisions and the migration, interrupted or
\* not; what is lost is what the parts name.
RecordsSurvive ==
    /\ UnchangedFormKeepsMeta
    /\ WebAndRestAgree
    /\ RedoKeepsTheFirmware
    /\ MalformedIsRejected
    /\ SanitizedIsStorable
    /\ ImportRestoresFirmware
    /\ ImportEndsUnlessBelowOrphan
    /\ InterruptedImportIsConsistent
    /\ SetUpIsResumable
    /\ MigrationRoundTrip
    /\ MigrationIsResumable
    /\ MigrationFailsOnSharedFiles
    /\ MigratedIsStorable
    /\ RestoredWholeOrNotAtAll
================================================================================
