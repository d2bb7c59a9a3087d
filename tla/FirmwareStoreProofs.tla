-------------------------- MODULE FirmwareStoreProofs --------------------------
(***************************************************************************)
(* Proofs about FirmwareStore: the tables and the file store fit together  *)
(* for every set of images, every nesting of files, every number of work   *)
(* threads and every number of uploads, deletions, repeated analyses and   *)
(* cancel requests.                                                        *)
(***************************************************************************)
EXTENDS FirmwareStore, TLAPS

(***************************************************************************)
(* The inductive invariant, layer by layer.                                *)
(***************************************************************************)

DbType ==
    /\ db \in Tables
    /\ db.is_firmware \subseteq db.file_object
    /\ db.firmware \subseteq db.file_object
    /\ db.fw_files \subseteq db.file_object \X db.file_object

AdminType == [phase : {"idle", "rows", "request"}, uid : SUBSET Images,
              root : SUBSET Images, included : SUBSET Uids]
DeleterType == [task : SUBSET Uids, uids_in_db : SUBSET Uids, removing : SUBSET Uids]
EntryType == [active : BOOLEAN, remaining : SUBSET Uids, done : SUBSET Uids]

TypeInv ==
    /\ DbType
    /\ content \subseteq Uids /\ locks \subseteq Uids
    /\ submitted \subseteq [uid : Images, kind : {"analysis_task", "re_analyze_task"}]
    /\ requests \in Seq(SUBSET Uids)
    /\ entry \in [Images -> EntryType]
    /\ tasks \subseteq TaskType
    /\ analysing \subseteq [root : Images, uid : Uids]
    /\ admin \in AdminType
    /\ deleter \in DeleterType
    /\ deleter.removing \cap deleter.task = {}

\* whatever is done for an image is done to a file of it
Shape(t) ==
    /\ t.phase = "queued" => t.out = {}
    /\ t.phase = "unpack" => t.at = {}
    /\ t.phase \notin {"queued", "unpack", "store"} => t.todo = {} /\ t.at = {}
    /\ t.todo \cup t.at \subseteq t.out
    /\ t.out \subseteq Files[t.root] \ {t.uid}
    /\ t.uid \in Files[t.root]

WithinFiles ==
    /\ \A t \in tasks : Shape(t)
    /\ \A a \in analysing : a.uid \in Files[a.root]
    /\ \A r \in Images : entry[r].remaining \cup entry[r].done \subseteq Files[r]
    /\ \A r, u \in Uids : <<r, u>> \in db.fw_files => r \in Images /\ u \in Files[r] \ {r}
    /\ db.is_firmware \subseteq Images

\* an image that was found in another one is remembered
MixedAreKnown ==
    /\ Mixed \subseteq hist.mixed /\ hist.mixed \subseteq Images
    /\ (db.file_object \cap Images) \ db.is_firmware \subseteq hist.mixed
    /\ db.is_firmware \ db.firmware \subseteq hist.mixed

\* an entry lists the files that there are tasks for, unless a thread has died, and never
\* forgets its image
EntryInv ==
    \A r \in Images : entry[r].active =>
        /\ r \in entry[r].remaining \cup entry[r].done
        /\ entry[r].remaining # {}
        /\ \A u \in entry[r].remaining :
              Files[r] \subseteq hist.interrupted \/ \E t \in tasks : t.root = r /\ t.uid = u

\* the process that deletes knows all files of its image
AdminInv ==
    /\ admin.phase = "idle" => admin = NoAdmin
    /\ admin.phase # "idle" =>
        \E r \in Images : admin.uid = {r} /\ (admin.root = {} \/ admin.root = {r})
    /\ admin.phase = "rows" => \A r \in admin.uid :
        /\ r \in Pending => Files[r] \subseteq hist.interrupted
        /\ AllFilesInFw(db, r) \subseteq admin.included \/ Files[r] \subseteq hist.interrupted

\* u has its row for the image r, or there is a reason why not
Row(r, u) == IF u = r THEN r \in db.is_firmware ELSE <<r, u>> \in db.fw_files

RowKept(r, u) ==
    Row(r, u) \/ Files[r] \subseteq hist.interrupted \/ r \in hist.mixed \/ u \in hist.mixed

RowsKept ==
    /\ \A a \in analysing : RowKept(a.root, a.uid)
    /\ \A t \in tasks : t.phase = "update" => RowKept(t.root, t.uid)
    /\ \A r \in Images : entry[r].active => \A u \in entry[r].done : RowKept(r, u)

TablesInv ==
    /\ TypeInv
    /\ WithinFiles
    /\ MixedAreKnown
    /\ NoOrphans
    /\ EntryInv
    /\ AdminInv
    /\ RowsKept

\* the files that are needed are there, or the listener was asked to remove them
\* and the lock could not tell
Asked == UNION {requests[i] : i \in 1..Len(requests)}

RemovalsAreRaces ==
    /\ Raced \subseteq hist.raced
    /\ \A u \in deleter.removing : u \in hist.raced \/ u \notin locks \cup deleter.uids_in_db
    /\ db.is_firmware \cap ToRemove \subseteq hist.raced

Kept == content \cup hist.raced

ContentInv ==
    /\ ContentKept
    /\ \A t \in tasks : t.uid \in Kept /\ t.out \ (t.todo \cup t.at) \subseteq Kept
    /\ \A s \in submitted : s.kind = "re_analyze_task" => s.uid \in Kept
    /\ admin.root = {} => /\ admin.uid \subseteq Kept
                          /\ admin.uid \cap (Asked \cup Batch) \subseteq hist.raced

\* an image that nothing disturbed is whole once its entry is gone
Calm(r) ==
    /\ ~(Files[r] \subseteq hist.interrupted)
    /\ Files[r] \cap (hist.mixed \cup hist.raced) = {}

Whole(r) == \A u \in Files[r] \ {r} : <<r, u>> \in db.fw_files

UnpackedWhole(r) ==
    /\ r \in db.is_firmware => entry[r].active \/ Whole(r)
    /\ \A t \in tasks : t.root = r /\ t.phase # "queued" =>
          /\ t.out = Content[t.uid] \ {t.uid}
          /\ t.uid = r => entry[r].active \/ Whole(r)
    /\ entry[r].active => \A u \in entry[r].done :
          Content[u] \ {u} \subseteq entry[r].remaining \cup entry[r].done

CompleteInv == \A r \in Images : Calm(r) => UnpackedWhole(r)

\* what may leave a file behind
Excused(u) ==
    u \in hist.interrupted \cup hist.refound \cup hist.overlapped \cup OfMixed

Quiet(r) == \E u \in Files[r] : ~Excused(u)

OneTaskEach(r) ==
    /\ \A t \in tasks : t.root = r /\ ~(t.phase = "queued" /\ t.uid = r) =>
          entry[r].active /\ t.uid \in entry[r].remaining
    /\ \A t, o \in tasks :
          /\ t.root = r /\ o.root = r
          /\ t.uid = o.uid \/ (t.uid = r /\ t.phase = "queued")
          => t = o

\* someone will store a row for u
Comes(u) ==
    \/ \E t \in tasks : t.uid = u /\ t.phase # "update"
    \/ \E t \in tasks : u \in t.out \ t.todo
                        /\ u \notin entry[t.root].remaining \cup entry[t.root].done

LocksAreReleased ==
    \A u \in locks : Excused(u) \/ (\E a \in analysing : a.uid = u) \/ Comes(u)

\* someone is about to store a row for u, or to remove its file
Known(u) ==
    \/ \E s \in submitted : s.uid = u
    \/ \E t \in tasks : t.uid = u /\ t.phase # "update"
    \/ \E t \in tasks : u \in t.out
    \/ u \in Asked
    \/ admin.phase # "idle" /\ u \in admin.included \cup admin.uid
    \/ u \in deleter.removing
    \/ u \in deleter.task \ deleter.uids_in_db

LeftoversAreKnown ==
    \A u \in content \ db.file_object : Excused(u) \/ Known(u)

LeakInv ==
    /\ \A r \in Images : Quiet(r) => OneTaskEach(r)
    /\ LocksAreReleased
    /\ LeftoversAreKnown

(***************************************************************************)
(* Facts about the operators.                                              *)
(***************************************************************************)

\* The files of an image: the image itself, and whatever is found in one of them.
LEMMA FilesFacts ==
    ASSUME NEW r \in Images
    PROVE  /\ r \in Files[r] /\ Files[r] \subseteq Uids
           /\ \A v \in Files[r] : Content[v] \subseteq Files[r]
<1>1. Files[r] = {u \in Uids : \A S \in SUBSET Uids :
                    r \in S /\ (\A v \in S : Content[v] \subseteq S) => u \in S}
  BY DEF Files
<1>2. Images \subseteq Uids /\ \A v \in Uids : Content[v] \subseteq Uids
  BY StoreConstants
<1>3. r \in Files[r] /\ Files[r] \subseteq Uids
  BY <1>1, <1>2
<1>4. ASSUME NEW v \in Files[r], NEW c \in Content[v] PROVE c \in Files[r]
  BY <1>1, <1>2, <1>4
<1> QED BY <1>3, <1>4

\* They are the least such set.
LEMMA FilesLeast ==
    ASSUME NEW r \in Images, NEW S \in SUBSET Uids, r \in S,
           \A v \in S : Content[v] \subseteq S
    PROVE  Files[r] \subseteq S
BY DEF Files

\* t2 is the task t in another phase
Turns(t, t2, phase, todo, at, out) ==
    /\ t2 \in TaskType
    /\ t2.root = t.root /\ t2.uid = t.uid /\ t2.parent = t.parent
    /\ t2.phase = phase /\ t2.todo = todo /\ t2.at = at /\ t2.out = out

\* A task keeps its image, its file and its parent when its phase changes.
LEMMA TaskFields ==
    ASSUME NEW t \in TaskType
    PROVE  /\ t.root \in Images /\ t.uid \in Uids /\ t.parent \in Uids
           /\ t.phase \in {"queued", "unpack", "store", "insert", "check", "change", "write", "update"}
           /\ t.todo \subseteq Uids /\ t.at \subseteq Uids /\ t.out \subseteq Uids
           /\ \A f \in SUBSET Uids :
                Turns(t, [t EXCEPT !.phase = "unpack", !.todo = f, !.out = f],
                      "unpack", f, t.at, f)
           /\ \A c \in Uids :
                Turns(t, [t EXCEPT !.phase = "store", !.todo = @ \ {c}, !.at = {c}],
                      "store", t.todo \ {c}, {c}, t.out)
           /\ Turns(t, [t EXCEPT !.phase = "unpack", !.at = {}], "unpack", t.todo, {}, t.out)
           /\ \A p \in {"insert", "check", "change", "write", "update"} :
                Turns(t, [t EXCEPT !.phase = p], p, t.todo, t.at, t.out)
           /\ Turns(t, [t EXCEPT !.phase = "update", !.out = {}], "update", t.todo, t.at, {})
<1>2. t.root \in Images /\ t.uid \in Uids /\ t.parent \in Uids
      /\ t.phase \in {"queued", "unpack", "store", "insert", "check", "change", "write", "update"}
      /\ t.todo \subseteq Uids /\ t.at \subseteq Uids /\ t.out \subseteq Uids
  BY DEF TaskType
<1>3. ASSUME NEW f \in SUBSET Uids
      PROVE  Turns(t, [t EXCEPT !.phase = "unpack", !.todo = f, !.out = f],
                   "unpack", f, t.at, f)
  BY DEF Turns, TaskType
<1>4. ASSUME NEW c \in Uids
      PROVE  Turns(t, [t EXCEPT !.phase = "store", !.todo = @ \ {c}, !.at = {c}],
                   "store", t.todo \ {c}, {c}, t.out)
  BY DEF Turns, TaskType
<1>5. Turns(t, [t EXCEPT !.phase = "unpack", !.at = {}], "unpack", t.todo, {}, t.out)
  BY DEF Turns, TaskType
<1>6. ASSUME NEW p \in {"insert", "check", "change", "write", "update"}
      PROVE  Turns(t, [t EXCEPT !.phase = p], p, t.todo, t.at, t.out)
  BY DEF Turns, TaskType
<1>7. Turns(t, [t EXCEPT !.phase = "update", !.out = {}], "update", t.todo, t.at, {})
  BY DEF Turns, TaskType
<1> QED BY <1>2, <1>3, <1>4, <1>5, <1>6, <1>7

\* The tables after add_object.
LEMMA StoredFields ==
    ASSUME NEW d \in Tables, NEW t \in TaskType
    PROVE  /\ Stored(d, t).file_object = d.file_object \cup {t.uid}
           /\ Stored(d, t).is_firmware = IF IsFirmware(t) THEN d.is_firmware \cup {t.uid}
                                         ELSE d.is_firmware \ {t.uid}
           /\ Stored(d, t).firmware = IF IsFirmware(t) /\ t.uid \notin d.file_object
                                      THEN d.firmware \cup {t.uid} ELSE d.firmware
           /\ Stored(d, t).fw_files = IF IsFirmware(t) THEN d.fw_files
                                      ELSE d.fw_files \cup {<<t.root, t.uid>>}
           /\ Stored(d, t) \in Tables
<1> DEFINE a == d.file_object \cup {t.uid}
           b == IF IsFirmware(t) THEN d.is_firmware \cup {t.uid} ELSE d.is_firmware \ {t.uid}
           c == IF IsFirmware(t) /\ t.uid \notin d.file_object
                THEN d.firmware \cup {t.uid} ELSE d.firmware
           e == IF IsFirmware(t) THEN d.fw_files ELSE d.fw_files \cup {<<t.root, t.uid>>}
<1>2. Stored(d, t) = [d EXCEPT !.file_object = a, !.is_firmware = b, !.firmware = c, !.fw_files = e]
  BY DEF Stored
<1>3. /\ d.file_object \in SUBSET Uids /\ d.is_firmware \in SUBSET Uids
      /\ d.firmware \in SUBSET Uids /\ d.fw_files \in SUBSET (Uids \X Uids)
      /\ t.uid \in Uids /\ t.root \in Uids
  BY TaskFields, StoreConstants DEF Tables, FileObjectTable, FirmwareTable, FwFilesTable
<1>4. /\ a \in FileObjectTable /\ b \in FileObjectTable
      /\ c \in FirmwareTable /\ e \in FwFilesTable
  BY <1>3 DEF FileObjectTable, FirmwareTable, FwFilesTable
<1> HIDE DEF a, b, c, e
<1>5. /\ Stored(d, t).file_object = a /\ Stored(d, t).is_firmware = b
      /\ Stored(d, t).firmware = c /\ Stored(d, t).fw_files = e
  BY <1>2, <1>4 DEF Tables
<1>6. Stored(d, t) \in Tables
  BY <1>2, <1>4 DEF Tables
<1> QED BY <1>5, <1>6 DEF a, b, c, e

\* The tables after a cascade.
LEMMA CascadeFields ==
    ASSUME NEW d, NEW gone
    PROVE  /\ Cascade(d, gone).file_object = d.file_object \ gone
           /\ Cascade(d, gone).is_firmware = d.is_firmware \ gone
           /\ Cascade(d, gone).firmware = d.firmware \ gone
           /\ Cascade(d, gone).fw_files = {p \in d.fw_files : p[1] \notin gone /\ p[2] \notin gone}
BY DEF Cascade

\* the rows of u and of the other files in gone are deleted
Deleted(d, d2, u, gone) ==
    /\ d2 \in Tables
    /\ d2.file_object = d.file_object \ gone
    /\ d2.is_firmware = d.is_firmware \ gone
    /\ d2.firmware = d.firmware \ gone
    /\ \A r, v : <<r, v>> \in d2.fw_files
                    <=> <<r, v>> \in d.fw_files /\ r \notin gone /\ v \notin gone
    /\ u \in gone
    /\ \A v \in gone : v # u =>
          /\ v \in d.file_object /\ v \notin d.is_firmware
          /\ \A r \in Uids : <<r, v>> \in d.fw_files => r = u
    /\ u \notin d.firmware => gone = {u}
    /\ u \in d.firmware =>
          \A v \in d.file_object \ d.is_firmware :
             v \notin gone => \E r \in Uids : r # u /\ <<r, v>> \in d.fw_files

\* delete_object removes the row of u and, for a firmware, those of the files that
\* are left without a root and have no flag.
LEMMA DeleteObjectIs ==
    ASSUME NEW d \in Tables, NEW u \in Uids
    PROVE  \E gone \in SUBSET Uids : Deleted(d, DeleteObject(d, u), u, gone)
<1> DEFINE rest == Cascade(d, {u})
           orph == Orphans(rest)
           gone == IF u \in d.firmware THEN {u} \cup orph ELSE {u}
<1>1. d = [file_object |-> d.file_object, is_firmware |-> d.is_firmware,
           firmware |-> d.firmware, fw_files |-> d.fw_files]
      /\ d.file_object \subseteq Uids /\ d.is_firmware \subseteq Uids
      /\ d.firmware \subseteq Uids /\ d.fw_files \subseteq Uids \X Uids
  BY DEF Tables, FileObjectTable, FirmwareTable, FwFilesTable
<1>2. /\ rest.file_object = d.file_object \ {u}
      /\ rest.is_firmware = d.is_firmware \ {u}
      /\ rest.firmware = d.firmware \ {u}
      /\ rest.fw_files = {p \in d.fw_files : p[1] \notin {u} /\ p[2] \notin {u}}
  BY CascadeFields
<1>3. \A r, v : <<r, v>> \in rest.fw_files <=> <<r, v>> \in d.fw_files /\ r # u /\ v # u
  BY <1>2
<1>4. orph = {v \in (d.file_object \ {u}) \ (d.is_firmware \ {u}) :
                \A r \in Uids : <<r, v>> \notin rest.fw_files}
  BY <1>2 DEF Orphans, RootFirmware
<1>5. /\ Cascade(rest, orph).file_object = rest.file_object \ orph
      /\ Cascade(rest, orph).is_firmware = rest.is_firmware \ orph
      /\ Cascade(rest, orph).firmware = rest.firmware \ orph
      /\ Cascade(rest, orph).fw_files = {p \in rest.fw_files : p[1] \notin orph /\ p[2] \notin orph}
  BY CascadeFields
<1>6. DeleteObject(d, u) = IF u \notin d.firmware THEN rest ELSE Cascade(rest, orph)
  BY DEF DeleteObject
<1>7. gone \in SUBSET Uids /\ u \in gone
  BY <1>1, <1>4
<1>8. /\ DeleteObject(d, u).file_object = d.file_object \ gone
      /\ DeleteObject(d, u).is_firmware = d.is_firmware \ gone
      /\ DeleteObject(d, u).firmware = d.firmware \ gone
  BY <1>2, <1>5, <1>6
<1>9. \A r, v : <<r, v>> \in DeleteObject(d, u).fw_files
                   <=> <<r, v>> \in d.fw_files /\ r \notin gone /\ v \notin gone
  <2>1. CASE u \notin d.firmware
    BY <2>1, <1>3, <1>6
  <2>2. CASE u \in d.firmware
    <3>1. DeleteObject(d, u).fw_files = {p \in rest.fw_files : p[1] \notin orph /\ p[2] \notin orph}
      BY <2>2, <1>5, <1>6
    <3> HIDE DEF orph, rest
    <3>2. \A r, v : <<r, v>> \in DeleteObject(d, u).fw_files
                      <=> <<r, v>> \in rest.fw_files /\ r \notin orph /\ v \notin orph
      BY <3>1
    <3> QED BY <3>2, <1>3, <2>2
  <2> QED BY <2>1, <2>2
<1>10. DeleteObject(d, u) \in Tables
  <2>1. rest \in Tables
    BY <1>1 DEF Tables, FileObjectTable, FirmwareTable, FwFilesTable, Cascade
  <2>2. Cascade(rest, orph) \in Tables
    BY <2>1 DEF Tables, FileObjectTable, FirmwareTable, FwFilesTable, Cascade
  <2> QED BY <2>1, <2>2, <1>6
<1>11. \A v \in gone : v # u =>
          /\ v \in d.file_object /\ v \notin d.is_firmware
          /\ \A r \in Uids : <<r, v>> \in d.fw_files => r = u
  BY <1>3, <1>4
<1>12. u \in d.firmware =>
          \A v \in d.file_object \ d.is_firmware :
             v \notin gone => \E r \in Uids : r # u /\ <<r, v>> \in d.fw_files
  BY <1>3, <1>4
<1>13. u \notin d.firmware => gone = {u}
  OBVIOUS
<1> HIDE DEF gone
<1>14. Deleted(d, DeleteObject(d, u), u, gone)
  BY <1>7, <1>8, <1>9, <1>10, <1>11, <1>12, <1>13 DEF Deleted
<1> QED BY <1>7, <1>14

(***************************************************************************)
(* What the steps of the unpacking do.                                     *)
(***************************************************************************)

\* what the extractor finds
Found(t) == IF t.uid \in content THEN Content[t.uid] \ {t.uid} ELSE {}

\* what is new to the image, and what then is left to do
New(t) ==
    IF entry[t.root].active
    THEN t.out \ (entry[t.root].remaining \cup entry[t.root].done) ELSE {}
Left(t) == (entry[t.root].remaining \cup New(t)) \ {t.uid}

\* work_thread begins with a task, or drops it.
LEMMA StartStep ==
    ASSUME TypeInv, NEW t \in tasks, Start(t)
    PROVE  /\ t.phase = "queued" /\ Found(t) \subseteq Uids
           /\ UNCHANGED <<db, content, locks, submitted, requests, analysing, admin, deleter>>
           /\ entry' = IF t.uid = t.root /\ ~entry[t.root].active
                       THEN [entry EXCEPT ![t.root] =
                               [active |-> TRUE, remaining |-> {t.uid}, done |-> {}]]
                       ELSE entry
           /\ \/ /\ t.uid = t.root \/ entry[t.root].active
                 /\ \E t2 : /\ Turns(t, t2, "unpack", Found(t), t.at, Found(t))
                            /\ tasks' = (tasks \ {t}) \cup {t2}
              \/ /\ t.uid # t.root /\ ~entry[t.root].active
                 /\ tasks' = tasks \ {t}
<1>1. t \in TaskType
  BY DEF TypeInv
<1>2. Found(t) \in SUBSET Uids
  BY <1>1, TaskFields, StoreConstants DEF Found
<1> DEFINE t2 == [t EXCEPT !.phase = "unpack", !.todo = Found(t), !.out = Found(t)]
<1>3. Turns(t, t2, "unpack", Found(t), t.at, Found(t))
  BY <1>1, <1>2, TaskFields
<1>4. /\ t.phase = "queued"
      /\ UNCHANGED <<db, content, locks, submitted, requests, analysing, admin, deleter>>
      /\ entry' = IF t.uid = t.root /\ ~entry[t.root].active
                  THEN [entry EXCEPT ![t.root] =
                          [active |-> TRUE, remaining |-> {t.uid}, done |-> {}]]
                  ELSE entry
      /\ IF t.uid = t.root \/ entry[t.root].active
         THEN tasks' = (tasks \ {t}) \cup {t2} ELSE tasks' = tasks \ {t}
  BY DEF Start, IsFirmware, Becomes, Found
<1> HIDE DEF t2
<1> QED BY <1>2, <1>3, <1>4

\* A file is locked, then stored.
LEMMA LockStep ==
    ASSUME TypeInv, NEW t \in tasks, NEW c \in t.todo, SetUnpackingLock(t, c)
    PROVE  /\ t.phase = "unpack" /\ c \in Uids
           /\ locks' = locks \cup {c}
           /\ UNCHANGED <<db, content, submitted, requests, entry, analysing, admin, deleter>>
           /\ \E t2 : /\ Turns(t, t2, "store", t.todo \ {c}, {c}, t.out)
                      /\ tasks' = (tasks \ {t}) \cup {t2}
<1>1. t \in TaskType
  BY DEF TypeInv
<1>2. c \in Uids
  BY <1>1, TaskFields
<1>3. \E t2 : /\ Turns(t, t2, "store", t.todo \ {c}, {c}, t.out)
              /\ tasks' = (tasks \ {t}) \cup {t2}
  BY <1>1, <1>2, TaskFields DEF SetUnpackingLock, Becomes
<1> QED BY <1>2, <1>3 DEF SetUnpackingLock

\* The file that was locked is stored.
LEMMA StoreStep ==
    ASSUME TypeInv, NEW t \in tasks, StoreFile(t)
    PROVE  /\ t.phase = "store" /\ t.at \subseteq Uids
           /\ content' = content \cup t.at
           /\ UNCHANGED <<db, locks, submitted, requests, entry, analysing, admin, deleter>>
           /\ \E t2 : /\ Turns(t, t2, "unpack", t.todo, {}, t.out)
                      /\ tasks' = (tasks \ {t}) \cup {t2}
<1>1. t \in TaskType
  BY DEF TypeInv
<1>2. \E t2 : /\ Turns(t, t2, "unpack", t.todo, {}, t.out)
              /\ tasks' = (tasks \ {t}) \cup {t2}
  BY <1>1, TaskFields DEF StoreFile, Becomes
<1> QED BY <1>1, <1>2, TaskFields DEF StoreFile

\* the task goes on to the next session of add_object, ...
Advances(t) ==
    /\ \E t2 : \E p \in {"insert", "check", "change", "write"} :
          /\ p # t.phase
          /\ Turns(t, t2, p, t.todo, t.at, t.out)
          /\ tasks' = (tasks \ {t}) \cup {t2}
    /\ UNCHANGED <<db, analysing>>

\* ... or the row is stored and the file goes to the analysis, ...
Stores(t) ==
    /\ ~ParentMissing(db, t)
    /\ db' = Stored(db, t)
    /\ analysing' = analysing \cup {[root |-> t.root, uid |-> t.uid]}
    /\ \E t2 : /\ Turns(t, t2, "update", t.todo, t.at, t.out)
               /\ tasks' = (tasks \ {t}) \cup {t2}

\* ... or nothing is written
Fails(t) ==
    /\ NotWritten(t) /\ UNCHANGED db
    /\ analysing \subseteq analysing'
    /\ analysing' \subseteq analysing \cup {[root |-> t.root, uid |-> t.uid]}
    /\ \/ tasks' = tasks \ {t}
       \/ \E t2 : \E out \in {{}, t.out} :
             /\ Turns(t, t2, "update", t.todo, t.at, out)
             /\ tasks' = (tasks \ {t}) \cup {t2}

\* What a session of add_object does.
LEMMA AddStep ==
    ASSUME TypeInv, NEW t \in tasks, AddObject(t)
    PROVE  /\ t.phase \in {"unpack", "insert", "check", "change", "write"}
           /\ t.phase = "unpack" => t.todo = {}
           /\ UNCHANGED <<content, locks, submitted, requests, entry, admin, deleter>>
           /\ Advances(t) \/ Stores(t) \/ Fails(t)
<1>1. t \in TaskType
  BY DEF TypeInv
<1> DEFINE To(p) == [t EXCEPT !.phase = p]
<1>2. \A p \in {"insert", "check", "change", "write", "update"} :
         Turns(t, To(p), p, t.todo, t.at, t.out)
  BY <1>1, TaskFields
<1>3. Turns(t, [t EXCEPT !.phase = "update", !.out = {}], "update", t.todo, t.at, {})
  BY <1>1, TaskFields
<1>4. ASSUME Refuse(t), NotWritten(t) PROVE Fails(t)
  BY <1>3, <1>4 DEF Refuse, Becomes, Fails
<1>5. PostUnpack(t) => tasks' = (tasks \ {t}) \cup {To("update")}
                       /\ analysing' = analysing \cup {[root |-> t.root, uid |-> t.uid]}
  BY DEF PostUnpack, Becomes
<1> HIDE DEF To
<1>6. ASSUME PostUnpack(t), NotWritten(t), UNCHANGED db PROVE Fails(t)
  BY <1>2, <1>5, <1>6 DEF Fails
<1>7. ASSUME PostUnpack(t), ~ParentMissing(db, t), db' = Stored(db, t) PROVE Stores(t)
  BY <1>2, <1>5, <1>7 DEF Stores
<1>8. ASSUME NEW p \in {"insert", "check", "change", "write"}, p # t.phase, Becomes(t, To(p)),
             UNCHANGED <<db, analysing>>
      PROVE  Advances(t)
  BY <1>2, <1>8 DEF Advances, Becomes
<1>9. CASE Exists(t)
  <2>1. PICK p \in {"insert", "check", "write"} : Becomes(t, To(p))
    BY <1>9 DEF Exists, To
  <2> QED BY <1>8, <1>9, <2>1 DEF Exists
<1>10. CASE InsertObject(t)
  <2>1. CASE t.uid \in db.file_object \/ ParentMissing(db, t)
    <3>1. NotWritten(t) /\ Refuse(t)
      BY <1>10, <2>1 DEF InsertObject, NotWritten
    <3> QED BY <1>4, <1>10, <3>1 DEF InsertObject
  <2>2. CASE ~(t.uid \in db.file_object \/ ParentMissing(db, t))
    BY <1>7, <1>10, <2>2 DEF InsertObject
  <2> QED BY <2>1, <2>2
<1>11. CASE UpdateObject(t)
  <2>1. CASE t.uid \notin db.firmware
    <3>1. NotWritten(t) /\ Refuse(t)
      BY <1>11, <2>1 DEF UpdateObject, NotWritten
    <3> QED BY <1>4, <1>11, <3>1 DEF UpdateObject
  <2>2. CASE t.uid \in db.firmware
    BY <1>8, <1>11, <2>2 DEF UpdateObject, To
  <2> QED BY <2>1, <2>2
<1>12. CASE UpdateFirmware(t)
  <2>1. CASE t.uid \notin db.firmware
    BY <1>12, <2>1 DEF UpdateFirmware, NotWritten, Fails
  <2>2. CASE t.uid \in db.firmware
    BY <1>8, <1>12, <2>2 DEF UpdateFirmware, To
  <2> QED BY <2>1, <2>2
<1>13. CASE UpdateFileObject(t)
  <2>1. CASE t.uid \notin db.file_object
    <3>1. NotWritten(t) /\ PostUnpack(t) /\ UNCHANGED db
      BY <1>13, <2>1 DEF UpdateFileObject, NotWritten
    <3> QED BY <1>6, <1>13, <3>1 DEF UpdateFileObject
  <2>2. CASE t.uid \in db.file_object /\ ParentMissing(db, t)
    <3>1. NotWritten(t) /\ Refuse(t)
      BY <1>13, <2>2 DEF UpdateFileObject, NotWritten
    <3> QED BY <1>4, <1>13, <3>1 DEF UpdateFileObject
  <2>3. CASE t.uid \in db.file_object /\ ~ParentMissing(db, t)
    BY <1>7, <1>13, <2>3 DEF UpdateFileObject
  <2> QED BY <2>1, <2>2, <2>3
<1> QED BY <1>9, <1>10, <1>11, <1>12, <1>13 DEF AddObject

\* What was found and is new to the image becomes tasks; the last file ends the entry.
LEMMA UpdateStep ==
    ASSUME TypeInv, NEW t \in tasks, UpdateCurrentlyUnpacked(t)
    PROVE  /\ t.phase = "update" /\ New(t) \subseteq t.out /\ Left(t) \subseteq Uids
           /\ UNCHANGED <<db, content, locks, submitted, requests, analysing, admin, deleter>>
           /\ tasks' = (tasks \ {t}) \cup {Task(t.root, c, t.uid) : c \in New(t)}
           /\ \A c \in New(t) : Task(t.root, c, t.uid) \in TaskType
           /\ \/ ~entry[t.root].active /\ entry' = entry
              \/ /\ entry[t.root].active /\ Left(t) = {}
                 /\ entry' = [entry EXCEPT ![t.root] = NoEntry]
              \/ /\ entry[t.root].active /\ Left(t) # {}
                 /\ entry' = [entry EXCEPT ![t.root] =
                       [active |-> TRUE, remaining |-> Left(t),
                        done |-> entry[t.root].done \cup {t.uid}]]
<1>1. t \in TaskType
  BY DEF TypeInv
<1> DEFINE e == entry[t.root]
<1>2. e \in EntryType
  BY <1>1, TaskFields DEF TypeInv
<1>3. New(t) \subseteq t.out /\ Left(t) \subseteq Uids
  BY <1>1, <1>2, TaskFields DEF New, Left, EntryType
<1>4. \A c \in New(t) : Task(t.root, c, t.uid) \in TaskType
  BY <1>1, <1>3, TaskFields DEF Task, TaskType
<1>5. /\ t.phase = "update"
      /\ tasks' = (tasks \ {t}) \cup {Task(t.root, c, t.uid) : c \in New(t)}
      /\ entry' = IF ~e.active THEN entry
                  ELSE [entry EXCEPT ![t.root] =
                          IF Left(t) = {} THEN NoEntry
                          ELSE [active |-> TRUE, remaining |-> Left(t),
                                done |-> e.done \cup {t.uid}]]
      /\ UNCHANGED <<db, content, locks, submitted, requests, analysing, admin, deleter>>
  BY DEF UpdateCurrentlyUnpacked, New, Left
<1>6. CASE ~e.active
  BY <1>3, <1>4, <1>5, <1>6
<1>7. CASE e.active /\ Left(t) = {}
  BY <1>3, <1>4, <1>5, <1>7
<1>8. CASE e.active /\ Left(t) # {}
  BY <1>3, <1>4, <1>5, <1>8
<1> QED BY <1>6, <1>7, <1>8

(***************************************************************************)
(* Types                                                                   *)
(***************************************************************************)

\* An empty installation is well typed.
LEMMA InitType == Init => TypeInv
BY DEF Init, TypeInv, DbType, Tables, FileObjectTable, FirmwareTable, FwFilesTable,
       NoEntry, EntryType, NoAdmin, AdminType, NoDeleter, DeleterType

\* The steps of the unpacking keep the types.
LEMMA UnpackingType ==
    ASSUME TypeInv, Unpacking
    PROVE  TypeInv'
<1>1. ASSUME NEW t \in tasks, Start(t) PROVE TypeInv'
  <2>1. /\ UNCHANGED <<db, content, locks, submitted, requests, analysing, admin, deleter>>
        /\ entry' = IF t.uid = t.root /\ ~entry[t.root].active
                    THEN [entry EXCEPT ![t.root] =
                            [active |-> TRUE, remaining |-> {t.uid}, done |-> {}]]
                    ELSE entry
        /\ t.root \in Images /\ t.uid \in Uids
    BY <1>1, StartStep, TaskFields DEF TypeInv
  <2>2. tasks' \subseteq TaskType
    BY <1>1, StartStep DEF TypeInv, Turns
  <2>3. [active |-> TRUE, remaining |-> {t.uid}, done |-> {}] \in EntryType
    BY <2>1 DEF EntryType
  <2>4. entry' \in [Images -> EntryType]
    BY <2>1, <2>3 DEF TypeInv
  <2> QED BY <2>1, <2>2, <2>4 DEF TypeInv, DbType
<1>2. ASSUME NEW t \in tasks, NEW c \in t.todo, SetUnpackingLock(t, c) PROVE TypeInv'
  <2>1. tasks' \subseteq TaskType
    BY <1>2, LockStep DEF TypeInv, Turns
  <2>2. /\ locks' \subseteq Uids
        /\ UNCHANGED <<db, content, submitted, requests, entry, analysing, admin, deleter>>
    BY <1>2, LockStep DEF TypeInv
  <2> QED BY <2>1, <2>2 DEF TypeInv, DbType
<1>3. ASSUME NEW t \in tasks, StoreFile(t) PROVE TypeInv'
  <2>1. tasks' \subseteq TaskType
    BY <1>3, StoreStep DEF TypeInv, Turns
  <2>2. /\ content' \subseteq Uids
        /\ UNCHANGED <<db, locks, submitted, requests, entry, analysing, admin, deleter>>
    BY <1>3, StoreStep DEF TypeInv
  <2> QED BY <2>1, <2>2 DEF TypeInv, DbType
<1>4. ASSUME NEW t \in tasks, AddObject(t) PROVE TypeInv'
  <2>0. /\ t \in TaskType /\ t.root \in Images /\ t.uid \in Uids /\ db \in Tables
        /\ UNCHANGED <<content, locks, submitted, requests, entry, admin, deleter>>
        /\ Advances(t) \/ Stores(t) \/ Fails(t)
    BY <1>4, AddStep, TaskFields DEF TypeInv, DbType
  <2>1. tasks' \subseteq TaskType
    BY <2>0 DEF TypeInv, Turns, Advances, Stores, Fails
  <2>2. analysing' \subseteq [root : Images, uid : Uids]
    BY <2>0 DEF TypeInv, Advances, Stores, Fails
  <2>3. DbType'
    <3>1. CASE db' = db
      BY <3>1 DEF TypeInv, DbType
    <3>2. CASE Stores(t)
      <4>1. /\ db' \in Tables
            /\ db'.file_object = db.file_object \cup {t.uid}
            /\ db'.is_firmware = IF IsFirmware(t) THEN db.is_firmware \cup {t.uid}
                                 ELSE db.is_firmware \ {t.uid}
            /\ db'.firmware = IF IsFirmware(t) /\ t.uid \notin db.file_object
                              THEN db.firmware \cup {t.uid} ELSE db.firmware
            /\ db'.fw_files = IF IsFirmware(t) THEN db.fw_files
                              ELSE db.fw_files \cup {<<t.root, t.uid>>}
        BY <2>0, <3>2, StoredFields DEF Stores
      <4>2. ~IsFirmware(t) => t.root \in db.file_object
        BY <3>2 DEF Stores, ParentMissing
      <4> QED BY <4>1, <4>2 DEF TypeInv, DbType
    <3> QED BY <2>0, <3>1, <3>2 DEF Advances, Fails
  <2> QED BY <2>0, <2>1, <2>2, <2>3 DEF TypeInv
<1>5. ASSUME NEW t \in tasks, UpdateCurrentlyUnpacked(t) PROVE TypeInv'
  <2>1. tasks' \subseteq TaskType
    <3>1. /\ tasks' = (tasks \ {t}) \cup {Task(t.root, c, t.uid) : c \in New(t)}
          /\ \A c \in New(t) : Task(t.root, c, t.uid) \in TaskType
      BY <1>5, UpdateStep
    <3>2. tasks \subseteq TaskType
      BY DEF TypeInv
    <3> QED BY <3>1, <3>2
  <2>2. /\ UNCHANGED <<db, content, locks, submitted, requests, analysing, admin, deleter>>
        /\ t.root \in Images /\ t.uid \in Uids /\ Left(t) \subseteq Uids
    BY <1>5, UpdateStep, TaskFields DEF TypeInv
  <2>3. NoEntry \in EntryType
    BY DEF NoEntry, EntryType
  <2>4. [active |-> TRUE, remaining |-> Left(t), done |-> entry[t.root].done \cup {t.uid}] \in EntryType
    BY <2>2 DEF TypeInv, EntryType
  <2>5. entry' \in [Images -> EntryType]
    <3>1. entry \in [Images -> EntryType]
      BY DEF TypeInv
    <3>2. \/ entry' = entry \/ entry' = [entry EXCEPT ![t.root] = NoEntry]
          \/ entry' = [entry EXCEPT ![t.root] = [active |-> TRUE, remaining |-> Left(t),
                                               done |-> entry[t.root].done \cup {t.uid}]]
      BY <1>5, UpdateStep
    <3> QED BY <2>2, <2>3, <2>4, <3>1, <3>2
  <2> QED BY <2>1, <2>2, <2>5 DEF TypeInv, DbType
<1> QED BY <1>1, <1>2, <1>3, <1>4, <1>5 DEF Unpacking

\* delete_object leaves well-typed tables without dangling references.
LEMMA DeleteRowsDb ==
    ASSUME DbType, NEW r \in Images, db' = DeleteObject(db, r)
    PROVE  DbType'
<1>1. r \in Uids /\ db \in Tables
  BY StoreConstants DEF DbType
<1>0. PICK gone \in SUBSET Uids : Deleted(db, db', r, gone)
  BY <1>1, DeleteObjectIs
<1>2. /\ db'.file_object = db.file_object \ gone
      /\ db'.is_firmware = db.is_firmware \ gone
      /\ db'.firmware = db.firmware \ gone
      /\ \A x, v : <<x, v>> \in db'.fw_files
                      <=> <<x, v>> \in db.fw_files /\ x \notin gone /\ v \notin gone
      /\ db' \in Tables
  BY <1>0 DEF Deleted
<1>3. db'.fw_files \subseteq Uids \X Uids
  BY <1>2 DEF Tables, FwFilesTable
<1>4. db'.fw_files \subseteq db'.file_object \X db'.file_object
  <2> SUFFICES ASSUME NEW p \in db'.fw_files PROVE p \in db'.file_object \X db'.file_object
    OBVIOUS
  <2>1. PICK x, v \in Uids : p = <<x, v>>
    BY <1>3
  <2>2. <<x, v>> \in db.fw_files /\ x \notin gone /\ v \notin gone
    BY <1>2, <2>1
  <2>3. <<x, v>> \in db.file_object \X db.file_object
    BY <2>2 DEF DbType
  <2> QED BY <1>2, <2>1, <2>2, <2>3
<1> QED BY <1>2, <1>4 DEF DbType

\* Every step keeps the types.
LEMMA StepType ==
    ASSUME TypeInv, Step
    PROVE  TypeInv'
<1>1. ASSUME NEW r \in Images, Upload(r) PROVE TypeInv'
  BY <1>1 DEF Upload, TypeInv, DbType, unpackVars
<1>2. ASSUME NEW r \in Images, CancelUnpacking(r) PROVE TypeInv'
  <2>1. NoEntry \in EntryType
    BY DEF NoEntry, EntryType
  <2> QED BY <1>2, <2>1 DEF CancelUnpacking, TypeInv, DbType
<1>3. ASSUME NEW r \in Images, DeleteFirmware(r) \/ ReDoAnalysis(r) PROVE TypeInv'
  <2>1. AllFilesInFw(db, r) \subseteq Uids
    BY DEF AllFilesInFw
  <2>2. admin' \in AdminType
    BY <1>3, <2>1 DEF DeleteFirmware, ReDoAnalysis, FindFirmware, AdminType
  <2> QED BY <1>3, <2>2 DEF DeleteFirmware, ReDoAnalysis, TypeInv, DbType, unpackVars
<1>4. ASSUME NEW r \in Images, DeleteRows(r) PROVE TypeInv'
  <2>1. DbType'
    BY <1>4, DeleteRowsDb DEF DeleteRows, TypeInv
  <2>2. admin' \in AdminType
    BY <1>4 DEF DeleteRows, TypeInv, AdminType
  <2> QED BY <1>4, <2>1, <2>2 DEF DeleteRows, TypeInv, unpackVars
<1>5. ASSUME NEW s \in submitted, Receive(s) PROVE TypeInv'
  <2>1. s.uid \in Images /\ s.uid \in Uids
    BY StoreConstants DEF TypeInv
  <2>2. Task(s.uid, s.uid, s.uid) \in TaskType
    BY <2>1 DEF Task, TaskType
  <2> QED BY <1>5, <2>1, <2>2 DEF Receive, TypeInv, DbType
<1>6. ASSUME NEW a \in analysing, AnalysisTask(a) PROVE TypeInv'
  BY <1>6 DEF AnalysisTask, TypeInv, DbType
<1>7. CASE DeleteRequest
  <2>1. UidsToDelete \in SUBSET Uids
    BY StoreConstants DEF UidsToDelete, TypeInv, AdminType
  <2>2. requests' \in Seq(SUBSET Uids)
    BY <1>7, <2>1 DEF DeleteRequest, TypeInv
  <2>3. submitted' \subseteq [uid : Images, kind : {"analysis_task", "re_analyze_task"}]
    BY <1>7 DEF DeleteRequest, TypeInv, AdminType
  <2>4. admin' \in AdminType
    BY <1>7 DEF DeleteRequest, AdminType, NoAdmin
  <2> QED BY <1>7, <2>2, <2>3, <2>4 DEF DeleteRequest, TypeInv, DbType, unpackVars
<1>8. CASE DeleterQuery
  <2>1. Head(requests) \in SUBSET Uids /\ Tail(requests) \in Seq(SUBSET Uids)
    BY <1>8 DEF DeleterQuery, TypeInv
  <2>2. deleter' \in DeleterType /\ deleter'.removing \cap deleter'.task = {}
    BY <1>8, <2>1 DEF DeleterQuery, DeleterType
  <2> QED BY <1>8, <2>1, <2>2 DEF DeleterQuery, TypeInv, DbType, unpackVars
<1>9. ASSUME NEW u \in deleter.task, DeleterCheck(u) PROVE TypeInv'
  <2>1. deleter' \in DeleterType /\ deleter'.removing \cap deleter'.task = {}
    BY <1>9 DEF DeleterCheck, TypeInv, DeleterType
  <2> QED BY <1>9, <2>1 DEF DeleterCheck, TypeInv, DbType, unpackVars
<1>10. CASE DeleterRemove
  <2>1. deleter' \in DeleterType /\ deleter'.removing = {}
    BY <1>10 DEF DeleterRemove, TypeInv, DeleterType
  <2> QED BY <1>10, <2>1 DEF DeleterRemove, TypeInv, DbType, unpackVars
<1>11. CASE Unpacking
  BY <1>11, UnpackingType
<1> QED BY <1>1, <1>2, <1>3, <1>4, <1>5, <1>6, <1>7, <1>8, <1>9, <1>10, <1>11 DEF Step, Deleter

(***************************************************************************)
(* What is done for an image is done to its files.                         *)
(***************************************************************************)

\* A task, an entry and a row of fw_files are about a file of their image.
LEMMA WithinFilesStep ==
    ASSUME TypeInv, WithinFiles, Step
    PROVE  WithinFiles'
<1> DEFINE TasksOK == \A t \in tasks : Shape(t)
           AnalysingOK == \A a \in analysing : a.uid \in Files[a.root]
           EntryOK == \A r \in Images : entry[r].remaining \cup entry[r].done \subseteq Files[r]
           RowsOK == /\ \A r, u \in Uids : <<r, u>> \in db.fw_files => r \in Images /\ u \in Files[r] \ {r}
                     /\ db.is_firmware \subseteq Images
<1>a. TasksOK /\ AnalysingOK /\ EntryOK /\ RowsOK
  BY DEF WithinFiles
<1>b. (TasksOK /\ AnalysingOK /\ EntryOK /\ RowsOK)' => WithinFiles'
  BY DEF WithinFiles
<1>c. \A r \in Images : r \in Files[r] /\ Files[r] \subseteq Uids
  BY FilesFacts
<1>d. \A t \in tasks : t \in TaskType /\ t.root \in Images /\ t.uid \in Uids
  BY TaskFields DEF TypeInv
<1>e. NoEntry.remaining = {} /\ NoEntry.done = {}
  BY DEF NoEntry
<1>f. \A r \in Images : entry[r] \in EntryType
  BY DEF TypeInv
<1>g. entry \in [Images -> EntryType]
  BY DEF TypeInv
<1>1. ASSUME NEW t \in tasks, Start(t) PROVE WithinFiles'
  <2>1. AnalysingOK' /\ RowsOK'
    BY <1>1, <1>a, StartStep
  <2>2. Found(t) \subseteq Files[t.root] \ {t.uid}
    <3>1. t.root \in Images /\ t.uid \in Files[t.root]
      BY <1>a, <1>d DEF Shape
    <3> QED BY <3>1, FilesFacts DEF Found
  <2>3. ASSUME NEW o \in tasks' PROVE Shape(o)
    <3>1. CASE o \in tasks
      BY <1>a, <3>1
    <3>2. CASE o \notin tasks
      <4>1. Turns(t, o, "unpack", Found(t), t.at, Found(t))
        BY <1>1, <3>2, StartStep
      <4>2. Shape(t) /\ t.phase = "queued"
        BY <1>1, <1>a, StartStep
      <4> QED BY <2>2, <4>1, <4>2 DEF Turns, Shape
    <3> QED BY <3>1, <3>2
  <2>4. TasksOK'
    BY <2>3 DEF Shape
  <2>5. EntryOK'
    <3>1. \/ entry' = entry
          \/ /\ t.uid = t.root
             /\ entry' = [entry EXCEPT ![t.root] =
                             [active |-> TRUE, remaining |-> {t.uid}, done |-> {}]]
      BY <1>1, StartStep
    <3> QED BY <1>a, <1>c, <1>d, <1>g, <3>1
  <2> QED BY <1>b, <2>1, <2>4, <2>5
<1>2. ASSUME NEW t \in tasks, NEW c \in t.todo, SetUnpackingLock(t, c) PROVE WithinFiles'
  <2>1. AnalysingOK' /\ RowsOK' /\ EntryOK'
    BY <1>2, <1>a, LockStep
  <2>2. ASSUME NEW o \in tasks' PROVE Shape(o)
    <3>1. CASE o \in tasks
      BY <1>a, <3>1
    <3>2. CASE o \notin tasks
      <4>1. Turns(t, o, "store", t.todo \ {c}, {c}, t.out)
        <5>1. \E t2 : Turns(t, t2, "store", t.todo \ {c}, {c}, t.out) /\ tasks' = (tasks \ {t}) \cup {t2}
          BY <1>2, LockStep
        <5> QED BY <5>1, <3>2
      <4>2. Shape(t) /\ t.phase = "unpack"
        BY <1>2, <1>a, LockStep
      <4> QED BY <4>1, <4>2 DEF Turns, Shape
    <3> QED BY <3>1, <3>2
  <2>3. TasksOK'
    BY <2>2 DEF Shape
  <2> QED BY <1>b, <2>1, <2>3
<1>3. ASSUME NEW t \in tasks, StoreFile(t) PROVE WithinFiles'
  <2>1. AnalysingOK' /\ RowsOK' /\ EntryOK'
    BY <1>3, <1>a, StoreStep
  <2>2. ASSUME NEW o \in tasks' PROVE Shape(o)
    <3>1. CASE o \in tasks
      BY <1>a, <3>1
    <3>2. CASE o \notin tasks
      <4>1. Turns(t, o, "unpack", t.todo, {}, t.out)
        BY <1>3, <3>2, StoreStep
      <4>2. Shape(t) /\ t.phase = "store"
        BY <1>3, <1>a, StoreStep
      <4> QED BY <4>1, <4>2 DEF Turns, Shape
    <3> QED BY <3>1, <3>2
  <2>3. TasksOK'
    BY <2>2 DEF Shape
  <2> QED BY <1>b, <2>1, <2>3
<1>4. ASSUME NEW t \in tasks, AddObject(t) PROVE WithinFiles'
  <2>0. /\ Shape(t) /\ t.todo = {} /\ t.at = {} /\ t.uid \in Files[t.root] /\ t.root \in Images
        /\ entry' = entry /\ (Advances(t) \/ Stores(t) \/ Fails(t)) /\ t.phase # "queued"
    BY <1>4, <1>a, <1>d, AddStep DEF Shape
  <2>1. EntryOK'
    BY <1>a, <2>0
  <2>2. ASSUME NEW o \in tasks' PROVE Shape(o)
    <3>1. CASE o \in tasks
      BY <1>a, <3>1
    <3>2. CASE o \notin tasks
      <4>1. PICK p \in {"insert", "check", "change", "write", "update"}, out \in {{}, t.out} :
               Turns(t, o, p, t.todo, t.at, out)
        BY <2>0, <3>2 DEF Advances, Stores, Fails
      <4> QED BY <2>0, <4>1 DEF Turns, Shape
    <3> QED BY <3>1, <3>2
  <2>3. TasksOK'
    BY <2>2 DEF Shape
  <2>4. AnalysingOK'
    BY <1>a, <2>0 DEF Advances, Stores, Fails
  <2>5. RowsOK'
    <3>1. CASE db' = db
      BY <1>a, <3>1
    <3>2. CASE db' = Stored(db, t)
      <4>1. db \in Tables /\ t \in TaskType
        BY <1>d DEF TypeInv, DbType
      <4>2. /\ db'.is_firmware = IF IsFirmware(t) THEN db.is_firmware \cup {t.uid}
                                 ELSE db.is_firmware \ {t.uid}
            /\ db'.fw_files = IF IsFirmware(t) THEN db.fw_files
                              ELSE db.fw_files \cup {<<t.root, t.uid>>}
        BY <3>2, <4>1, StoredFields
      <4> QED BY <1>a, <2>0, <4>2 DEF IsFirmware
    <3> QED BY <2>0, <3>1, <3>2 DEF Advances, Stores, Fails
  <2> QED BY <1>b, <2>1, <2>3, <2>4, <2>5
<1>5. ASSUME NEW t \in tasks, UpdateCurrentlyUnpacked(t) PROVE WithinFiles'
  <2>0. Shape(t) /\ t.root \in Images /\ New(t) \subseteq Files[t.root] /\ t.uid \in Files[t.root]
    BY <1>5, <1>a, <1>d, UpdateStep DEF Shape
  <2>1. AnalysingOK' /\ RowsOK'
    BY <1>5, <1>a, UpdateStep
  <2>2. ASSUME NEW o \in tasks' PROVE Shape(o)
    <3>1. CASE o \in tasks
      BY <1>a, <3>1
    <3>2. CASE o \notin tasks
      <4>1. PICK c \in New(t) : o = Task(t.root, c, t.uid)
        <5>1. tasks' = (tasks \ {t}) \cup {Task(t.root, c, t.uid) : c \in New(t)}
          BY <1>5, UpdateStep
        <5> QED BY <5>1, <3>2
      <4> QED BY <2>0, <4>1 DEF Task, Shape
    <3> QED BY <3>1, <3>2
  <2>3. TasksOK'
    BY <2>2 DEF Shape
  <2>4. Left(t) \subseteq Files[t.root] /\ entry[t.root].done \cup {t.uid} \subseteq Files[t.root]
    BY <2>0, <1>a DEF Left
  <2>5. EntryOK'
    <3>1. \/ entry' = entry \/ entry' = [entry EXCEPT ![t.root] = NoEntry]
          \/ entry' = [entry EXCEPT ![t.root] = [active |-> TRUE, remaining |-> Left(t),
                                                 done |-> entry[t.root].done \cup {t.uid}]]
      BY <1>5, UpdateStep
    <3> QED BY <1>a, <1>e, <1>g, <2>0, <2>4, <3>1
  <2> QED BY <1>b, <2>1, <2>3, <2>5
<1>6. ASSUME NEW r \in Images, CancelUnpacking(r) PROVE WithinFiles'
  <2>1. UNCHANGED <<db, tasks, analysing>> /\ entry' = [entry EXCEPT ![r] = NoEntry]
    BY <1>6 DEF CancelUnpacking
  <2>2. EntryOK'
    BY <1>a, <1>e, <1>g, <2>1
  <2>3. TasksOK' /\ AnalysingOK' /\ RowsOK'
    BY <1>a, <2>1 DEF Shape
  <2> QED BY <1>b, <2>2, <2>3
<1>7. ASSUME NEW r \in Images, DeleteRows(r) PROVE WithinFiles'
  <2>1. UNCHANGED <<entry, tasks, analysing>> /\ db' = DeleteObject(db, r)
    BY <1>7 DEF DeleteRows, unpackVars
  <2>2. r \in Uids /\ db \in Tables
    BY StoreConstants DEF TypeInv, DbType
  <2>3. RowsOK'
    BY <1>a, <2>1, <2>2, DeleteObjectIs DEF Deleted
  <2>4. TasksOK' /\ AnalysingOK' /\ EntryOK'
    BY <1>a, <2>1 DEF Shape
  <2> QED BY <1>b, <2>3, <2>4
<1>8. ASSUME NEW s \in submitted, Receive(s) PROVE WithinFiles'
  <2>1. UNCHANGED <<db, entry, analysing>> /\ tasks' = tasks \cup {Task(s.uid, s.uid, s.uid)}
    BY <1>8 DEF Receive
  <2>2. s.uid \in Images
    BY DEF TypeInv
  <2>3. Shape(Task(s.uid, s.uid, s.uid))
    BY <1>c, <2>2 DEF Task, Shape
  <2>4. TasksOK' /\ AnalysingOK' /\ EntryOK' /\ RowsOK'
    BY <1>a, <2>1, <2>3 DEF Shape
  <2> QED BY <1>b, <2>4
<1>9. ASSUME NEW a \in analysing, AnalysisTask(a) PROVE WithinFiles'
  <2>1. UNCHANGED <<db, entry, tasks>> /\ analysing' \subseteq analysing
    BY <1>9 DEF AnalysisTask
  <2> QED BY <1>a, <1>b, <2>1 DEF Shape
<1>10. CASE UNCHANGED <<db, unpackVars>>
  BY <1>a, <1>b, <1>10 DEF unpackVars, Shape
<1>11. \/ UNCHANGED <<db, unpackVars>>
       \/ \E r \in Images : CancelUnpacking(r) \/ DeleteRows(r)
       \/ \E s \in submitted : Receive(s)
       \/ \E a \in analysing : AnalysisTask(a)
       \/ Unpacking
  BY DEF Step, Deleter, Upload, DeleteFirmware, ReDoAnalysis, DeleteRequest,
         DeleterQuery, DeleterCheck, DeleterRemove
<1> QED BY <1>1, <1>2, <1>3, <1>4, <1>5, <1>6, <1>7, <1>8, <1>9, <1>10, <1>11 DEF Unpacking

(***************************************************************************)
(* The histories                                                           *)
(***************************************************************************)

\* The histories only grow.
LEMMA HistStep ==
    ASSUME Next
    PROVE  /\ hist'.raced = hist.raced \cup Raced'
           /\ hist'.mixed = hist.mixed \cup Mixed'
           /\ hist'.interrupted = hist.interrupted \cup Interrupted
           /\ hist'.refound = hist.refound \cup Refound
           /\ hist'.overlapped = hist.overlapped \cup Overlapped
           /\ OfMixed \subseteq OfMixed'
<1>1. /\ hist'.raced = hist.raced \cup Raced'
      /\ hist'.mixed = hist.mixed \cup Mixed'
      /\ hist'.interrupted = hist.interrupted \cup Interrupted
      /\ hist'.refound = hist.refound \cup Refound
      /\ hist'.overlapped = hist.overlapped \cup Overlapped
  BY DEF Next
<1> QED BY <1>1 DEF OfMixed

\* An image is interrupted when it is cancelled, ...
LEMMA CancelInterrupts ==
    ASSUME Next, NEW r \in Images, CancelUnpacking(r), TypeInv
    PROVE  Files[r] \subseteq hist'.interrupted
<1>1. entry[r].active /\ ~entry'[r].active /\ tasks' = tasks
  BY DEF CancelUnpacking, NoEntry, TypeInv
<1>2. Files[r] \subseteq Interrupted
  BY <1>1 DEF Interrupted
<1> QED BY <1>2, HistStep

\* ... when add_object does not write one of its files, ...
LEMMA FailureInterrupts ==
    ASSUME Next, NEW t \in tasks, t \in TaskType, AddObject(t), Fails(t), TypeInv
    PROVE  Files[t.root] \subseteq hist'.interrupted
<1>1. t.phase # "update"
  BY AddStep
<1>2. t \notin tasks'
  BY <1>1 DEF Fails, Turns
<1>3. Files[t.root] \subseteq Interrupted
  BY <1>2 DEF Interrupted, Fails
<1> QED BY <1>3, HistStep

\* ... and when it is deleted while it is on its way.
LEMMA DeletionInterrupts ==
    ASSUME Next, NEW r \in Pending', admin'.phase = "rows", r \in admin'.uid
    PROVE  Files[r] \subseteq hist'.interrupted
<1>1. Files[r] \subseteq Interrupted
  BY DEF Interrupted
<1> QED BY <1>1, HistStep

(***************************************************************************)
(* The entries                                                             *)
(***************************************************************************)

EntryOf(r) ==
    entry[r].active =>
        /\ r \in entry[r].remaining \cup entry[r].done
        /\ entry[r].remaining # {}
        /\ \A u \in entry[r].remaining :
              Files[r] \subseteq hist.interrupted \/ \E t \in tasks : t.root = r /\ t.uid = u

\* A task that turns to its next phase is still there for its file.
LEMMA EntryTurns ==
    ASSUME EntryInv, NEW t \in tasks, NEW t2, entry' = entry,
           hist.interrupted \subseteq hist'.interrupted, tasks' = (tasks \ {t}) \cup {t2}, t2.root = t.root, t2.uid = t.uid
    PROVE  EntryInv'
BY DEF EntryInv

\* Every file that an entry lists as remaining has a task, unless a thread has died.
LEMMA EntryInvStep ==
    ASSUME TypeInv, EntryInv, Next
    PROVE  EntryInv'
<1>0. Step /\ hist.interrupted \subseteq hist'.interrupted
  BY HistStep DEF Next
<1>a. EntryInv <=> \A r \in Images : EntryOf(r)
  BY DEF EntryInv, EntryOf
<1>b. EntryInv' <=> \A r \in Images : EntryOf(r)'
  BY DEF EntryInv, EntryOf
<1>c. entry \in [Images -> EntryType] /\ ~NoEntry.active
  BY DEF TypeInv, NoEntry
<1>d. \A t \in tasks : t \in TaskType /\ t.root \in Images /\ t.uid \in Uids
  BY TaskFields DEF TypeInv
<1>1. ASSUME NEW t \in tasks, Start(t) PROVE EntryInv'
  <2>1. CASE tasks' = tasks \ {t} /\ t.uid # t.root /\ ~entry[t.root].active
    <3>1. entry' = entry
      BY <1>1, <2>1, StartStep
    <3>2. ASSUME NEW r \in Images, entry[r].active, NEW o \in tasks, o.root = r PROVE o \in tasks'
      BY <2>1, <3>2
    <3> QED BY <1>0, <3>1, <3>2 DEF EntryInv
  <2>2. ASSUME NEW t2, tasks' = (tasks \ {t}) \cup {t2}, t2.root = t.root, t2.uid = t.uid
        PROVE  EntryInv'
    <3>1. CASE entry' = entry
      BY <1>0, <2>2, <3>1, EntryTurns
    <3>2. CASE /\ t.uid = t.root
               /\ entry' = [entry EXCEPT ![t.root] =
                               [active |-> TRUE, remaining |-> {t.uid}, done |-> {}]]
      <4> SUFFICES ASSUME NEW r \in Images PROVE EntryOf(r)'
        BY <1>b
      <4>1. CASE r = t.root
        <5>1. entry'[r].remaining = {t.uid} /\ t2 \in tasks'
          BY <1>c, <1>d, <2>2, <3>2, <4>1
        <5> QED BY <2>2, <3>2, <4>1, <5>1 DEF EntryOf
      <4>2. CASE r # t.root
        <5>1. entry'[r] = entry[r]
          BY <1>c, <3>2, <4>2
        <5> QED BY <1>0, <1>a, <2>2, <4>2, <5>1 DEF EntryOf
      <4> QED BY <4>1, <4>2
    <3> QED BY <1>1, <3>1, <3>2, StartStep
  <2> QED BY <1>1, <2>1, <2>2, StartStep DEF Turns
<1>2. ASSUME NEW t \in tasks, NEW c \in t.todo, SetUnpackingLock(t, c) PROVE EntryInv'
  <2>1. entry' = entry
    BY <1>2, LockStep
  <2>2. \E t2 : tasks' = (tasks \ {t}) \cup {t2} /\ t2.root = t.root /\ t2.uid = t.uid
    BY <1>2, LockStep DEF Turns
  <2> QED BY <1>0, <2>1, <2>2, EntryTurns
<1>3. ASSUME NEW t \in tasks, StoreFile(t) PROVE EntryInv'
  <2>1. entry' = entry
    BY <1>3, StoreStep
  <2>2. \E t2 : tasks' = (tasks \ {t}) \cup {t2} /\ t2.root = t.root /\ t2.uid = t.uid
    BY <1>3, StoreStep DEF Turns
  <2> QED BY <1>0, <2>1, <2>2, EntryTurns
<1>4. ASSUME NEW t \in tasks, AddObject(t) PROVE EntryInv'
  <2>1. entry' = entry /\ (Advances(t) \/ Stores(t) \/ Fails(t))
    BY <1>4, AddStep
  <2>2. CASE \E t2 : tasks' = (tasks \ {t}) \cup {t2} /\ t2.root = t.root /\ t2.uid = t.uid
    BY <1>0, <2>1, <2>2, EntryTurns
  <2>3. CASE Fails(t) /\ tasks' = tasks \ {t}
    <3>1. Files[t.root] \subseteq hist'.interrupted
      BY <1>4, <1>d, <2>3, FailureInterrupts
    <3>2. \A o \in tasks : o.root # t.root => o \in tasks'
      BY <2>3
    <3> QED BY <1>0, <2>1, <3>1, <3>2 DEF EntryInv
  <2> QED BY <2>1, <2>2, <2>3 DEF Advances, Stores, Fails, Turns
<1>5. ASSUME NEW t \in tasks, UpdateCurrentlyUnpacked(t) PROVE EntryInv'
  <2> SUFFICES ASSUME NEW r \in Images PROVE EntryOf(r)'
    BY <1>b
  <2>0. /\ tasks' = (tasks \ {t}) \cup {Task(t.root, c, t.uid) : c \in New(t)}
        /\ \/ ~entry[t.root].active /\ entry' = entry
           \/ entry[t.root].active /\ Left(t) = {} /\ entry' = [entry EXCEPT ![t.root] = NoEntry]
           \/ /\ entry[t.root].active /\ Left(t) # {}
              /\ entry' = [entry EXCEPT ![t.root] =
                    [active |-> TRUE, remaining |-> Left(t),
                     done |-> entry[t.root].done \cup {t.uid}]]
    BY <1>5, UpdateStep
  <2>1. CASE r # t.root
    <3>1. entry'[r] = entry[r]
      BY <1>c, <2>0, <2>1
    <3>2. \A o \in tasks : o.root = r => o \in tasks'
      BY <2>0, <2>1
    <3> QED BY <1>0, <1>a, <3>1, <3>2 DEF EntryOf
  <2>2. CASE r = t.root
    <3>1. CASE ~entry[r].active /\ entry' = entry
      BY <3>1 DEF EntryOf
    <3>2. CASE entry' = [entry EXCEPT ![r] = NoEntry]
      BY <1>c, <3>2 DEF EntryOf
    <3>3. CASE /\ entry[r].active /\ Left(t) # {}
               /\ entry' = [entry EXCEPT ![r] =
                    [active |-> TRUE, remaining |-> Left(t), done |-> entry[r].done \cup {t.uid}]]
      <4>1. entry'[r].remaining = Left(t) /\ entry'[r].done = entry[r].done \cup {t.uid}
        BY <1>c, <3>3
      <4>2. r \in Left(t) \cup entry[r].done \cup {t.uid}
        BY <1>a, <2>2, <3>3 DEF EntryOf, Left
      <4>3. ASSUME NEW u \in Left(t)
            PROVE  Files[r] \subseteq hist'.interrupted \/ \E o \in tasks' : o.root = r /\ o.uid = u
        <5>1. CASE u \in New(t)
          <6>1. Task(t.root, u, t.uid) \in tasks'
            BY <2>0, <5>1
          <6> QED BY <2>2, <6>1 DEF Task
        <5>2. CASE u \notin New(t)
          <6>1. u \in entry[r].remaining /\ u # t.uid
            BY <2>2, <5>2 DEF Left
          <6>2. Files[r] \subseteq hist.interrupted \/ \E o \in tasks : o.root = r /\ o.uid = u
            BY <1>a, <3>3, <6>1 DEF EntryOf
          <6> QED BY <1>0, <2>0, <6>1, <6>2
        <5> QED BY <5>1, <5>2
      <4> QED BY <3>3, <4>1, <4>2, <4>3 DEF EntryOf
    <3> QED BY <2>0, <2>2, <3>1, <3>2, <3>3
  <2> QED BY <2>1, <2>2
<1>6. ASSUME NEW r \in Images, CancelUnpacking(r) PROVE EntryInv'
  <2>1. tasks' = tasks /\ entry' = [entry EXCEPT ![r] = NoEntry]
    BY <1>6 DEF CancelUnpacking
  <2> QED BY <1>0, <1>c, <2>1 DEF EntryInv
<1>7. ASSUME entry' = entry, tasks \subseteq tasks' PROVE EntryInv'
  BY <1>0, <1>7 DEF EntryInv
<1>8. \/ entry' = entry /\ tasks \subseteq tasks'
      \/ \E r \in Images : CancelUnpacking(r)
      \/ Unpacking
  BY <1>0 DEF Step, Deleter, Upload, DeleteFirmware, ReDoAnalysis, DeleteRequest, DeleteRows, Receive,
         AnalysisTask, DeleterQuery, DeleterCheck, DeleterRemove, unpackVars
<1> QED BY <1>1, <1>2, <1>3, <1>4, <1>5, <1>6, <1>7, <1>8 DEF Unpacking

(***************************************************************************)
(* The tables                                                              *)
(***************************************************************************)

\* Only add_object and delete_object change the tables.
LEMMA DbSteps ==
    ASSUME TypeInv, Step
    PROVE  \/ db' = db
           \/ \E t \in tasks : AddObject(t) /\ Stores(t) /\ db' = Stored(db, t)
           \/ \E r \in Images : DeleteRows(r)
<1>1. ASSUME NEW t \in tasks, AddObject(t), db' # db
      PROVE  Stores(t) /\ db' = Stored(db, t)
  BY <1>1, AddStep DEF Advances, Stores, Fails
<1> QED BY <1>1 DEF Step, Unpacking, Deleter, Upload, CancelUnpacking, DeleteFirmware, ReDoAnalysis,
         DeleteRequest, Receive, AnalysisTask, DeleterQuery, DeleterCheck, DeleterRemove,
         Start, SetUnpackingLock, StoreFile, UpdateCurrentlyUnpacked

\* An image without the flag of a firmware was found in another one.
LEMMA MixedStep ==
    ASSUME TypeInv, WithinFiles, MixedAreKnown, Next
    PROVE  MixedAreKnown'
<1>1. Mixed' \subseteq hist'.mixed /\ hist.mixed \subseteq hist'.mixed
  BY HistStep
<1>2. /\ ((db.file_object \cap Images) \ db.is_firmware)' \subseteq hist'.mixed
      /\ (db.is_firmware \ db.firmware)' \subseteq hist'.mixed
  <2>0. Step
    BY DEF Next
  <2>1. CASE db' = db
    BY <1>1, <2>1 DEF MixedAreKnown
  <2>2. ASSUME NEW t \in tasks, db' = Stored(db, t)
        PROVE  /\ ((db.file_object \cap Images) \ db.is_firmware)' \subseteq hist'.mixed
               /\ (db.is_firmware \ db.firmware)' \subseteq hist'.mixed
    <3>1. db \in Tables /\ t \in TaskType /\ t.root \in Uids /\ t.root \in Images
      BY TaskFields, StoreConstants DEF TypeInv, DbType
    <3>2. /\ db'.file_object = db.file_object \cup {t.uid}
          /\ db'.is_firmware = IF IsFirmware(t) THEN db.is_firmware \cup {t.uid}
                               ELSE db.is_firmware \ {t.uid}
          /\ db'.firmware = IF IsFirmware(t) /\ t.uid \notin db.file_object
                            THEN db.firmware \cup {t.uid} ELSE db.firmware
          /\ db'.fw_files = IF IsFirmware(t) THEN db.fw_files
                            ELSE db.fw_files \cup {<<t.root, t.uid>>}
      BY <2>2, <3>1, StoredFields
    <3>3. ~IsFirmware(t) /\ t.uid \in Images => t.uid \in Mixed'
      BY <3>1, <3>2 DEF Mixed, RootFirmware
    <3>4. ((db.file_object \cap Images) \ db.is_firmware)' \subseteq hist'.mixed
      BY <1>1, <3>2, <3>3 DEF MixedAreKnown
    <3>5. IsFirmware(t) => t.uid \in Images
      BY <3>1 DEF IsFirmware
    <3>6. (db.is_firmware \ db.firmware)' \subseteq hist'.mixed
      BY <1>1, <3>2, <3>5 DEF MixedAreKnown
    <3> QED BY <3>4, <3>6
  <2>3. ASSUME NEW r \in Images, DeleteRows(r)
        PROVE  /\ ((db.file_object \cap Images) \ db.is_firmware)' \subseteq hist'.mixed
               /\ (db.is_firmware \ db.firmware)' \subseteq hist'.mixed
    <3>1. db \in Tables /\ r \in Uids /\ db' = DeleteObject(db, r)
      BY <2>3, StoreConstants DEF TypeInv, DbType, DeleteRows
    <3>2. PICK gone \in SUBSET Uids : Deleted(db, db', r, gone)
      BY <3>1, DeleteObjectIs
    <3> QED BY <1>1, <3>2 DEF MixedAreKnown, Deleted
  <2> QED BY <2>0, <2>1, <2>2, <2>3, DbSteps
<1>3. hist'.mixed \subseteq Images
  BY HistStep DEF MixedAreKnown, Mixed
<1> QED BY <1>1, <1>2, <1>3 DEF MixedAreKnown

\* u belongs to someone
Owned(u) == RootFirmware(db, u) \cap db.firmware # {} \/ u \in OfMixed

\* A firmware leaves no orphans when it is deleted, except those of an image that
\* was found in another one.
LEMMA OrphansStep ==
    ASSUME TypeInv, WithinFiles, MixedAreKnown, NoOrphans, Next
    PROVE  NoOrphans'
<1>a. NoOrphans <=> \A u \in db.file_object \ db.is_firmware : Owned(u)
  BY DEF NoOrphans, Owned
<1>b. NoOrphans' <=> \A u \in (db.file_object \ db.is_firmware)' : Owned(u)'
  BY DEF NoOrphans, Owned
<1>c. OfMixed \subseteq OfMixed' /\ Step
  BY HistStep DEF Next
<1>d. \A r \in Images : r \in db.file_object /\ r \notin db.is_firmware \cap db.firmware =>
                             Files[r] \subseteq OfMixed
  BY DEF MixedAreKnown, OfMixed
<1>e. /\ db.fw_files \subseteq db.file_object \X db.file_object
      /\ db \in Tables
  BY DEF TypeInv, DbType
<1>1. CASE db' = db
  BY <1>a, <1>b, <1>c, <1>1 DEF Owned, RootFirmware
<1>2. ASSUME NEW t \in tasks, ~ParentMissing(db, t), db' = Stored(db, t)
      PROVE  NoOrphans'
  <2>1. t \in TaskType /\ t.root \in Uids /\ t.root \in Images /\ t.uid \in Files[t.root]
    BY TaskFields, StoreConstants DEF TypeInv, WithinFiles, Shape
  <2>2. /\ db'.file_object = db.file_object \cup {t.uid}
        /\ db'.is_firmware = IF IsFirmware(t) THEN db.is_firmware \cup {t.uid}
                             ELSE db.is_firmware \ {t.uid}
        /\ db'.firmware = IF IsFirmware(t) /\ t.uid \notin db.file_object
                          THEN db.firmware \cup {t.uid} ELSE db.firmware
        /\ db'.fw_files = IF IsFirmware(t) THEN db.fw_files
                          ELSE db.fw_files \cup {<<t.root, t.uid>>}
    BY <1>2, <1>e, <2>1, StoredFields
  <2>3. ASSUME NEW u \in (db.file_object \ db.is_firmware)', u # t.uid PROVE Owned(u)'
    <3>1. Owned(u)
      BY <1>a, <2>2, <2>3
    <3> QED BY <1>c, <2>2, <3>1 DEF Owned, RootFirmware
  <2>4. ASSUME t.uid \in (db.file_object \ db.is_firmware)' PROVE Owned(t.uid)'
    <3>1. ~IsFirmware(t)
      BY <2>2, <2>4
    <3>2. t.root \in db.file_object
      BY <1>2, <3>1 DEF ParentMissing
    <3>3. CASE t.root \in db.firmware
      BY <2>1, <2>2, <3>1, <3>3 DEF Owned, RootFirmware
    <3>4. CASE t.root \notin db.firmware
      <4>1. t.uid \in OfMixed
        BY <1>d, <2>1, <3>2, <3>4
      <4> QED BY <1>c, <4>1 DEF Owned
    <3> QED BY <3>3, <3>4
  <2> QED BY <1>b, <2>3, <2>4
<1>3. ASSUME NEW x \in Images, DeleteRows(x)
      PROVE  NoOrphans'
  <2>1. x \in Uids /\ db' = DeleteObject(db, x)
    BY <1>3, StoreConstants DEF DeleteRows
  <2>a. PICK gone \in SUBSET Uids : Deleted(db, db', x, gone)
    BY <1>e, <2>1, DeleteObjectIs
  <2>2. /\ db'.file_object = db.file_object \ gone
        /\ db'.is_firmware = db.is_firmware \ gone
        /\ db'.firmware = db.firmware \ gone
        /\ \A r, v : <<r, v>> \in db'.fw_files
                        <=> <<r, v>> \in db.fw_files /\ r \notin gone /\ v \notin gone
        /\ \A v \in gone : v # x => v \in db.file_object /\ v \notin db.is_firmware
        /\ x \notin db.firmware => gone = {x}
        /\ x \in db.firmware =>
              \A v \in db.file_object \ db.is_firmware :
                 v \notin gone => \E r \in Uids : r # x /\ <<r, v>> \in db.fw_files
    BY <2>a DEF Deleted
  <2> SUFFICES ASSUME NEW u \in (db.file_object \ db.is_firmware)' PROVE Owned(u)'
    BY <1>b
  <2>3. u \in db.file_object \ db.is_firmware /\ u \notin gone /\ Owned(u)
    BY <1>a, <2>2
  <2>4. CASE u \in OfMixed
    BY <1>c, <2>4 DEF Owned
  <2>5. CASE u \notin OfMixed /\ x \notin db.firmware
    <3>1. PICK r \in Uids : <<r, u>> \in db.fw_files /\ r \in db.firmware
      BY <2>3, <2>5 DEF Owned, RootFirmware
    <3>2. r \notin gone
      BY <2>2, <2>5, <3>1
    <3> QED BY <2>2, <2>3, <3>1, <3>2 DEF Owned, RootFirmware
  <2>6. CASE u \notin OfMixed /\ x \in db.firmware
    <3>1. PICK r \in Uids : r # x /\ <<r, u>> \in db.fw_files
      BY <2>2, <2>3, <2>6
    <3>2. r \in Images /\ u \in Files[r] /\ r \in db.file_object
      BY <1>e, <2>3, <3>1 DEF WithinFiles, TypeInv, DbType, Tables, FileObjectTable
    <3>3. r \in db.is_firmware /\ r \in db.firmware
      BY <1>d, <2>6, <3>2
    <3> QED BY <1>e, <2>2, <2>3, <3>1, <3>3 DEF Owned, RootFirmware
  <2> QED BY <2>4, <2>5, <2>6
<1> QED BY <1>c, <1>1, <1>2, <1>3, DbSteps DEF Stores

\* The process that deletes an image knows all its files, unless the image is on
\* its way in again.
LEMMA AdminStep ==
    ASSUME TypeInv, WithinFiles, AdminInv, Next
    PROVE  AdminInv'
<1> DEFINE Idle == admin.phase = "idle" => admin = NoAdmin
           One == admin.phase # "idle" =>
                    \E r \in Images : admin.uid = {r} /\ (admin.root = {} \/ admin.root = {r})
           Knows(r) == \/ AllFilesInFw(db, r) \subseteq admin.included
                       \/ Files[r] \subseteq hist.interrupted
<1>a. Idle /\ One /\ (admin.phase = "rows" => \A r \in admin.uid : Knows(r))
  BY DEF AdminInv
<1>b. Step /\ hist.interrupted \subseteq hist'.interrupted
  BY HistStep DEF Next
<1>c. ASSUME Idle', One', admin'.phase = "rows" => \A r \in admin'.uid : Knows(r)'
      PROVE  AdminInv'
  BY <1>c, DeletionInterrupts DEF AdminInv
<1>1. CASE admin' = admin
  <2>1. Idle' /\ One'
    BY <1>1, <1>a
  <2>2. ASSUME admin'.phase = "rows", NEW r \in admin'.uid PROVE Knows(r)'
    <3>1. Knows(r) /\ r \in Images /\ admin.phase = "rows" /\ r \in admin.uid
      BY <1>1, <1>a, <2>2
    <3>2. CASE db' = db
      BY <1>1, <1>b, <3>1, <3>2 DEF AllFilesInFw
    <3>3. ASSUME NEW t \in tasks, db' = Stored(db, t) PROVE Knows(r)'
      <4>1. CASE t.root = r
        <5>1. r \in Pending
          BY <4>1 DEF Pending
        <5>2. Files[r] \subseteq hist.interrupted
          BY <3>1, <5>1 DEF AdminInv
        <5> QED BY <1>b, <5>2
      <4>2. CASE t.root # r
        <5>1. db \in Tables /\ t \in TaskType
          BY DEF TypeInv, DbType
        <5>2. db'.fw_files = IF IsFirmware(t) THEN db.fw_files
                             ELSE db.fw_files \cup {<<t.root, t.uid>>}
          BY <3>3, <5>1, StoredFields
        <5>3. AllFilesInFw(db', r) = AllFilesInFw(db, r)
          BY <4>2, <5>2 DEF AllFilesInFw
        <5> QED BY <1>1, <1>b, <3>1, <5>3
      <4> QED BY <4>1, <4>2
    <3>4. ASSUME NEW x \in Images, DeleteRows(x) PROVE FALSE
      <4>1. admin.phase = "rows" /\ admin'.phase = "request"
        BY <3>4 DEF DeleteRows, TypeInv, AdminType
      <4> QED BY <1>1, <4>1
    <3> QED BY <1>b, <3>2, <3>3, <3>4, DbSteps
  <2> QED BY <1>c, <2>1, <2>2
<1>2. ASSUME NEW r \in Images, DeleteFirmware(r) \/ ReDoAnalysis(r) PROVE AdminInv'
  <2>1. PICK root \in {{}, {r}} :
          /\ admin' = [phase |-> "rows", uid |-> {r}, root |-> root, included |-> AllFilesInFw(db, r)]
          /\ db' = db
    BY <1>2 DEF DeleteFirmware, ReDoAnalysis, FindFirmware
  <2>2. Idle' /\ One'
    BY <2>1
  <2>3. ASSUME NEW x \in admin'.uid PROVE Knows(x)'
    BY <2>1, <2>3 DEF AllFilesInFw
  <2> QED BY <1>c, <2>2, <2>3
<1>3. ASSUME NEW r \in Images, DeleteRows(r) PROVE AdminInv'
  <2>1. admin'.phase = "request" /\ admin'.uid = admin.uid /\ admin'.root = admin.root
        /\ admin.phase = "rows"
    BY <1>3 DEF DeleteRows, TypeInv, AdminType
  <2> QED BY <1>a, <1>c, <2>1
<1>4. CASE DeleteRequest
  <2>1. admin' = NoAdmin
    BY <1>4 DEF DeleteRequest
  <2> QED BY <1>c, <2>1 DEF NoAdmin
<1>5. \/ admin' = admin \/ DeleteRequest
      \/ \E r \in Images : DeleteFirmware(r) \/ ReDoAnalysis(r) \/ DeleteRows(r)
  BY <1>b DEF Step, Unpacking, Deleter, Upload, CancelUnpacking, Receive, AnalysisTask, DeleterQuery,
         DeleterCheck, DeleterRemove, Start, SetUnpackingLock, StoreFile, AddObject, Exists, InsertObject,
         UpdateObject, UpdateFirmware, UpdateFileObject,
         UpdateCurrentlyUnpacked
<1> QED BY <1>1, <1>2, <1>3, <1>4, <1>5

\* A row of an image that is on its way stays, unless there is a reason.
LEMMA RowKeptStep ==
    ASSUME TypeInv, WithinFiles, MixedAreKnown, AdminInv, Next,
           NEW r \in Images, NEW u \in Files[r], r \in Pending, RowKept(r, u)
    PROVE  RowKept(r, u)'
<1>a. /\ Step /\ hist.interrupted \subseteq hist'.interrupted
      /\ hist.mixed \cup Mixed' \subseteq hist'.mixed
  BY HistStep DEF Next
<1>b. r \in Uids /\ u \in Uids /\ db \in Tables
  BY FilesFacts, StoreConstants DEF TypeInv, DbType
<1>1. CASE ~Row(r, u)
  BY <1>a, <1>1 DEF RowKept
<1>2. CASE Row(r, u)
  <2>1. CASE db' = db
    BY <1>2, <2>1 DEF RowKept, Row
  <2>2. ASSUME NEW t \in tasks, db' = Stored(db, t) PROVE RowKept(r, u)'
    <3>1. t \in TaskType /\ t.root \in Uids
      BY TaskFields, StoreConstants DEF TypeInv
    <3>2. /\ db'.is_firmware = IF IsFirmware(t) THEN db.is_firmware \cup {t.uid}
                               ELSE db.is_firmware \ {t.uid}
          /\ db'.fw_files = IF IsFirmware(t) THEN db.fw_files
                            ELSE db.fw_files \cup {<<t.root, t.uid>>}
      BY <1>b, <2>2, <3>1, StoredFields
    <3>3. CASE u # r
      BY <1>2, <3>2, <3>3 DEF RowKept, Row
    <3>4. CASE u = r /\ r \in db'.is_firmware
      BY <3>4 DEF RowKept, Row
    <3>5. CASE u = r /\ r \notin db'.is_firmware
      <4>1. ~IsFirmware(t) /\ t.uid = r
        BY <1>2, <3>2, <3>5 DEF Row
      <4>2. r \in Mixed'
        BY <3>1, <3>2, <4>1 DEF Mixed, RootFirmware
      <4> QED BY <1>a, <4>2 DEF RowKept
    <3> QED BY <3>3, <3>4, <3>5
  <2>3. ASSUME NEW x \in Images, DeleteRows(x) PROVE RowKept(r, u)'
    <3>1. x \in Uids /\ db' = DeleteObject(db, x) /\ admin.phase = "rows" /\ x \in admin.uid
      BY <2>3, StoreConstants DEF DeleteRows
    <3>2. PICK gone \in SUBSET Uids : Deleted(db, db', x, gone)
      BY <1>b, <3>1, DeleteObjectIs
    <3>3. CASE r = x
      BY <1>a, <3>1, <3>3 DEF AdminInv, RowKept
    <3>4. CASE r # x /\ u = r
      <4>1. r \in db.is_firmware /\ r \notin gone
        BY <1>2, <3>2, <3>4 DEF Row, Deleted
      <4> QED BY <3>2, <3>4, <4>1 DEF Deleted, RowKept, Row
    <3>5. CASE r # x /\ u # r
      <4>1. <<r, u>> \in db.fw_files
        BY <1>2, <3>5 DEF Row
      <4>2. CASE r \in gone
        <5>1. r \in hist.mixed
          BY <3>2, <3>5, <4>2 DEF Deleted, MixedAreKnown
        <5> QED BY <1>a, <5>1 DEF RowKept
      <4>3. CASE u = x
        <5>1. u \in Mixed
          BY <1>b, <4>1, <4>3 DEF Mixed, RootFirmware
        <5> QED BY <1>a, <5>1 DEF RowKept, MixedAreKnown
      <4>4. CASE r \notin gone /\ u # x
        <5>1. u \notin gone
          BY <1>b, <3>2, <3>5, <4>1, <4>4 DEF Deleted
        <5>2. <<r, u>> \in db'.fw_files
          BY <3>2, <4>1, <4>4, <5>1 DEF Deleted
        <5> QED BY <3>5, <5>2 DEF RowKept, Row
      <4> QED BY <4>2, <4>3, <4>4
    <3> QED BY <3>3, <3>4, <3>5
  <2> QED BY <1>a, <2>1, <2>2, <2>3, DbSteps
<1> QED BY <1>1, <1>2

\* add_object leaves a row for the file, with its image.
LEMMA StoredRow ==
    ASSUME db \in Tables, NEW t \in TaskType, db' = Stored(db, t)
    PROVE  Row(t.root, t.uid)'
<1>1. CASE IsFirmware(t)
  <2>1. db'.is_firmware = db.is_firmware \cup {t.uid}
    BY <1>1, StoredFields
  <2> QED BY <1>1, <2>1 DEF Row, IsFirmware
<1>2. CASE ~IsFirmware(t)
  <2>1. db'.fw_files = db.fw_files \cup {<<t.root, t.uid>>}
    BY <1>2, StoredFields
  <2> QED BY <1>2, <2>1 DEF Row, IsFirmware
<1> QED BY <1>1, <1>2

\* Whatever is analysed, updated or done has its row, unless there is a reason.
LEMMA RowsKeptStep ==
    ASSUME TypeInv, WithinFiles, MixedAreKnown, EntryInv, AdminInv, RowsKept, Next
    PROVE  RowsKept'
<1>a. Step
  BY DEF Next
<1>b. ASSUME NEW r \in Images, NEW u \in Files[r], r \in Pending, RowKept(r, u)
      PROVE  RowKept(r, u)'
  BY <1>b, RowKeptStep
<1>c. \A a \in analysing : a.root \in Images /\ a.uid \in Files[a.root] /\ a.root \in Pending
  BY DEF TypeInv, WithinFiles, Pending
<1>d. \A t \in tasks : t \in TaskType /\ t.root \in Images /\ t.uid \in Files[t.root] /\ t.root \in Pending
  BY TaskFields DEF TypeInv, WithinFiles, Shape, Pending
<1>e. \A r \in Images : entry[r].active =>
         /\ r \in Pending \/ Files[r] \subseteq hist.interrupted
         /\ entry[r].done \subseteq Files[r]
  BY <1>d DEF EntryInv, WithinFiles
<1>g. ASSUME NEW r \in Images, entry[r].active, NEW u \in entry[r].done PROVE RowKept(r, u)'
  <2>1. CASE r \in Pending
    BY <1>b, <1>e, <1>g, <2>1 DEF RowsKept
  <2>2. CASE Files[r] \subseteq hist.interrupted
    BY <2>2, HistStep DEF RowKept
  <2> QED BY <1>e, <1>g, <2>1, <2>2
<1>f. entry \in [Images -> EntryType] /\ ~NoEntry.active
  BY DEF TypeInv, NoEntry
<1>1. ASSUME NEW a \in analysing' PROVE RowKept(a.root, a.uid)'
  <2>1. CASE a \in analysing
    BY <1>b, <1>c, <2>1 DEF RowsKept
  <2>2. CASE a \notin analysing
    <3>1. PICK t \in tasks : AddObject(t)
      BY <1>a, <2>2 DEF Step, Unpacking, Deleter, Upload, CancelUnpacking, DeleteFirmware, ReDoAnalysis,
           DeleteRows, DeleteRequest, Receive, AnalysisTask, DeleterQuery, DeleterCheck, DeleterRemove,
           Start, SetUnpackingLock, StoreFile, UpdateCurrentlyUnpacked, unpackVars
    <3>2. (Stores(t) \/ Fails(t)) /\ a = [root |-> t.root, uid |-> t.uid]
      BY <2>2, <3>1, AddStep DEF Advances, Stores, Fails
    <3>3. db \in Tables /\ t \in TaskType /\ a.root = t.root /\ a.uid = t.uid
      BY <1>d, <3>2 DEF TypeInv, DbType
    <3>4. Row(t.root, t.uid)' \/ Files[t.root] \subseteq hist'.interrupted
      BY <3>1, <3>2, <3>3, StoredRow, FailureInterrupts DEF Stores
    <3> QED BY <3>3, <3>4 DEF RowKept
  <2> QED BY <2>1, <2>2
<1>2. ASSUME NEW o \in tasks', o.phase = "update" PROVE RowKept(o.root, o.uid)'
  <2>1. CASE o \in tasks
    BY <1>2, <1>b, <1>d, <2>1 DEF RowsKept
  <2>2. CASE o \notin tasks
    <3>1. ASSUME NEW t \in tasks, AddObject(t) PROVE RowKept(o.root, o.uid)'
      <4>0. Advances(t) \/ Stores(t) \/ Fails(t)
        BY <3>1, AddStep
      <4>1. o.root = t.root /\ o.uid = t.uid /\ ~Advances(t)
        BY <1>2, <2>2, <4>0 DEF Turns, Advances, Stores, Fails
      <4>2. CASE Fails(t)
        <5>1. Files[t.root] \subseteq hist'.interrupted
          BY <1>d, <3>1, <4>2, FailureInterrupts
        <5> QED BY <4>1, <5>1 DEF RowKept
      <4>3. CASE Stores(t)
        <5>1. db \in Tables /\ t \in TaskType /\ db' = Stored(db, t)
          BY <1>d, <4>3 DEF TypeInv, DbType, Stores
        <5>2. Row(t.root, t.uid)'
          BY <5>1, StoredRow
        <5> QED BY <4>1, <5>2 DEF RowKept
      <4> QED BY <4>0, <4>1, <4>2, <4>3
    <3>2. ASSUME NEW t \in tasks, Start(t) PROVE FALSE
      BY <1>2, <2>2, <3>2, StartStep DEF Turns
    <3>3. ASSUME NEW t \in tasks, NEW c \in t.todo, SetUnpackingLock(t, c) PROVE FALSE
      <4>1. \E t2 : t2.phase = "store" /\ tasks' = (tasks \ {t}) \cup {t2}
        BY <3>3, LockStep DEF Turns
      <4> QED BY <1>2, <2>2, <4>1
    <3>4. ASSUME NEW t \in tasks, StoreFile(t) PROVE FALSE
      BY <1>2, <2>2, <3>4, StoreStep DEF Turns
    <3>5. ASSUME NEW t \in tasks, UpdateCurrentlyUnpacked(t) PROVE FALSE
      <4>1. tasks' = (tasks \ {t}) \cup {Task(t.root, c, t.uid) : c \in New(t)}
        BY <3>5, UpdateStep
      <4> QED BY <1>2, <2>2, <4>1 DEF Task
    <3>6. ASSUME NEW s \in submitted, Receive(s) PROVE FALSE
      BY <1>2, <2>2, <3>6 DEF Receive, Task
    <3>7. tasks' = tasks \/ Unpacking \/ \E s \in submitted : Receive(s)
      BY <1>a DEF Step, Deleter, Upload, CancelUnpacking, DeleteFirmware, ReDoAnalysis,
           DeleteRows, DeleteRequest, AnalysisTask, DeleterQuery, DeleterCheck, DeleterRemove, unpackVars
    <3> QED BY <2>2, <3>1, <3>2, <3>3, <3>4, <3>5, <3>6, <3>7 DEF Unpacking
  <2> QED BY <2>1, <2>2
<1>3. ASSUME NEW r \in Images, entry'[r].active, NEW u \in entry'[r].done PROVE RowKept(r, u)'
  <2>1. CASE entry'[r] = entry[r]
    BY <1>3, <1>g, <2>1
  <2>2. ASSUME NEW t \in tasks, Start(t) PROVE RowKept(r, u)'
    <3>1. \/ entry' = entry
          \/ entry' = [entry EXCEPT ![t.root] = [active |-> TRUE, remaining |-> {t.uid}, done |-> {}]]
      BY <2>2, StartStep
    <3>2. entry'[r] = entry[r] \/ entry'[r].done = {}
      BY <1>d, <1>f, <3>1
    <3> QED BY <1>3, <2>1, <3>2
  <2>3. ASSUME NEW t \in tasks, UpdateCurrentlyUnpacked(t) PROVE RowKept(r, u)'
    <3>1. t.phase = "update"
      BY <2>3, UpdateStep
    <3>2. RowKept(t.root, t.uid)'
      BY <1>b, <1>d, <3>1 DEF RowsKept
    <3>3. \/ entry' = entry
          \/ entry' = [entry EXCEPT ![t.root] = NoEntry]
          \/ /\ entry[t.root].active
             /\ entry' = [entry EXCEPT ![t.root] =
                   [active |-> TRUE, remaining |-> Left(t), done |-> entry[t.root].done \cup {t.uid}]]
      BY <2>3, UpdateStep
    <3>4. \/ entry'[r] = entry[r]
          \/ r = t.root /\ entry[r].active /\ entry'[r].done = entry[r].done \cup {t.uid}
      BY <1>3, <1>d, <1>f, <3>3
    <3>5. CASE r = t.root /\ entry[r].active /\ u \in entry[r].done
      BY <1>g, <3>5
    <3> QED BY <1>3, <2>1, <3>2, <3>4, <3>5
  <2>4. ASSUME NEW x \in Images, CancelUnpacking(x) PROVE RowKept(r, u)'
    <3>1. entry' = [entry EXCEPT ![x] = NoEntry]
      BY <2>4 DEF CancelUnpacking
    <3>2. entry'[r] = entry[r]
      BY <1>3, <1>f, <3>1
    <3> QED BY <2>1, <3>2
  <2>5. \/ entry' = entry
        \/ \E t \in tasks : Start(t) \/ UpdateCurrentlyUnpacked(t)
        \/ \E x \in Images : CancelUnpacking(x)
    BY <1>a DEF Step, Unpacking, Deleter, Upload, DeleteFirmware, ReDoAnalysis,
         DeleteRows, DeleteRequest, Receive, AnalysisTask, DeleterQuery, DeleterCheck, DeleterRemove,
         SetUnpackingLock, StoreFile, AddObject, Exists, InsertObject,
         UpdateObject, UpdateFirmware, UpdateFileObject, unpackVars
  <2> QED BY <2>1, <2>2, <2>3, <2>4, <2>5
<1> QED BY <1>1, <1>2, <1>3 DEF RowsKept

(***************************************************************************)
(* The file store                                                          *)
(***************************************************************************)

\* Elements of the list of requests.
LEMMA AskedFacts ==
    ASSUME requests \in Seq(SUBSET Uids)
    PROVE  /\ \A S \in SUBSET Uids : requests' = Append(requests, S) => Asked' = Asked \cup S
           /\ requests # <<>> /\ requests' = Tail(requests) =>
                 /\ Asked = Asked' \cup Head(requests)
                 /\ Head(requests) \in SUBSET Uids
<1>1. ASSUME NEW S \in SUBSET Uids, requests' = Append(requests, S) PROVE Asked' = Asked \cup S
  <2>1. /\ Len(requests') = Len(requests) + 1 /\ Len(requests) \in Nat
        /\ \A i \in 1..Len(requests) : requests'[i] = requests[i]
        /\ requests'[Len(requests) + 1] = S
    BY <1>1
  <2>2. \A u : u \in Asked' <=> \E i \in 1..Len(requests') : u \in requests'[i]
    BY DEF Asked
  <2>3. \A u : u \in Asked <=> \E i \in 1..Len(requests) : u \in requests[i]
    BY DEF Asked
  <2>4. ASSUME NEW u \in Asked' PROVE u \in Asked \cup S
    <3>1. PICK i \in 1..Len(requests') : u \in requests'[i]
      BY <2>2
    <3>2. i \in 1..Len(requests) \/ i = Len(requests) + 1
      BY <2>1, <3>1
    <3> QED BY <2>1, <2>3, <3>1, <3>2
  <2>5. ASSUME NEW u \in Asked \cup S PROVE u \in Asked'
    <3>1. CASE u \in S
      <4>1. Len(requests) + 1 \in 1..Len(requests')
        BY <2>1
      <4> QED BY <2>1, <2>2, <3>1, <4>1
    <3>2. CASE u \in Asked
      <4>1. PICK i \in 1..Len(requests) : u \in requests[i]
        BY <2>3, <3>2
      <4>2. i \in 1..Len(requests')
        BY <2>1
      <4> QED BY <2>1, <2>2, <4>1, <4>2
    <3> QED BY <2>5, <3>1, <3>2
  <2> QED BY <2>4, <2>5
<1>2. ASSUME requests # <<>>, requests' = Tail(requests)
      PROVE  Asked = Asked' \cup Head(requests) /\ Head(requests) \in SUBSET Uids
  <2>1. /\ Len(requests) \in Nat /\ Len(requests) > 0 /\ Len(requests') = Len(requests) - 1
        /\ \A i \in 1..Len(requests') : requests'[i] = requests[i + 1]
        /\ Head(requests) = requests[1]
        /\ Head(requests) \in SUBSET Uids
    BY <1>2
  <2>2. \A u : u \in Asked' <=> \E i \in 1..Len(requests') : u \in requests'[i]
    BY DEF Asked
  <2>3. \A u : u \in Asked <=> \E i \in 1..Len(requests) : u \in requests[i]
    BY DEF Asked
  <2>4. ASSUME NEW u \in Asked PROVE u \in Asked' \cup Head(requests)
    <3>1. PICK i \in 1..Len(requests) : u \in requests[i]
      BY <2>3
    <3>2. CASE i = 1
      BY <2>1, <3>1, <3>2
    <3>3. CASE i # 1
      <4>1. i - 1 \in 1..Len(requests') /\ (i - 1) + 1 = i
        BY <2>1, <3>3
      <4>2. requests'[i - 1] = requests[i]
        BY <2>1, <4>1
      <4> QED BY <2>2, <3>1, <4>1, <4>2
    <3> QED BY <3>2, <3>3
  <2>5. ASSUME NEW u \in Asked' \cup Head(requests) PROVE u \in Asked
    <3>1. CASE u \in Head(requests)
      <4>1. 1 \in 1..Len(requests)
        BY <2>1
      <4> QED BY <2>1, <2>3, <3>1, <4>1
    <3>2. CASE u \in Asked'
      <4>1. PICK i \in 1..Len(requests') : u \in requests'[i]
        BY <2>2, <3>2
      <4>2. i + 1 \in 1..Len(requests)
        BY <2>1
      <4> QED BY <2>1, <2>3, <4>1, <4>2
    <3> QED BY <2>5, <3>1, <3>2
  <2> QED BY <2>1, <2>4, <2>5
<1> QED BY <1>1, <1>2

\* What the listener does with its batch.
LEMMA DeleterSteps ==
    ASSUME TypeInv, Step
    PROVE  \/ /\ UNCHANGED deleter /\ content \subseteq content'
              /\ \/ UNCHANGED requests
                 \/ DeleteRequest
           \/ /\ DeleterQuery
              /\ Batch' = Head(requests) /\ Asked = Asked' \cup Batch' /\ Batch = {}
              /\ deleter'.removing = {} /\ deleter'.task = Head(requests)
              /\ deleter'.uids_in_db = Head(requests) \cap db.file_object
              /\ UNCHANGED <<db, content, locks, submitted, entry, tasks, analysing, admin>>
           \/ \E u \in deleter.task :
              /\ DeleterCheck(u)
              /\ deleter'.task = deleter.task \ {u} /\ deleter.removing = {}
              /\ deleter'.removing = IF u \notin locks /\ u \notin deleter.uids_in_db THEN {u} ELSE {}
              /\ deleter'.uids_in_db = IF deleter.task = {u} THEN {} ELSE deleter.uids_in_db
              /\ Batch' \subseteq Batch
              /\ UNCHANGED <<db, content, locks, submitted, requests, entry, tasks, analysing, admin>>
           \/ /\ DeleterRemove
              /\ content' = content \ deleter.removing
              /\ deleter'.removing = {} /\ deleter'.task = deleter.task
              /\ deleter'.uids_in_db = deleter.uids_in_db
              /\ Batch' \subseteq Batch
              /\ UNCHANGED <<db, locks, submitted, requests, entry, tasks, analysing, admin>>
<1>1. CASE DeleterQuery
  <2>1. /\ requests # <<>> /\ requests' = Tail(requests)
        /\ deleter = NoDeleter
        /\ deleter' = [task |-> Head(requests), uids_in_db |-> Head(requests) \cap db.file_object,
                       removing |-> {}]
        /\ UNCHANGED <<db, content, locks, submitted, entry, tasks, analysing, admin>>
    BY <1>1 DEF DeleterQuery, unpackVars
  <2>2. Asked = Asked' \cup Head(requests)
    BY <2>1, AskedFacts DEF TypeInv
  <2>3. Batch = {} /\ Batch' = Head(requests)
    BY <2>1 DEF Batch, NoDeleter
  <2> QED BY <1>1, <2>1, <2>2, <2>3
<1>2. ASSUME NEW u \in deleter.task, DeleterCheck(u)
      PROVE   /\ deleter'.task = deleter.task \ {u} /\ deleter.removing = {}
              /\ deleter'.removing = IF u \notin locks /\ u \notin deleter.uids_in_db THEN {u} ELSE {}
              /\ deleter'.uids_in_db = IF deleter.task = {u} THEN {} ELSE deleter.uids_in_db
              /\ Batch' \subseteq Batch
              /\ UNCHANGED <<db, content, locks, submitted, requests, entry, tasks, analysing, admin>>
  BY <1>2 DEF DeleterCheck, unpackVars, Batch
<1>3. CASE DeleterRemove
  BY <1>3 DEF DeleterRemove, unpackVars, Batch, TypeInv, DeleterType
<1>4. CASE ~Deleter
  BY <1>4 DEF Step, Unpacking, Upload, CancelUnpacking, DeleteFirmware, ReDoAnalysis,
       DeleteRows, Receive, AnalysisTask, Start, SetUnpackingLock, StoreFile, AddObject, Exists, InsertObject,
         UpdateObject, UpdateFirmware, UpdateFileObject,
       UpdateCurrentlyUnpacked, DeleteRequest
<1> QED BY <1>1, <1>2, <1>3, <1>4 DEF Deleter

\* A file that a pending image contains is pending.
LEMMA PendingFacts ==
    ASSUME TypeInv, WithinFiles
    PROVE  /\ \A t \in tasks : /\ t.root \in Pending /\ t.root \in PendingFor(t.uid)
                               /\ \A u \in t.out : t.root \in PendingFor(u)
           /\ \A s \in submitted : s.uid \in Pending /\ s.uid \in PendingFor(s.uid)
           /\ Pending \subseteq Images
<1>1. \A s \in submitted : s.uid \in Images
  BY DEF TypeInv
<1>2. \A t \in tasks : t.root \in Images
  BY TaskFields DEF TypeInv
<1>3. \A a \in analysing : a.root \in Images
  BY DEF TypeInv
<1>4. \A r \in Images : r \in Files[r]
  BY FilesFacts
<1> QED BY <1>1, <1>2, <1>3, <1>4 DEF Pending, PendingFor, WithinFiles, Shape

\* What is about to be removed and belongs to a firmware already was.
LEMMA ToRemoveStep ==
    ASSUME TypeInv, AdminInv, Step, NEW r \in db'.is_firmware, r \in ToRemove'
    PROVE  r \in ToRemove
<1> DEFINE Late == IF admin.phase = "request" THEN UidsToDelete ELSE {}
<1>a. ToRemove = Batch \cup Asked \cup Late /\ ToRemove' = Batch' \cup Asked' \cup Late'
  BY DEF ToRemove, Asked
<1>b. db'.is_firmware \subseteq db'.file_object
  <2>1. TypeInv'
    BY StepType
  <2> QED BY <2>1 DEF TypeInv, DbType
<1>1. CASE DeleteRequest
  <2>1. /\ admin.phase = "request" /\ requests' = Append(requests, UidsToDelete)
        /\ admin' = NoAdmin /\ UNCHANGED deleter
    BY <1>1 DEF DeleteRequest
  <2>2. UidsToDelete \in SUBSET Uids
    BY StoreConstants DEF UidsToDelete, TypeInv, AdminType
  <2>3. Asked' = Asked \cup Late
    BY <2>1, <2>2, AskedFacts DEF TypeInv
  <2>4. Batch' = Batch /\ Late' = {}
    BY <2>1 DEF Batch, NoAdmin
  <2> QED BY <1>a, <2>3, <2>4
<1>2. CASE UNCHANGED <<requests, deleter, admin>>
  <2>1. Batch' = Batch /\ Asked' = Asked
    BY <1>2 DEF Batch, Asked
  <2>2. r \in Late' => r \in Late
    BY <1>2, <1>b DEF UidsToDelete
  <2> QED BY <1>a, <2>1, <2>2
<1>3. ASSUME NEW x \in Images, DeleteRows(x) PROVE r \in ToRemove
  <2>1. /\ UNCHANGED <<requests, deleter>> /\ admin'.uid = admin.uid /\ admin'.root = admin.root
        /\ admin.uid = {x} /\ db' = DeleteObject(db, x) /\ admin.phase = "rows"
    BY <1>3 DEF DeleteRows, TypeInv, AdminType
  <2>2. Batch' = Batch /\ Asked' = Asked
    BY <2>1 DEF Batch, Asked
  <2>3. x \in Uids /\ db \in Tables
    BY StoreConstants DEF TypeInv, DbType
  <2>4. x \notin db'.is_firmware
    BY <2>1, <2>3, DeleteObjectIs DEF Deleted
  <2>5. admin.root \subseteq {x}
    BY <2>1 DEF AdminInv
  <2>6. r \notin Late'
    BY <1>b, <2>1, <2>4, <2>5 DEF UidsToDelete
  <2> QED BY <1>a, <2>2, <2>6
<1>4. ASSUME NEW x \in Images, DeleteFirmware(x) \/ ReDoAnalysis(x) PROVE r \in ToRemove
  <2>1. UNCHANGED <<requests, deleter>> /\ admin'.phase = "rows"
    BY <1>4 DEF DeleteFirmware, ReDoAnalysis, FindFirmware
  <2>2. Batch' = Batch /\ Asked' = Asked /\ Late' = {}
    BY <2>1 DEF Batch, Asked
  <2> QED BY <1>a, <2>2
<1>5. CASE UNCHANGED <<db, admin>> /\ Batch' \cup Asked' \subseteq Batch \cup Asked
  <2>1. Late' = Late
    BY <1>5 DEF UidsToDelete
  <2> QED BY <1>5, <1>a, <2>1
<1>6. \/ DeleteRequest \/ UNCHANGED <<requests, deleter, admin>>
      \/ \E x \in Images : DeleteRows(x) \/ DeleteFirmware(x) \/ ReDoAnalysis(x)
      \/ Deleter
  BY DEF Step, Unpacking, Upload, CancelUnpacking, Receive, AnalysisTask, Start,
       SetUnpackingLock, StoreFile, AddObject, Exists, InsertObject,
         UpdateObject, UpdateFirmware, UpdateFileObject, UpdateCurrentlyUnpacked
<1>7. CASE Deleter
  <2>1. CASE DeleterQuery
    <3>1. /\ requests # <<>> /\ requests' = Tail(requests) /\ UNCHANGED <<db, admin>>
          /\ Batch' = Head(requests)
      BY <2>1 DEF DeleterQuery, Batch
    <3>2. Asked = Asked' \cup Head(requests)
      BY <3>1, AskedFacts DEF TypeInv
    <3> QED BY <1>5, <3>1, <3>2
  <2>2. CASE DeleterRemove \/ \E u \in deleter.task : DeleterCheck(u)
    <3>1. UNCHANGED <<db, admin, requests>>
      BY <2>2 DEF DeleterRemove, DeleterCheck
    <3>2. Asked' = Asked
      BY <3>1 DEF Asked
    <3>3. Batch' \subseteq Batch
      BY <2>2 DEF DeleterRemove, DeleterCheck, Batch, TypeInv, DeleterType
    <3> QED BY <1>5, <3>1, <3>2, <3>3
  <2> QED BY <1>7, <2>1, <2>2 DEF Deleter
<1> QED BY <1>1, <1>2, <1>3, <1>4, <1>6, <1>7

\* A file that is being removed is not locked and had no row, or raced.
LEMMA RemovalsStep ==
    ASSUME TablesInv, RemovalsAreRaces, Next
    PROVE  RemovalsAreRaces'
<1>a. Step /\ Raced' \subseteq hist'.raced /\ hist.raced \subseteq hist'.raced
  BY HistStep DEF Next
<1>b. TypeInv /\ WithinFiles /\ AdminInv
  BY DEF TablesInv
<1>1. ASSUME NEW u \in deleter'.removing
      PROVE  u \in hist'.raced \/ u \notin locks' \cup deleter'.uids_in_db
  <2>1. CASE deleter' = deleter
    <3>1. u \in hist.raced \/ u \notin locks \cup deleter.uids_in_db
      BY <1>1, <2>1 DEF RemovalsAreRaces
    <3>2. CASE u \notin locks'
      BY <1>a, <2>1, <3>1, <3>2
    <3>3. CASE u \in locks
      BY <1>a, <3>1, <3>3
    <3>4. CASE u \notin locks /\ u \in locks'
      <4>1. PICK t \in tasks : u \in t.todo
        BY <1>a, <3>4 DEF Step, Unpacking, Deleter, Upload, CancelUnpacking, DeleteFirmware,
             ReDoAnalysis, DeleteRows, DeleteRequest, Receive, AnalysisTask, DeleterQuery, DeleterCheck,
             DeleterRemove, Start, SetUnpackingLock, StoreFile, AddObject, Exists, InsertObject,
         UpdateObject, UpdateFirmware, UpdateFileObject, UpdateCurrentlyUnpacked
      <4>2. u \in t.out
        BY <1>b, <4>1 DEF WithinFiles, Shape
      <4>3. PendingFor(u) # {}
        BY <1>b, <4>2, PendingFacts
      <4>4. u \in Batch /\ u \in ToRemove
        BY <1>1, <2>1 DEF Batch, ToRemove
      <4>5. u \notin locks \cup deleter.uids_in_db => u \in Raced
        BY <4>3, <4>4 DEF Raced
      <4> QED BY <1>a, <3>1, <4>5 DEF RemovalsAreRaces
    <3> QED BY <3>2, <3>3, <3>4
  <2>2. ASSUME NEW v \in deleter.task, UNCHANGED locks,
               deleter'.removing = IF v \notin locks /\ v \notin deleter.uids_in_db THEN {v} ELSE {},
               deleter'.uids_in_db = IF deleter.task = {v} THEN {} ELSE deleter.uids_in_db
        PROVE  u \notin locks' \cup deleter'.uids_in_db
    BY <1>1, <2>2
  <2>3. CASE deleter'.removing = {}
    BY <1>1, <2>3
  <2> QED BY <1>a, <1>b, <2>1, <2>2, <2>3, DeleterSteps
<1>2. ASSUME NEW r \in db'.is_firmware, r \in ToRemove' PROVE r \in hist'.raced
  <2>1. r \in ToRemove
    BY <1>2, <1>a, <1>b, ToRemoveStep
  <2>2. CASE r \in db.is_firmware
    BY <1>a, <2>1, <2>2 DEF RemovalsAreRaces
  <2>3. CASE r \notin db.is_firmware
    <3>0. db \in Tables
      BY <1>b DEF TypeInv, DbType
    <3>1. ASSUME NEW t \in tasks, db' = Stored(db, t) PROVE r \in Pending
      <4>1. t \in TaskType
        BY <1>b DEF TypeInv
      <4>2. db'.is_firmware = IF IsFirmware(t) THEN db.is_firmware \cup {t.uid}
                              ELSE db.is_firmware \ {t.uid}
        BY <3>0, <3>1, <4>1, StoredFields
      <4>3. r = t.root
        BY <1>2, <2>3, <4>2 DEF IsFirmware
      <4> QED BY <4>3 DEF Pending
    <3>2. ASSUME NEW x \in Images, DeleteRows(x) PROVE FALSE
      <4>1. x \in Uids /\ db' = DeleteObject(db, x)
        BY <3>2, StoreConstants DEF DeleteRows
      <4> QED BY <1>2, <2>3, <3>0, <4>1, DeleteObjectIs DEF Deleted
    <3>3. r \in Pending
      BY <1>2, <1>a, <1>b, <2>3, <3>1, <3>2, DbSteps
    <3>4. r \in Raced
      BY <2>1, <3>3 DEF Raced
    <3> QED BY <1>a, <3>4 DEF RemovalsAreRaces
  <2> QED BY <2>2, <2>3
<1> QED BY <1>a, <1>1, <1>2 DEF RemovalsAreRaces

\* A file that is needed is not removed, unless it raced.
LEMMA KeptStep ==
    ASSUME TablesInv, RemovalsAreRaces, Next, NEW u \in Kept,
           PendingFor(u) # {} \/ u \in db.file_object \/ u \in hist.raced \/ u \notin Batch
    PROVE  u \in Kept'
<1>a. Step /\ hist.raced \subseteq hist'.raced
  BY HistStep DEF Next
<1>b. TypeInv
  BY DEF TablesInv
<1>1. CASE content \subseteq content' \/ u \in hist.raced
  BY <1>a, <1>1 DEF Kept
<1>2. CASE content' = content \ deleter.removing /\ u \notin hist.raced
  <2>1. u \notin deleter.removing
    <3> SUFFICES ASSUME u \in deleter.removing PROVE FALSE
      OBVIOUS
    <3>1. u \in Batch /\ u \in ToRemove /\ u \notin locks \cup deleter.uids_in_db
      BY <1>2 DEF Batch, ToRemove, RemovalsAreRaces
    <3>2. PendingFor(u) # {} \/ u \in db.file_object
      BY <1>2, <3>1
    <3>3. u \in Raced
      BY <3>1, <3>2 DEF Raced
    <3> QED BY <1>2, <3>3 DEF RemovalsAreRaces
  <2> QED BY <1>2, <2>1 DEF Kept
<1> QED BY <1>a, <1>b, <1>1, <1>2, DeleterSteps

\* The listener is asked for more only by delete_firmware.
LEMMA AskedShrinks ==
    ASSUME TypeInv, Step, ~DeleteRequest
    PROVE  Asked' \cup Batch' \subseteq Asked \cup Batch
<1>1. CASE UNCHANGED <<deleter, requests>>
  BY <1>1 DEF Asked, Batch
<1>2. CASE Asked = Asked' \cup Batch'
  BY <1>2
<1>3. CASE UNCHANGED requests /\ Batch' \subseteq Batch
  BY <1>3 DEF Asked
<1> QED BY <1>1, <1>2, <1>3, DeleterSteps

\* Only an upload and a repeated analysis submit an image.
LEMMA SubmittedSteps ==
    ASSUME Step
    PROVE  \/ submitted' \subseteq submitted
           \/ DeleteRequest
           \/ \E r \in Images : Upload(r)
BY DEF Step, Unpacking, Deleter, CancelUnpacking, DeleteFirmware, ReDoAnalysis, DeleteRows,
       Receive, AnalysisTask, DeleterQuery, DeleterCheck, DeleterRemove, Start, SetUnpackingLock,
       StoreFile, AddObject, Exists, InsertObject,
         UpdateObject, UpdateFirmware, UpdateFileObject, UpdateCurrentlyUnpacked

\* What a task needs stays in the file store.
TaskKept(t) == t.uid \in Kept /\ t.out \ (t.todo \cup t.at) \subseteq Kept

\* The files of a task, and those it stored, are there.
LEMMA TasksKeptStep ==
    ASSUME TablesInv, RemovalsAreRaces, ContentInv, Next
    PROVE  \A t \in tasks' : TaskKept(t)'
<1>a. Step /\ TypeInv /\ WithinFiles
  BY DEF Next, TablesInv
<1>b. \A t \in tasks : /\ t \in TaskType /\ t.root \in Images /\ Shape(t) /\ TaskKept(t)
  BY <1>a, TaskFields DEF TypeInv, WithinFiles, ContentInv, TaskKept
<1>c. ASSUME NEW t \in tasks PROVE TaskKept(t)'
  <2>1. t.uid \in Kept'
    BY <1>a, <1>b, PendingFacts, KeptStep DEF TaskKept
  <2>2. ASSUME NEW u \in t.out \ (t.todo \cup t.at) PROVE u \in Kept'
    <3>1. u \in Kept
      BY <1>b DEF TaskKept
    <3>2. PendingFor(u) # {}
      BY <1>a, PendingFacts
    <3> QED BY <3>1, <3>2, KeptStep
  <2> QED BY <2>1, <2>2 DEF TaskKept
<1> SUFFICES ASSUME NEW o \in tasks', o \notin tasks PROVE TaskKept(o)'
  BY <1>c
<1>1. ASSUME NEW t \in tasks, Start(t) PROVE TaskKept(o)'
  <2>1. Turns(t, o, "unpack", Found(t), t.at, Found(t))
    BY <1>1, <1>a, StartStep
  <2> QED BY <1>c, <2>1 DEF TaskKept, Turns
<1>2. ASSUME NEW t \in tasks, NEW c \in t.todo, SetUnpackingLock(t, c) PROVE TaskKept(o)'
  <2>1. t.phase = "unpack"
        /\ \E t2 : Turns(t, t2, "store", t.todo \ {c}, {c}, t.out) /\ tasks' = (tasks \ {t}) \cup {t2}
    BY <1>2, <1>a, LockStep
  <2>2. Turns(t, o, "store", t.todo \ {c}, {c}, t.out)
    BY <2>1
  <2>3. t.at = {}
    BY <1>b, <2>1 DEF Shape
  <2> QED BY <1>c, <2>2, <2>3 DEF TaskKept, Turns
<1>3. ASSUME NEW t \in tasks, StoreFile(t) PROVE TaskKept(o)'
  <2>1. Turns(t, o, "unpack", t.todo, {}, t.out) /\ content' = content \cup t.at
    BY <1>3, <1>a, StoreStep
  <2>2. t.at \subseteq Kept'
    BY <2>1 DEF Kept
  <2> QED BY <1>c, <2>1, <2>2 DEF TaskKept, Turns
<1>4. ASSUME NEW t \in tasks, AddObject(t) PROVE TaskKept(o)'
  <2>1. \E p, out : Turns(t, o, p, t.todo, t.at, out) /\ out \subseteq t.out
    BY <1>4, <1>a, AddStep DEF Advances, Stores, Fails
  <2> QED BY <1>c, <2>1 DEF TaskKept, Turns
<1>5. ASSUME NEW t \in tasks, UpdateCurrentlyUnpacked(t) PROVE TaskKept(o)'
  <2>1. /\ tasks' = (tasks \ {t}) \cup {Task(t.root, c, t.uid) : c \in New(t)}
        /\ New(t) \subseteq t.out /\ t.phase = "update"
    BY <1>5, <1>a, UpdateStep
  <2>2. PICK c \in New(t) : o = Task(t.root, c, t.uid)
    BY <2>1
  <2>3. t.todo = {} /\ t.at = {}
    BY <1>b, <2>1 DEF Shape
  <2>4. c \in Kept'
    BY <1>c, <2>1, <2>2, <2>3 DEF TaskKept
  <2> QED BY <2>2, <2>4 DEF TaskKept, Task
<1>6. ASSUME NEW s \in submitted, Receive(s) PROVE TaskKept(o)'
  <2>1. o = Task(s.uid, s.uid, s.uid)
    BY <1>6 DEF Receive
  <2>2. s.uid \in Kept'
    <3>1. CASE s.kind = "analysis_task"
      BY <1>6, <3>1 DEF Receive, Kept
    <3>2. CASE s.kind = "re_analyze_task"
      <4>1. s.uid \in Kept /\ PendingFor(s.uid) # {}
        BY <1>a, <3>2, PendingFacts DEF ContentInv
      <4> QED BY <4>1, KeptStep
    <3> QED BY <1>a, <3>1, <3>2 DEF TypeInv
  <2> QED BY <2>1, <2>2 DEF TaskKept, Task
<1>7. tasks' \subseteq tasks \/ Unpacking \/ \E s \in submitted : Receive(s)
  BY <1>a DEF Step, Deleter, Upload, CancelUnpacking, DeleteFirmware, ReDoAnalysis, DeleteRequest,
       DeleteRows, AnalysisTask, DeleterQuery, DeleterCheck, DeleterRemove, unpackVars
<1> QED BY <1>1, <1>2, <1>3, <1>4, <1>5, <1>6, <1>7 DEF Unpacking

\* The file store keeps what has a row and what is on its way, unless it raced.
LEMMA ContentStep ==
    ASSUME TablesInv, RemovalsAreRaces, ContentInv, Next
    PROVE  ContentInv'
<1>a. Step /\ TypeInv /\ WithinFiles /\ AdminInv /\ hist.raced \subseteq hist'.raced
  BY HistStep DEF Next, TablesInv
<1>b. \A t \in tasks : TaskKept(t)
  BY DEF ContentInv, TaskKept
<1>c. db \in Tables
  BY <1>a DEF TypeInv, DbType
<1>1. ASSUME NEW u \in db'.file_object PROVE u \in Kept'
  <2>1. ASSUME u \in db.file_object PROVE u \in Kept'
    <3>1. u \in Kept
      BY <2>1 DEF ContentInv, ContentKept, Kept
    <3> QED BY <2>1, <3>1, KeptStep
  <2>2. ASSUME NEW t \in tasks, db' = Stored(db, t), u \notin db.file_object PROVE u \in Kept'
    <3>1. t \in TaskType
      BY <1>a DEF TypeInv
    <3>0. db'.file_object = db.file_object \cup {t.uid}
      BY <1>c, <2>2, <3>1, StoredFields
    <3>2. u = t.uid
      BY <1>1, <2>2, <3>0
    <3>3. u \in Kept /\ PendingFor(u) # {}
      BY <1>a, <1>b, <3>2, PendingFacts DEF TaskKept
    <3> QED BY <3>3, KeptStep
  <2>3. ASSUME NEW x \in Images, DeleteRows(x) PROVE u \in db.file_object
    <3>1. x \in Uids /\ db' = DeleteObject(db, x)
      BY <2>3, StoreConstants DEF DeleteRows
    <3> QED BY <1>1, <1>c, <3>1, DeleteObjectIs DEF Deleted
  <2> QED BY <1>1, <1>a, <2>1, <2>2, <2>3, DbSteps
<1>2. ContentKept'
  BY <1>1 DEF ContentKept, Kept
<1>3. \A t \in tasks' : t.uid \in Kept' /\ t.out \ (t.todo \cup t.at) \subseteq Kept'
  BY TasksKeptStep DEF TaskKept
<1>4. ASSUME NEW s \in submitted', s.kind = "re_analyze_task" PROVE s.uid \in Kept'
  <2>1. CASE s \in submitted
    <3>1. s.uid \in Kept /\ PendingFor(s.uid) # {}
      BY <1>a, <1>4, <2>1, PendingFacts DEF ContentInv
    <3> QED BY <3>1, KeptStep
  <2>2. CASE s \notin submitted
    <3>1. DeleteRequest
      <4>1. CASE submitted' \subseteq submitted
        BY <1>4, <2>2, <4>1
      <4>2. ASSUME NEW r \in Images, Upload(r) PROVE FALSE
        <5>1. s = [uid |-> r, kind |-> "analysis_task"]
          BY <1>4, <2>2, <4>2 DEF Upload
        <5> QED BY <1>4, <5>1
      <4> QED BY <1>a, <4>1, <4>2, SubmittedSteps
    <3>2. /\ admin.root = {} /\ content' = content
          /\ s \in {[uid |-> u, kind |-> "re_analyze_task"] : u \in admin.uid}
      BY <1>4, <2>2, <3>1 DEF DeleteRequest
    <3>3. s.uid \in admin.uid
      BY <3>2
    <3>4. s.uid \in Kept
      BY <3>2, <3>3 DEF ContentInv
    <3> QED BY <1>a, <3>2, <3>4 DEF Kept
  <2> QED BY <2>1, <2>2
<1>5. ASSUME admin'.root = {}, NEW u \in admin'.uid
      PROVE  u \in Kept' /\ (u \in Asked' \cup Batch' => u \in hist'.raced)
  <2>1. CASE admin'.uid = admin.uid /\ admin'.root = admin.root /\ ~DeleteRequest
    <3>1. u \in Kept /\ (u \in Asked \cup Batch => u \in hist.raced)
      BY <1>5, <2>1 DEF ContentInv
    <3>2. u \in Kept'
      BY <3>1, KeptStep
    <3>3. Asked' \cup Batch' \subseteq Asked \cup Batch
      BY <1>a, <2>1, AskedShrinks
    <3> QED BY <1>a, <3>1, <3>2, <3>3
  <2>2. CASE DeleteRequest
    BY <1>5, <2>2 DEF DeleteRequest, NoAdmin
  <2>3. ASSUME NEW r \in Images, DeleteFirmware(r) \/ ReDoAnalysis(r)
        PROVE  u \in Kept' /\ (u \in Asked' \cup Batch' => u \in hist'.raced)
    <3>1. ReDoAnalysis(r)
      BY <1>5, <2>3 DEF DeleteFirmware, FindFirmware
    <3>2. u = r /\ u \in db.is_firmware /\ UNCHANGED <<content, requests, deleter>>
      BY <1>5, <3>1 DEF ReDoAnalysis, FindFirmware
    <3>3. u \in Kept
      BY <1>a, <3>2 DEF ContentInv, ContentKept, Kept, TypeInv, DbType
    <3>4. Asked' = Asked /\ Batch' = Batch
      BY <3>2 DEF Asked, Batch
    <3>5. Asked \cup Batch \subseteq ToRemove
      BY DEF ToRemove, Asked
    <3> QED BY <1>a, <3>2, <3>3, <3>4, <3>5 DEF RemovalsAreRaces, Kept
  <2>4. ASSUME NEW x \in Images, DeleteRows(x) PROVE admin'.uid = admin.uid /\ admin'.root = admin.root
    BY <1>a, <2>4 DEF DeleteRows, TypeInv, AdminType
  <2>5. \/ admin' = admin \/ DeleteRequest
        \/ \E r \in Images : DeleteFirmware(r) \/ ReDoAnalysis(r) \/ DeleteRows(r)
    BY <1>a DEF Step, Unpacking, Deleter, Upload, CancelUnpacking, Receive, AnalysisTask, DeleterQuery,
         DeleterCheck, DeleterRemove, Start, SetUnpackingLock, StoreFile, AddObject, Exists, InsertObject,
         UpdateObject, UpdateFirmware, UpdateFileObject,
         UpdateCurrentlyUnpacked
  <2> QED BY <2>1, <2>2, <2>3, <2>4, <2>5
<1> QED BY <1>2, <1>3, <1>4, <1>5 DEF ContentInv

(***************************************************************************)
(* Whole images                                                            *)
(***************************************************************************)

\* An image that is calm was so before.
LEMMA CalmBefore ==
    ASSUME Next, NEW r \in Images, Calm(r)'
    PROVE  Calm(r)
BY HistStep DEF Calm

\* The deletion of one image takes no row from another one.
LEMMA WholeStep ==
    ASSUME TablesInv, Next, NEW r \in Images, Calm(r)', Whole(r),
           r \in db'.is_firmware \/ r \in Pending
    PROVE  Whole(r)'
<1>a. Step /\ TypeInv /\ WithinFiles /\ MixedAreKnown /\ AdminInv /\ db \in Tables
  BY DEF Next, TablesInv, TypeInv, DbType
<1>b. Calm(r) /\ r \in Files[r] /\ Files[r] \subseteq Uids /\ r \in Uids
  BY CalmBefore, FilesFacts
<1>1. CASE db' = db
  BY <1>1 DEF Whole
<1>2. ASSUME NEW t \in tasks, db' = Stored(db, t) PROVE Whole(r)'
  <2>1. t \in TaskType
    BY <1>a DEF TypeInv
  <2>2. db.fw_files \subseteq db'.fw_files
    <3>1. db'.fw_files = IF IsFirmware(t) THEN db.fw_files
                         ELSE db.fw_files \cup {<<t.root, t.uid>>}
      BY <1>a, <1>2, <2>1, StoredFields
    <3> QED BY <3>1
  <2> QED BY <2>2 DEF Whole
<1>3. ASSUME NEW x \in Images, DeleteRows(x) PROVE Whole(r)'
  <2>1. x \in Uids /\ db' = DeleteObject(db, x) /\ admin.phase = "rows" /\ x \in admin.uid
    BY <1>3, StoreConstants DEF DeleteRows
  <2>2. PICK gone \in SUBSET Uids : Deleted(db, db', x, gone)
    BY <1>a, <2>1, DeleteObjectIs
  <2>3. r # x
    <3>1. r = x => r \notin db'.is_firmware
      BY <2>2 DEF Deleted
    <3>2. r = x /\ r \in Pending => Files[r] \subseteq hist.interrupted
      BY <1>a, <2>1 DEF AdminInv
    <3> QED BY <1>b, <3>1, <3>2 DEF Calm
  <2>4. r \notin gone
    <3> SUFFICES ASSUME r \in gone PROVE FALSE
      OBVIOUS
    <3>1. r \in db.file_object /\ r \notin db.is_firmware
      BY <2>2, <2>3 DEF Deleted
    <3>2. r \in hist.mixed
      BY <1>a, <3>1 DEF MixedAreKnown
    <3> QED BY <1>b, <3>2 DEF Calm
  <2>5. ASSUME NEW u \in Files[r] \ {r} PROVE <<r, u>> \in db'.fw_files
    <3>1. <<r, u>> \in db.fw_files /\ u \in Uids
      BY <1>b DEF Whole
    <3>2. u # x
      <4> SUFFICES ASSUME u = x PROVE FALSE
        OBVIOUS
      <4>1. u \in Mixed
        BY <1>b, <3>1 DEF Mixed, RootFirmware
      <4> QED BY <1>a, <1>b, <4>1 DEF MixedAreKnown, Calm
    <3>3. u \notin gone
      BY <1>b, <2>2, <2>3, <3>1, <3>2 DEF Deleted
    <3> QED BY <2>2, <2>4, <3>1, <3>3 DEF Deleted
  <2> QED BY <2>5 DEF Whole
<1> QED BY <1>a, <1>1, <1>2, <1>3, DbSteps

\* When the last task of an entry ends, all files of the image have their rows.
LEMMA LastTaskMakesWhole ==
    ASSUME TablesInv, NEW t \in tasks, t.phase = "update", entry[t.root].active, Left(t) = {},
           Calm(t.root), UnpackedWhole(t.root)
    PROVE  Whole(t.root)
<1> DEFINE r == t.root
           S == entry[r].done \cup {t.uid}
<1>a. TypeInv /\ WithinFiles /\ EntryInv /\ RowsKept
  BY DEF TablesInv
<1>b. t \in TaskType /\ r \in Images /\ t.uid \in Uids /\ Shape(t)
  BY <1>a, TaskFields DEF TypeInv, WithinFiles
<1>c. entry[r].remaining \subseteq Uids /\ entry[r].done \subseteq Uids
  BY <1>a, <1>b DEF TypeInv, EntryType
<1>d. r \in Files[r] /\ Files[r] \subseteq Uids
  BY <1>b, FilesFacts
<1> HIDE DEF r
<1>1. t.out = Content[t.uid] \ {t.uid}
  BY DEF UnpackedWhole, r
<1>2. t.out \subseteq New(t) \cup entry[r].remaining \cup entry[r].done
  BY DEF New, r
<1>3. New(t) \cup entry[r].remaining \subseteq {t.uid}
  BY DEF Left, r
<1>4. r \in S
  BY <1>a, <1>b, <1>3 DEF EntryInv, r
<1>5. \A v \in S : Content[v] \subseteq S
  <2>1. ASSUME NEW v \in entry[r].done PROVE Content[v] \subseteq S
    <3>1. Content[v] \ {v} \subseteq entry[r].remaining \cup entry[r].done
      BY DEF UnpackedWhole, r
    <3> QED BY <1>3, <3>1
  <2>2. Content[t.uid] \subseteq S
    BY <1>1, <1>2, <1>3
  <2> QED BY <2>1, <2>2
<1>6. Files[r] \subseteq S
  <2>1. S \in SUBSET Uids /\ r \in Images
    BY <1>b, <1>c
  <2> HIDE DEF S
  <2> QED BY <1>4, <1>5, <2>1, FilesLeast
<1>7. ASSUME NEW u \in Files[r] \ {r} PROVE <<r, u>> \in db.fw_files
  <2>1. RowKept(r, u)
    <3>1. CASE u = t.uid
      BY <1>a, <3>1 DEF RowsKept, r
    <3>2. CASE u \in entry[r].done
      BY <1>a, <1>b, <3>2 DEF RowsKept, r
    <3> QED BY <1>6, <3>1, <3>2
  <2> QED BY <1>d, <2>1 DEF RowKept, Row, Calm, r
<1> QED BY <1>7 DEF Whole, r

\* An entry ends when its image is whole, or cancelled.
LEMMA ActiveOrWholeStep ==
    ASSUME TablesInv, Next, NEW r \in Images, Calm(r)', UnpackedWhole(r),
           entry[r].active \/ Whole(r), r \in db'.is_firmware \/ r \in Pending
    PROVE  entry'[r].active \/ Whole(r)'
<1>a. Step /\ TypeInv /\ Calm(r)
  BY CalmBefore DEF Next, TablesInv
<1>b. entry \in [Images -> EntryType]
  BY <1>a DEF TypeInv
<1>1. CASE Whole(r)
  BY <1>1, WholeStep
<1>2. CASE entry' = entry
  BY <1>1, <1>2
<1>3. ASSUME entry[r].active, NEW t \in tasks, Start(t) PROVE entry'[r].active
  <2>1. \/ entry' = entry
        \/ entry' = [entry EXCEPT ![t.root] = [active |-> TRUE, remaining |-> {t.uid}, done |-> {}]]
    BY <1>a, <1>3, StartStep
  <2> QED BY <1>3, <1>b, <2>1
<1>4. ASSUME entry[r].active, NEW t \in tasks, UpdateCurrentlyUnpacked(t)
      PROVE  entry'[r].active \/ Whole(r)'
  <2>0. /\ t.phase = "update" /\ db' = db
        /\ \/ ~entry[t.root].active /\ entry' = entry
           \/ entry[t.root].active /\ Left(t) = {} /\ entry' = [entry EXCEPT ![t.root] = NoEntry]
           \/ /\ entry[t.root].active /\ Left(t) # {}
              /\ entry' = [entry EXCEPT ![t.root] =
                    [active |-> TRUE, remaining |-> Left(t),
                     done |-> entry[t.root].done \cup {t.uid}]]
    BY <1>a, <1>4, UpdateStep
  <2>1. CASE t.root = r /\ entry[t.root].active /\ Left(t) = {}
    <3>1. Whole(r)
      BY <1>a, <2>0, <2>1, LastTaskMakesWhole
    <3> QED BY <1>1, <3>1
  <2>2. CASE t.root # r
    BY <1>4, <1>b, <2>0, <2>2
  <2>3. CASE t.root = r /\ ~(entry[t.root].active /\ Left(t) = {})
    BY <1>4, <1>b, <2>0, <2>3
  <2> QED BY <2>1, <2>2, <2>3
<1>5. ASSUME entry[r].active, NEW x \in Images, CancelUnpacking(x) PROVE entry'[r].active
  <2>1. entry' = [entry EXCEPT ![x] = NoEntry]
    BY <1>5 DEF CancelUnpacking
  <2>2. r # x
    BY <1>5, <1>a, CancelInterrupts DEF Calm
  <2> QED BY <1>5, <1>b, <2>1, <2>2
<1>6. \/ entry' = entry
      \/ \E t \in tasks : Start(t) \/ UpdateCurrentlyUnpacked(t)
      \/ \E x \in Images : CancelUnpacking(x)
  BY <1>a DEF Step, Unpacking, Deleter, Upload, DeleteFirmware, ReDoAnalysis,
       DeleteRows, DeleteRequest, Receive, AnalysisTask, DeleterQuery, DeleterCheck, DeleterRemove,
       SetUnpackingLock, StoreFile, AddObject, Exists, InsertObject,
         UpdateObject, UpdateFirmware, UpdateFileObject, unpackVars
<1> QED BY <1>1, <1>2, <1>3, <1>4, <1>5, <1>6

\* An image that nothing disturbed is whole once its entry is gone.
LEMMA CompleteStep ==
    ASSUME TablesInv, ContentInv, CompleteInv, Next
    PROVE  CompleteInv'
<1> SUFFICES ASSUME NEW r \in Images, Calm(r)' PROVE UnpackedWhole(r)'
  BY DEF CompleteInv
<1>a. Step /\ TypeInv /\ WithinFiles /\ Calm(r) /\ UnpackedWhole(r)
  BY CalmBefore DEF Next, TablesInv, CompleteInv
<1>b. entry \in [Images -> EntryType] /\ db \in Tables
  BY <1>a DEF TypeInv, DbType
<1>c. \A t \in tasks : t \in TaskType /\ t.root \in Images /\ t.uid \in Uids /\ Shape(t)
                       /\ t.root \in Pending
  BY <1>a, TaskFields, PendingFacts DEF TypeInv, WithinFiles
<1>d. \A t \in tasks : t.root = r /\ t.phase # "queued" =>
          /\ t.out = Content[t.uid] \ {t.uid}
          /\ t.uid = r => entry[r].active \/ Whole(r)
  BY <1>a DEF UnpackedWhole
<1>1. ASSUME r \in db'.is_firmware PROVE entry'[r].active \/ Whole(r)'
  <2>1. CASE r \in db.is_firmware
    <3>1. entry[r].active \/ Whole(r)
      BY <1>a, <2>1 DEF UnpackedWhole
    <3> QED BY <1>1, <1>a, <3>1, ActiveOrWholeStep
  <2>2. CASE r \notin db.is_firmware
    <3>1. ASSUME NEW t \in tasks, AddObject(t), db' = Stored(db, t)
          PROVE  entry[r].active \/ Whole(r)
      <4>1. db'.is_firmware = IF IsFirmware(t) THEN db.is_firmware \cup {t.uid}
                              ELSE db.is_firmware \ {t.uid}
        BY <1>b, <1>c, <3>1, StoredFields
      <4>2. t.uid = r /\ t.root = r
        BY <1>1, <2>2, <4>1 DEF IsFirmware
      <4>3. t.phase # "queued"
        BY <1>a, <3>1, AddStep
      <4> QED BY <1>d, <4>2, <4>3
    <3>2. ASSUME NEW x \in Images, DeleteRows(x) PROVE FALSE
      <4>1. x \in Uids /\ db' = DeleteObject(db, x)
        BY <3>2, StoreConstants DEF DeleteRows
      <4> QED BY <1>1, <1>b, <2>2, <4>1, DeleteObjectIs DEF Deleted
    <3>3. entry[r].active \/ Whole(r)
      BY <1>1, <1>a, <2>2, <3>1, <3>2, DbSteps
    <3> QED BY <1>1, <1>a, <3>3, ActiveOrWholeStep
  <2> QED BY <2>1, <2>2
<1>2. ASSUME NEW o \in tasks', o.root = r, o.phase # "queued"
      PROVE  /\ o.out = Content[o.uid] \ {o.uid}
             /\ o.uid = r => entry'[r].active \/ Whole(r)'
  <2>a. ASSUME NEW t \in tasks, t.root = r, t.phase # "queued", t.uid = o.uid, t.out = o.out
        PROVE  /\ o.out = Content[o.uid] \ {o.uid}
               /\ o.uid = r => entry'[r].active \/ Whole(r)'
    <3>1. r \in Pending
      BY <1>c, <2>a
    <3>2. ASSUME o.uid = r PROVE entry'[r].active \/ Whole(r)'
      <4>1. entry[r].active \/ Whole(r)
        BY <1>d, <2>a, <3>2
      <4> QED BY <1>a, <3>1, <4>1, ActiveOrWholeStep
    <3> QED BY <1>d, <2>a, <3>2
  <2>1. CASE o \in tasks
    BY <1>2, <2>1, <2>a
  <2>2. ASSUME NEW t \in tasks, Start(t), o \notin tasks
        PROVE  /\ o.out = Content[o.uid] \ {o.uid}
               /\ o.uid = r => entry'[r].active \/ Whole(r)'
    <3>1. /\ Turns(t, o, "unpack", Found(t), t.at, Found(t))
      BY <1>2, <1>a, <2>2, StartStep
    <3>2. t.root = r /\ t.uid = o.uid /\ o.out = Found(t)
      BY <1>2, <3>1 DEF Turns
    <3>3. t.uid \in content
      <4>1. t.uid \in Files[r] /\ t.uid \in Kept
        BY <1>c, <3>2 DEF Shape, ContentInv
      <4> QED BY <1>a, <4>1 DEF Kept, Calm
    <3>4. o.out = Content[o.uid] \ {o.uid}
      BY <3>2, <3>3 DEF Found
    <3>5. ASSUME o.uid = r PROVE entry'[r].active
      <4>1. \/ entry[r].active /\ entry' = entry
            \/ entry' = [entry EXCEPT ![t.root] = [active |-> TRUE, remaining |-> {t.uid}, done |-> {}]]
        BY <1>a, <2>2, <3>2, <3>5, StartStep
      <4> QED BY <1>b, <3>2, <4>1
    <3> QED BY <3>4, <3>5
  <2>3. ASSUME NEW t \in tasks, NEW c \in t.todo, SetUnpackingLock(t, c), o \notin tasks
        PROVE  t.phase # "queued" /\ t.root = r /\ t.uid = o.uid /\ t.out = o.out
    <3>1. t.phase = "unpack"
          /\ \E t2 : Turns(t, t2, "store", t.todo \ {c}, {c}, t.out) /\ tasks' = (tasks \ {t}) \cup {t2}
      BY <1>a, <2>3, LockStep
    <3>2. Turns(t, o, "store", t.todo \ {c}, {c}, t.out)
      BY <1>2, <2>3, <3>1
    <3> QED BY <1>2, <3>1, <3>2 DEF Turns
  <2>4. ASSUME NEW t \in tasks, StoreFile(t), o \notin tasks
        PROVE  t.phase # "queued" /\ t.root = r /\ t.uid = o.uid /\ t.out = o.out
    <3>1. Turns(t, o, "unpack", t.todo, {}, t.out) /\ t.phase = "store"
      BY <1>2, <1>a, <2>4, StoreStep
    <3> QED BY <1>2, <3>1 DEF Turns
  <2>5. ASSUME NEW t \in tasks, AddObject(t), o \notin tasks
        PROVE  t.phase # "queued" /\ t.root = r /\ t.uid = o.uid /\ t.out = o.out
    <3>1. t.phase # "queued" /\ (Advances(t) \/ Stores(t) \/ Fails(t))
      BY <1>a, <2>5, AddStep
    <3>2. \E p, out : Turns(t, o, p, t.todo, t.at, out) /\ (out = t.out \/ Fails(t))
      BY <1>2, <2>5, <3>1 DEF Advances, Stores, Fails
    <3>3. t.root = r /\ t.uid = o.uid
      BY <1>2, <3>2 DEF Turns
    <3>4. ~Fails(t)
      BY <1>a, <1>c, <2>5, <3>3, FailureInterrupts DEF Calm
    <3> QED BY <3>1, <3>2, <3>3, <3>4 DEF Turns
  <2>6. ASSUME NEW t \in tasks, UpdateCurrentlyUnpacked(t), o \notin tasks
        PROVE  FALSE
    <3>1. tasks' = (tasks \ {t}) \cup {Task(t.root, c, t.uid) : c \in New(t)}
      BY <1>a, <2>6, UpdateStep
    <3>2. PICK c \in New(t) : o = Task(t.root, c, t.uid)
      BY <1>2, <2>6, <3>1
    <3> QED BY <1>2, <3>2 DEF Task
  <2>7. ASSUME NEW s \in submitted, Receive(s), o \notin tasks PROVE FALSE
    BY <1>2, <2>7 DEF Receive, Task
  <2>8. tasks' \subseteq tasks \/ Unpacking \/ \E s \in submitted : Receive(s)
    BY <1>a DEF Step, Deleter, Upload, CancelUnpacking, DeleteFirmware, ReDoAnalysis, DeleteRequest,
         DeleteRows, AnalysisTask, DeleterQuery, DeleterCheck, DeleterRemove, unpackVars
  <2> QED BY <1>2, <2>a, <2>1, <2>2, <2>3, <2>4, <2>5, <2>6, <2>7, <2>8 DEF Unpacking
<1>3. ASSUME entry'[r].active, NEW u \in entry'[r].done
      PROVE  Content[u] \ {u} \subseteq entry'[r].remaining \cup entry'[r].done
  <2>1. CASE entry'[r] = entry[r]
    BY <1>3, <1>a, <2>1 DEF UnpackedWhole
  <2>2. ASSUME NEW t \in tasks, Start(t), entry'[r] # entry[r] PROVE FALSE
    <3>1. entry' = [entry EXCEPT ![t.root] = [active |-> TRUE, remaining |-> {t.uid}, done |-> {}]]
      BY <1>a, <2>2, StartStep
    <3>2. entry'[r].done = {}
      BY <1>b, <2>2, <3>1
    <3> QED BY <1>3, <3>2
  <2>3. ASSUME NEW t \in tasks, UpdateCurrentlyUnpacked(t), entry'[r] # entry[r]
        PROVE  Content[u] \ {u} \subseteq entry'[r].remaining \cup entry'[r].done
    <3>0. /\ t.phase = "update"
          /\ \/ ~entry[t.root].active /\ entry' = entry
             \/ entry[t.root].active /\ Left(t) = {} /\ entry' = [entry EXCEPT ![t.root] = NoEntry]
             \/ /\ entry[t.root].active /\ Left(t) # {}
                /\ entry' = [entry EXCEPT ![t.root] =
                      [active |-> TRUE, remaining |-> Left(t),
                       done |-> entry[t.root].done \cup {t.uid}]]
      BY <1>a, <2>3, UpdateStep
    <3>1. t.root = r /\ entry[r].active
      BY <1>b, <2>3, <3>0
    <3>2. entry'[r].remaining = Left(t) /\ entry'[r].done = entry[r].done \cup {t.uid}
      BY <1>3, <1>b, <3>0, <3>1 DEF NoEntry
    <3>3. New(t) \cup entry[r].remaining \cup entry[r].done \subseteq entry'[r].remaining \cup entry'[r].done
      BY <3>1, <3>2 DEF Left
    <3>4. CASE u = t.uid
      <4>1. t.out = Content[u] \ {u}
        BY <1>d, <3>0, <3>1, <3>4
      <4>2. t.out \subseteq New(t) \cup entry[r].remaining \cup entry[r].done
        BY <3>1 DEF New
      <4> QED BY <3>3, <4>1, <4>2
    <3>5. CASE u \in entry[r].done
      <4>1. Content[u] \ {u} \subseteq entry[r].remaining \cup entry[r].done
        BY <1>a, <3>1, <3>5 DEF UnpackedWhole
      <4> QED BY <3>3, <4>1
    <3> QED BY <1>3, <3>2, <3>4, <3>5
  <2>4. ASSUME NEW x \in Images, CancelUnpacking(x), entry'[r] # entry[r] PROVE FALSE
    <3>1. entry' = [entry EXCEPT ![x] = NoEntry]
      BY <2>4 DEF CancelUnpacking
    <3> QED BY <1>3, <1>b, <2>4, <3>1 DEF NoEntry
  <2>5. \/ entry' = entry
        \/ \E t \in tasks : Start(t) \/ UpdateCurrentlyUnpacked(t)
        \/ \E x \in Images : CancelUnpacking(x)
    BY <1>a DEF Step, Unpacking, Deleter, Upload, DeleteFirmware, ReDoAnalysis,
         DeleteRows, DeleteRequest, Receive, AnalysisTask, DeleterQuery, DeleterCheck, DeleterRemove,
         SetUnpackingLock, StoreFile, AddObject, Exists, InsertObject,
         UpdateObject, UpdateFirmware, UpdateFileObject, unpackVars
  <2> QED BY <2>1, <2>2, <2>3, <2>4, <2>5
<1> QED BY <1>1, <1>2, <1>3 DEF UnpackedWhole

\* A firmware that is not on its way has all its rows.
LEMMA CompleteImplies ==
    ASSUME TablesInv, CompleteInv
    PROVE  FirmwareIsComplete
<1> SUFFICES ASSUME NEW r \in (Images \cap db.is_firmware) \ Pending,
                    ~(Files[r] \subseteq hist.interrupted),
                    Files[r] \cap (hist.mixed \cup hist.raced) = {}
             PROVE  {<<r, u>> : u \in Files[r] \ {r}} \subseteq db.fw_files
  BY DEF FirmwareIsComplete
<1>1. r \in Images /\ UnpackedWhole(r)
  BY DEF CompleteInv, Calm
<1>2. ~entry[r].active
  BY <1>1 DEF TablesInv, EntryInv, Pending
<1>3. Whole(r)
  BY <1>1, <1>2 DEF UnpackedWhole
<1> QED BY <1>3 DEF Whole

(***************************************************************************)
(* What is left behind                                                     *)
(***************************************************************************)

\* A reason why a file may be left stays one.
LEMMA ExcusedGrows ==
    ASSUME Next
    PROVE  /\ \A u : Excused(u) => Excused(u)'
           /\ \A r : Quiet(r)' => Quiet(r)
<1>1. ASSUME NEW u, Excused(u) PROVE Excused(u)'
  BY <1>1, HistStep DEF Excused
<1> QED BY <1>1 DEF Quiet

\* The files of an image are excused together, when it is interrupted, ...
LEMMA QuietFacts ==
    ASSUME NEW r \in Images, Quiet(r)
    PROVE  /\ ~(Files[r] \subseteq hist.interrupted)
           /\ ~(Files[r] \subseteq hist.overlapped)
BY DEF Quiet, Excused

\* ... and a file that is not excused makes its image quiet.
LEMMA QuietFile ==
    ASSUME NEW r \in Images, NEW u \in Files[r], ~Excused(u)
    PROVE  Quiet(r)
BY DEF Quiet

\* A file that has its row for an image, or a reason why not, has a row or is excused.
LEMMA RowOrExcuse ==
    ASSUME TypeInv, MixedAreKnown, NEW r \in Images, NEW u \in Files[r], RowKept(r, u), ~Excused(u)
    PROVE  u \in db.file_object
<1>1. ~(Files[r] \subseteq hist.interrupted) /\ r \notin hist.mixed
  BY DEF Excused, OfMixed
<1>2. u \notin hist.mixed
  <2> SUFFICES ASSUME u \in hist.mixed PROVE FALSE
    OBVIOUS
  <2>1. u \in Images
    BY DEF MixedAreKnown
  <2>2. u \in Files[u]
    BY <2>1, FilesFacts
  <2> QED BY <2>2 DEF Excused, OfMixed
<1>3. Row(r, u)
  BY <1>1, <1>2 DEF RowKept
<1> QED BY <1>3 DEF Row, TypeInv, DbType

\* t2 is the same task, which has not forgotten what it found
Continues(t, t2) ==
    /\ t2.root = t.root /\ t2.uid = t.uid
    /\ t.phase # "queued" => t2.out = t.out /\ t2.todo \subseteq t.todo /\ t2.phase # "queued"

\* What becomes of a task of an image that is not interrupted: it stays, goes on, has its
\* row stored, is dropped or ends.
LEMMA TaskFate ==
    ASSUME TypeInv, WithinFiles, Next, NEW t \in tasks, ~(Files[t.root] \subseteq hist'.interrupted)
    PROVE  \/ t \in tasks'
           \/ /\ t.phase # "update"
              /\ \E t2 \in tasks' : Continues(t, t2) /\ t2.phase \notin {"queued", "update"}
           \/ /\ t.phase # "update" /\ t.uid \in db'.file_object
              /\ \E a \in analysing' : a.uid = t.uid
              /\ \E t2 \in tasks' : Continues(t, t2)
           \/ t.phase = "queued" /\ t.uid # t.root /\ ~entry[t.root].active
           \/ UpdateCurrentlyUnpacked(t)
<1>a. Step
  BY DEF Next
<1>1. CASE Start(t)
  <2>1. CASE t.uid # t.root /\ ~entry[t.root].active
    BY <1>1, <2>1, StartStep
  <2>2. CASE \E t2 : Turns(t, t2, "unpack", Found(t), t.at, Found(t)) /\ tasks' = (tasks \ {t}) \cup {t2}
    <3>1. PICK t2 : Turns(t, t2, "unpack", Found(t), t.at, Found(t)) /\ tasks' = (tasks \ {t}) \cup {t2}
      BY <2>2
    <3>2. t2 \in tasks' /\ Continues(t, t2) /\ t2.phase = "unpack" /\ t.phase = "queued"
      BY <1>1, <3>1, StartStep DEF Turns, Continues
    <3> QED BY <3>2
  <2> QED BY <1>1, <2>1, <2>2, StartStep
<1>2. ASSUME NEW c \in t.todo, SetUnpackingLock(t, c)
      PROVE  t.phase # "update"
             /\ \E t2 \in tasks' : Continues(t, t2) /\ t2.phase \notin {"queued", "update"}
  <2>1. PICK t2 : Turns(t, t2, "store", t.todo \ {c}, {c}, t.out) /\ tasks' = (tasks \ {t}) \cup {t2}
    BY <1>2, LockStep
  <2>2. t2 \in tasks' /\ Continues(t, t2) /\ t2.phase = "store" /\ t.phase = "unpack"
    BY <1>2, <2>1, LockStep DEF Turns, Continues
  <2> QED BY <2>2
<1>3. CASE StoreFile(t)
  <2>1. PICK t2 : Turns(t, t2, "unpack", t.todo, {}, t.out) /\ tasks' = (tasks \ {t}) \cup {t2}
    BY <1>3, StoreStep
  <2>2. t2 \in tasks' /\ Continues(t, t2) /\ t2.phase = "unpack" /\ t.phase = "store"
    BY <1>3, <2>1, StoreStep DEF Turns, Continues
  <2> QED BY <2>2
<1>4. CASE AddObject(t)
  <2>1. /\ t.phase \notin {"queued", "update"} /\ t \in TaskType /\ db \in Tables
        /\ Advances(t) \/ Stores(t) \/ Fails(t)
    BY <1>4, AddStep DEF TypeInv, DbType
  <2>2. CASE Advances(t)
    <3>1. PICK t2 : /\ tasks' = (tasks \ {t}) \cup {t2}
                    /\ \E p \in {"insert", "check", "change", "write"} :
                          Turns(t, t2, p, t.todo, t.at, t.out)
      BY <2>2 DEF Advances
    <3>2. t2 \in tasks' /\ Continues(t, t2) /\ t2.phase \notin {"queued", "update"}
      BY <3>1 DEF Turns, Continues
    <3> QED BY <2>1, <3>2
  <2>3. CASE Fails(t)
    BY <1>4, <2>1, <2>3, FailureInterrupts
  <2>4. CASE Stores(t)
    <3>1. PICK t2 : Turns(t, t2, "update", t.todo, t.at, t.out) /\ tasks' = (tasks \ {t}) \cup {t2}
      BY <2>4 DEF Stores
    <3>2. t2 \in tasks' /\ Continues(t, t2)
      BY <3>1 DEF Turns, Continues
    <3>3. db' = Stored(db, t) /\ [root |-> t.root, uid |-> t.uid] \in analysing'
      BY <2>4 DEF Stores
    <3>4. t.uid \in db'.file_object
      <4>1. db'.file_object = db.file_object \cup {t.uid}
        BY <2>1, <3>3, StoredFields
      <4> QED BY <4>1
    <3>5. \E a \in analysing' : a.uid = t.uid
      BY <3>3
    <3> QED BY <2>1, <3>2, <3>4, <3>5
  <2> QED BY <2>1, <2>2, <2>3, <2>4
<1>5. ASSUME NEW o \in tasks, o # t, \/ Start(o) \/ StoreFile(o) \/ AddObject(o)
                                     \/ UpdateCurrentlyUnpacked(o)
                                     \/ \E c \in o.todo : SetUnpackingLock(o, c)
      PROVE  t \in tasks'
  <2>1. tasks \ {o} \subseteq tasks'
    <3>1. CASE AddObject(o)
      BY <3>1, AddStep DEF Advances, Stores, Fails
    <3> QED BY <1>5, <3>1 DEF Start, StoreFile, UpdateCurrentlyUnpacked, SetUnpackingLock, Becomes
  <2> QED BY <1>5, <2>1
<1>6. tasks \subseteq tasks' \/ Unpacking
  BY <1>a DEF Step, Deleter, Upload, CancelUnpacking, DeleteFirmware, ReDoAnalysis, DeleteRequest,
       DeleteRows, AnalysisTask, DeleterQuery, DeleterCheck, DeleterRemove, unpackVars, Receive
<1> QED BY <1>1, <1>2, <1>3, <1>4, <1>5, <1>6 DEF Unpacking

\* A task that goes on stays the only one for its file.
LEMMA OneTaskTurns ==
    ASSUME NEW r \in Images, OneTaskEach(r), NEW t \in tasks, NEW t2, t2.root = t.root,
           t2.uid = t.uid, t2.phase # "queued", t.phase # "queued" \/ t.uid # r,
           tasks' = (tasks \ {t}) \cup {t2}, entry' = entry
    PROVE  OneTaskEach(r)'
<1>1. ASSUME NEW o \in tasks', o.root = r, ~(o.phase = "queued" /\ o.uid = r)
      PROVE  entry'[r].active /\ o.uid \in entry'[r].remaining
  <2>1. CASE o \in tasks
    BY <1>1, <2>1 DEF OneTaskEach
  <2>2. CASE o = t2
    BY <1>1, <2>2 DEF OneTaskEach
  <2> QED BY <2>1, <2>2
<1>2. ASSUME NEW o \in tasks', NEW p \in tasks', o.root = r, p.root = r,
             o.uid = p.uid \/ (o.uid = r /\ o.phase = "queued")
      PROVE  o = p
  <2>1. CASE o # t2 /\ p # t2
    BY <1>2, <2>1 DEF OneTaskEach
  <2>2. CASE o = t2 /\ p # t2
    BY <1>2, <2>2 DEF OneTaskEach
  <2>3. CASE o # t2 /\ p = t2
    BY <1>2, <2>3 DEF OneTaskEach
  <2> QED BY <2>1, <2>2, <2>3
<1> QED BY <1>1, <1>2 DEF OneTaskEach

\* An image that is not excused has one task for each of its files, and its entry lists it.
LEMMA OneTaskStep ==
    ASSUME TablesInv, LeakInv, Next, NEW r \in Images, Quiet(r)'
    PROVE  OneTaskEach(r)'
<1>a. Step /\ TypeInv /\ WithinFiles /\ EntryInv
  BY DEF Next, TablesInv
<1>b. /\ Quiet(r) /\ OneTaskEach(r)
      /\ ~(Files[r] \subseteq hist'.interrupted) /\ ~(Files[r] \subseteq hist'.overlapped)
  BY ExcusedGrows DEF LeakInv, Quiet, Excused
<1>c. entry \in [Images -> EntryType]
  BY <1>a DEF TypeInv
<1>d. \A t \in tasks : t \in TaskType /\ t.root \in Images /\ Shape(t)
  BY <1>a, TaskFields DEF TypeInv, WithinFiles
<1>0. ASSUME entry'[r] = entry[r], \A o : o.root = r => (o \in tasks' <=> o \in tasks)
      PROVE  OneTaskEach(r)'
  BY <1>0, <1>b DEF OneTaskEach
<1>1. ASSUME NEW t \in tasks, Start(t), t.root = r PROVE OneTaskEach(r)'
  <2>0. /\ t.phase = "queued"
        /\ entry' = IF t.uid = t.root /\ ~entry[t.root].active
                    THEN [entry EXCEPT ![t.root] =
                            [active |-> TRUE, remaining |-> {t.uid}, done |-> {}]]
                    ELSE entry
    BY <1>a, <1>1, StartStep
  <2>1. CASE t.uid = r
    <3>1. PICK t2 : Turns(t, t2, "unpack", Found(t), t.at, Found(t)) /\ tasks' = (tasks \ {t}) \cup {t2}
      BY <1>a, <1>1, <2>1, StartStep
    <3>2. entry'[r].active /\ r \in entry'[r].remaining
      <4>1. CASE ~entry[r].active
        BY <1>1, <1>c, <2>0, <2>1, <4>1
      <4>2. CASE entry[r].active
        <5>1. PICK u \in entry[r].remaining :
                 Files[r] \subseteq hist.interrupted \/ \E o \in tasks : o.root = r /\ o.uid = u
          BY <1>a, <4>2 DEF EntryInv
        <5>2. PICK o \in tasks : o.root = r /\ o.uid = u
          BY <1>b, <5>1, QuietFacts
        <5>3. o = t
          BY <1>1, <1>b, <2>0, <2>1, <5>2 DEF OneTaskEach
        <5> QED BY <1>1, <2>0, <2>1, <4>2, <5>1, <5>2, <5>3
      <4> QED BY <4>1, <4>2
    <3>3. \A o \in tasks' : o.root = r => o = t2
      BY <1>1, <1>b, <2>0, <2>1, <3>1 DEF OneTaskEach
    <3> QED BY <2>1, <3>1, <3>2, <3>3 DEF OneTaskEach, Turns
  <2>2. CASE t.uid # r
    <3>1. entry[r].active
      BY <1>1, <1>b, <2>2 DEF OneTaskEach
    <3>2. PICK t2 : Turns(t, t2, "unpack", Found(t), t.at, Found(t)) /\ tasks' = (tasks \ {t}) \cup {t2}
      BY <1>a, <1>1, <3>1, StartStep
    <3>3. t2.root = t.root /\ t2.uid = t.uid /\ t2.phase # "queued" /\ entry' = entry
      BY <1>1, <2>0, <2>2, <3>2 DEF Turns
    <3> QED BY <1>b, <2>2, <3>2, <3>3, OneTaskTurns
  <2> QED BY <2>1, <2>2
<1>2. ASSUME NEW t \in tasks, NEW c \in t.todo, SetUnpackingLock(t, c) PROVE OneTaskEach(r)'
  <2>1. t.phase = "unpack" /\ entry' = entry
        /\ \E t2 : Turns(t, t2, "store", t.todo \ {c}, {c}, t.out) /\ tasks' = (tasks \ {t}) \cup {t2}
    BY <1>a, <1>2, LockStep
  <2>2. \E t2 : /\ tasks' = (tasks \ {t}) \cup {t2} /\ t2.root = t.root /\ t2.uid = t.uid
                /\ t2.phase # "queued"
    BY <2>1 DEF Turns
  <2> QED BY <1>b, <2>1, <2>2, OneTaskTurns
<1>3. ASSUME NEW t \in tasks, StoreFile(t) PROVE OneTaskEach(r)'
  <2>1. t.phase = "store" /\ entry' = entry
        /\ \E t2 : Turns(t, t2, "unpack", t.todo, {}, t.out) /\ tasks' = (tasks \ {t}) \cup {t2}
    BY <1>a, <1>3, StoreStep
  <2>2. \E t2 : /\ tasks' = (tasks \ {t}) \cup {t2} /\ t2.root = t.root /\ t2.uid = t.uid
                /\ t2.phase # "queued"
    BY <2>1 DEF Turns
  <2> QED BY <1>b, <2>1, <2>2, OneTaskTurns
<1>4. ASSUME NEW t \in tasks, AddObject(t) PROVE OneTaskEach(r)'
  <2>1. t.phase # "queued" /\ entry' = entry /\ (Advances(t) \/ Stores(t) \/ Fails(t))
    BY <1>a, <1>4, AddStep
  <2>2. CASE \E t2 : /\ tasks' = (tasks \ {t}) \cup {t2} /\ t2.root = t.root /\ t2.uid = t.uid
                     /\ t2.phase # "queued"
    BY <1>b, <2>1, <2>2, OneTaskTurns
  <2>3. CASE Fails(t) /\ tasks' = tasks \ {t}
    <3>1. t.root # r
      BY <1>4, <1>a, <1>b, <1>d, <2>3, FailureInterrupts
    <3> QED BY <1>0, <2>1, <2>3, <3>1
  <2> QED BY <2>1, <2>2, <2>3 DEF Advances, Stores, Fails, Turns
<1>5. ASSUME NEW t \in tasks, UpdateCurrentlyUnpacked(t), t.root = r PROVE OneTaskEach(r)'
  <2>0. /\ t.phase = "update"
        /\ tasks' = (tasks \ {t}) \cup {Task(t.root, c, t.uid) : c \in New(t)}
        /\ New(t) \subseteq t.out
        /\ \/ ~entry[t.root].active /\ entry' = entry
           \/ entry[t.root].active /\ Left(t) = {} /\ entry' = [entry EXCEPT ![t.root] = NoEntry]
           \/ /\ entry[t.root].active /\ Left(t) # {}
              /\ entry' = [entry EXCEPT ![t.root] =
                    [active |-> TRUE, remaining |-> Left(t),
                     done |-> entry[t.root].done \cup {t.uid}]]
    BY <1>a, <1>5, UpdateStep
  <2>1. entry[r].active /\ t.uid \in entry[r].remaining
    BY <1>5, <1>b, <2>0 DEF OneTaskEach
  <2>2. \A c \in New(t) : c # t.uid /\ c \in Left(t) /\ c \notin entry[r].remaining /\ c # r
    <3>1. \A c \in New(t) : c # t.uid /\ c \in Left(t) /\ c \notin entry[r].remaining \cup entry[r].done
      BY <1>5, <1>d, <2>0, <2>1 DEF Shape, Left, New
    <3>2. r \in entry[r].remaining \cup entry[r].done
      BY <1>a, <2>1 DEF EntryInv
    <3> QED BY <3>1, <3>2
  <2>3. ASSUME NEW o \in tasks, o # t, o.root = r
        PROVE  o.uid \in entry[r].remaining /\ o.uid # t.uid /\ ~(o.phase = "queued" /\ o.uid = r)
               /\ o.uid \in Left(t)
    <3>1. o.uid # t.uid /\ ~(o.phase = "queued" /\ o.uid = r)
      BY <1>5, <1>b, <2>3 DEF OneTaskEach
    <3>2. o.uid \in entry[r].remaining
      BY <1>b, <2>3, <3>1 DEF OneTaskEach
    <3> QED BY <1>5, <3>1, <3>2 DEF Left
  <2>4. ASSUME NEW o \in tasks', o.root = r
        PROVE  \/ o \in tasks /\ o # t
               \/ \E c \in New(t) : o = Task(r, c, t.uid) /\ o.uid = c
    <3>1. CASE o \in tasks \ {t}
      BY <3>1
    <3>2. CASE o \notin tasks \ {t}
      <4>1. PICK c \in New(t) : o = Task(t.root, c, t.uid)
        BY <2>0, <2>4, <3>2
      <4> QED BY <1>5, <4>1 DEF Task
    <3> QED BY <3>1, <3>2
  <2>5. CASE Left(t) = {}
    <3>1. \A o \in tasks' : o.root # r
      BY <2>2, <2>3, <2>4, <2>5
    <3> QED BY <3>1 DEF OneTaskEach
  <2>6. CASE Left(t) # {}
    <3>1. entry'[r].active /\ entry'[r].remaining = Left(t)
      BY <1>5, <1>c, <2>0, <2>1, <2>6
    <3>2. \A o \in tasks' : o.root = r => o.uid \in Left(t) /\ ~(o.phase = "queued" /\ o.uid = r)
      BY <2>2, <2>3, <2>4
    <3>3. ASSUME NEW o \in tasks', NEW p \in tasks', o.root = r, p.root = r, o.uid = p.uid
          PROVE  o = p
      <4>1. CASE o \in tasks /\ o # t /\ p \in tasks
        BY <1>b, <3>3, <4>1 DEF OneTaskEach
      <4>2. CASE o \in tasks /\ o # t /\ p \notin tasks
        BY <2>2, <2>3, <2>4, <3>3, <4>2
      <4>3. CASE ~(o \in tasks /\ o # t)
        <5>1. o.uid \notin entry[r].remaining /\ o = Task(r, o.uid, t.uid)
          BY <2>2, <2>4, <3>3, <4>3
        <5>2. ~(p \in tasks /\ p # t)
          BY <2>3, <3>3, <5>1
        <5>3. p = Task(r, p.uid, t.uid)
          BY <2>4, <3>3, <5>2
        <5> QED BY <3>3, <5>1, <5>3
      <4> QED BY <4>1, <4>2, <4>3
    <3> QED BY <3>1, <3>2, <3>3 DEF OneTaskEach
  <2> QED BY <2>5, <2>6
<1>6. ASSUME NEW s \in submitted, Receive(s) PROVE OneTaskEach(r)'
  <2> DEFINE n == Task(s.uid, s.uid, s.uid)
  <2>0. tasks' = tasks \cup {n} /\ entry' = entry /\ n.root = s.uid /\ n.uid = s.uid /\ n.phase = "queued"
    BY <1>6 DEF Receive, Task
  <2> HIDE DEF n
  <2>1. CASE n \in tasks \/ s.uid # r
    BY <1>0, <2>0, <2>1
  <2>2. CASE n \notin tasks /\ s.uid = r
    <3>1. ASSUME NEW o \in tasks, o.root = r PROVE FALSE
      <4>1. Files[r] \subseteq Overlapped
        BY <2>0, <2>2, <3>1 DEF Overlapped, IsFirmware
      <4> QED BY <1>b, <4>1, HistStep
    <3>2. \A o \in tasks' : o.root = r => o = n
      BY <2>0, <3>1
    <3> QED BY <2>0, <2>2, <3>2 DEF OneTaskEach
  <2> QED BY <2>1, <2>2
<1>7. ASSUME NEW x \in Images, CancelUnpacking(x) PROVE OneTaskEach(r)'
  <2>1. tasks' = tasks /\ entry' = [entry EXCEPT ![x] = NoEntry]
    BY <1>7 DEF CancelUnpacking
  <2>2. x # r
    BY <1>7, <1>a, <1>b, CancelInterrupts
  <2> QED BY <1>0, <1>c, <2>1, <2>2
<1>8. ASSUME NEW t \in tasks, Start(t), t.root # r PROVE OneTaskEach(r)'
  <2>1. entry'[r] = entry[r]
    BY <1>8, <1>a, <1>c, StartStep
  <2>2. \/ tasks' = tasks \ {t}
        \/ \E t2 : t2.root # r /\ tasks' = (tasks \ {t}) \cup {t2}
    BY <1>8, <1>a, StartStep DEF Turns
  <2> QED BY <1>0, <1>8, <2>1, <2>2
<1>9. ASSUME NEW t \in tasks, UpdateCurrentlyUnpacked(t), t.root # r PROVE OneTaskEach(r)'
  <2>0. /\ tasks' = (tasks \ {t}) \cup {Task(t.root, c, t.uid) : c \in New(t)}
        /\ \/ entry' = entry
           \/ \E e : entry' = [entry EXCEPT ![t.root] = e]
    BY <1>a, <1>9, UpdateStep
  <2>1. entry'[r] = entry[r]
    BY <1>9, <1>c, <2>0
  <2>2. \A c : Task(t.root, c, t.uid).root = t.root
    BY DEF Task
  <2>3. ASSUME NEW o, o.root = r PROVE o \in tasks' <=> o \in tasks
    BY <1>9, <2>0, <2>2, <2>3
  <2> QED BY <1>0, <2>1, <2>3
<1>10. UNCHANGED <<entry, tasks>> \/ Unpacking \/ (\E s \in submitted : Receive(s))
       \/ \E x \in Images : CancelUnpacking(x)
  BY <1>a DEF Step, Deleter, Upload, DeleteFirmware, ReDoAnalysis, DeleteRequest,
       DeleteRows, AnalysisTask, DeleterQuery, DeleterCheck, DeleterRemove, unpackVars
<1> QED BY <1>0, <1>1, <1>2, <1>3, <1>4, <1>5, <1>6, <1>7, <1>8, <1>9, <1>10 DEF Unpacking

\* A task of a file that is not excused is not dropped.
LEMMA NotDropped ==
    ASSUME LeakInv, NEW t \in tasks, t.root \in Images, NEW u \in Files[t.root], ~Excused(u),
           ~(t.phase = "queued" /\ t.uid = t.root)
    PROVE  entry[t.root].active /\ t.uid \in entry[t.root].remaining
BY QuietFile DEF LeakInv, OneTaskEach

\* A file whose row is still to be stored has a task until it is.
LEMMA FileComes ==
    ASSUME TablesInv, LeakInv, Next, NEW u, ~Excused(u)', NEW t \in tasks, t.uid = u,
           t.phase # "update"
    PROVE  \/ \E t2 \in tasks' : t2.uid = u /\ t2.phase # "update"
           \/ u \in db'.file_object /\ \E a \in analysing' : a.uid = u
<1>a. TypeInv /\ WithinFiles
  BY DEF TablesInv
<1>b. t.root \in Images /\ u \in Files[t.root]
  BY <1>a, TaskFields DEF TypeInv, WithinFiles, Shape
<1>c. ~Excused(u) /\ ~(Files[t.root] \subseteq hist'.interrupted)
  BY <1>b, ExcusedGrows DEF Excused
<1>1. ~(t.phase = "queued" /\ t.uid # t.root /\ ~entry[t.root].active)
  BY <1>b, <1>c, NotDropped
<1>2. ~UpdateCurrentlyUnpacked(t)
  BY DEF UpdateCurrentlyUnpacked
<1> QED BY <1>a, <1>c, <1>1, <1>2, TaskFate DEF Continues

\* What a task found is not forgotten until the task ends.
LEMMA FoundStays ==
    ASSUME TablesInv, LeakInv, Next, NEW u, ~Excused(u)', NEW t \in tasks, u \in t.out
    PROVE  /\ t.root \in Images /\ u \in Files[t.root] /\ u # t.uid /\ t.phase # "queued"
           /\ entry[t.root].active /\ t.uid \in entry[t.root].remaining
           /\ \/ \E t2 \in tasks' : t2.root = t.root /\ t2.out = t.out /\ t2.todo \subseteq t.todo
              \/ UpdateCurrentlyUnpacked(t)
<1>a. TypeInv /\ WithinFiles
  BY DEF TablesInv
<1>b. t.root \in Images /\ u \in Files[t.root] /\ u # t.uid /\ t.phase # "queued"
  BY <1>a, TaskFields DEF TypeInv, WithinFiles, Shape
<1>c. ~Excused(u) /\ ~(Files[t.root] \subseteq hist'.interrupted)
  BY <1>b, ExcusedGrows DEF Excused
<1>1. entry[t.root].active /\ t.uid \in entry[t.root].remaining
  BY <1>b, <1>c, NotDropped
<1>2. \/ \E t2 \in tasks' : t2.root = t.root /\ t2.out = t.out /\ t2.todo \subseteq t.todo
      \/ UpdateCurrentlyUnpacked(t)
  BY <1>a, <1>b, <1>c, TaskFate DEF Continues
<1> QED BY <1>b, <1>1, <1>2

\* A lock is set for a file whose row is still to be stored, or the file is excused.
LEMMA NewLock ==
    ASSUME TablesInv, LeakInv, Next, NEW t \in tasks, NEW c \in t.todo, SetUnpackingLock(t, c),
           ~Excused(c)'
    PROVE  Comes(c)'
<1>a. TypeInv /\ WithinFiles /\ EntryInv
  BY DEF TablesInv
<1>b. c \in t.out
  BY <1>a DEF WithinFiles, Shape
<1>c. /\ t.root \in Images /\ c # t.uid /\ entry[t.root].active
      /\ ~(Files[t.root] \subseteq hist.interrupted)
  <2>1. t.root \in Images /\ c \in Files[t.root] /\ c # t.uid /\ entry[t.root].active
    BY <1>b, FoundStays
  <2> QED BY <2>1, ExcusedGrows DEF Excused
<1>1. /\ t.phase = "unpack" /\ locks' = locks \cup {c} /\ entry' = entry
      /\ \E t2 : Turns(t, t2, "store", t.todo \ {c}, {c}, t.out) /\ tasks' = (tasks \ {t}) \cup {t2}
  BY <1>a, LockStep
<1>2. PICK t2 : Turns(t, t2, "store", t.todo \ {c}, {c}, t.out) /\ tasks' = (tasks \ {t}) \cup {t2}
  BY <1>1
<1>3. t \notin tasks' /\ t2 \in tasks'
  BY <1>1, <1>2 DEF Turns
<1>4. c \notin Refound
  BY HistStep DEF Excused
<1>5. /\ c \notin entry[t.root].done
      /\ \A o \in tasks : o.root = t.root /\ o.uid = c => o.phase # "update"
  BY <1>1, <1>3, <1>4 DEF Refound
<1>6. CASE c \in entry[t.root].remaining
  <2>1. PICK o \in tasks : o.root = t.root /\ o.uid = c
    BY <1>a, <1>c, <1>6 DEF EntryInv
  <2>2. o \in tasks' /\ o.phase # "update"
    BY <1>2, <1>5, <1>c, <2>1
  <2> QED BY <2>1, <2>2 DEF Comes
<1>7. CASE c \notin entry[t.root].remaining
  <2>1. t2.root = t.root /\ c \in t2.out \ t2.todo
    BY <1>2, <1>b DEF Turns
  <2>2. c \notin entry'[t2.root].remaining \cup entry'[t2.root].done
    BY <1>1, <1>5, <1>7, <2>1
  <2> QED BY <1>3, <2>1, <2>2 DEF Comes
<1> QED BY <1>6, <1>7

\* A file that was found and is not known to its entry gets a task of its own.
LEMMA FoundComes ==
    ASSUME TablesInv, LeakInv, Next, NEW u, ~Excused(u)', NEW t \in tasks, u \in t.out \ t.todo,
           u \notin entry[t.root].remaining \cup entry[t.root].done
    PROVE  Comes(u)'
<1>a. Step /\ TypeInv /\ WithinFiles
  BY DEF Next, TablesInv
<1> DEFINE r == t.root
<1>b. /\ r \in Images /\ u \in Files[r] /\ u # t.uid /\ t.phase # "queued"
      /\ entry[r].active /\ t.uid \in entry[r].remaining
      /\ \/ \E t2 \in tasks' : t2.root = r /\ t2.out = t.out /\ t2.todo \subseteq t.todo
         \/ UpdateCurrentlyUnpacked(t)
  BY FoundStays
<1>c. /\ ~Excused(u) /\ ~(Files[r] \subseteq hist'.interrupted) /\ OneTaskEach(r)
  BY <1>b, ExcusedGrows, QuietFile DEF Excused, LeakInv
<1>d. entry \in [Images -> EntryType]
  BY <1>a DEF TypeInv
<1>e. ASSUME NEW o \in tasks, UpdateCurrentlyUnpacked(o), o.root = r, u \in New(o) PROVE Comes(u)'
  <2>1. tasks' = (tasks \ {o}) \cup {Task(o.root, c, o.uid) : c \in New(o)}
    BY <1>a, <1>e, UpdateStep
  <2>2. Task(o.root, u, o.uid) \in tasks'
    BY <1>e, <2>1
  <2> QED BY <2>2 DEF Comes, Task
<1>1. CASE UpdateCurrentlyUnpacked(t)
  <2>1. u \in New(t)
    BY <1>b DEF New
  <2> QED BY <1>1, <1>e, <2>1
<1>2. CASE ~UpdateCurrentlyUnpacked(t)
  <2>1. PICK t2 \in tasks' : t2.root = r /\ t2.out = t.out /\ t2.todo \subseteq t.todo
    BY <1>2, <1>b
  <2>2. ASSUME u \notin entry'[r].remaining \cup entry'[r].done PROVE Comes(u)'
    BY <2>1, <2>2 DEF Comes
  <2>3. CASE entry'[r] = entry[r]
    BY <2>2, <2>3
  <2>4. ASSUME NEW o \in tasks, Start(o), entry'[r] # entry[r] PROVE FALSE
    <3>0. o.phase = "queued" /\ entry' = IF o.uid = o.root /\ ~entry[o.root].active
            THEN [entry EXCEPT ![o.root] = [active |-> TRUE, remaining |-> {o.uid}, done |-> {}]]
            ELSE entry
      BY <1>a, <2>4, StartStep
    <3>1. o.phase = "queued" /\ o.uid = r /\ o.root = r
      BY <1>b, <1>d, <2>4, <3>0
    <3>2. o = t
      BY <1>c, <3>1 DEF OneTaskEach
    <3> QED BY <1>b, <3>1, <3>2
  <2>5. ASSUME NEW o \in tasks, UpdateCurrentlyUnpacked(o), entry'[r] # entry[r] PROVE Comes(u)'
    <3>0. /\ o.phase = "update"
          /\ \/ ~entry[o.root].active /\ entry' = entry
             \/ entry[o.root].active /\ Left(o) = {} /\ entry' = [entry EXCEPT ![o.root] = NoEntry]
             \/ /\ entry[o.root].active /\ Left(o) # {}
                /\ entry' = [entry EXCEPT ![o.root] =
                      [active |-> TRUE, remaining |-> Left(o),
                       done |-> entry[o.root].done \cup {o.uid}]]
      BY <1>a, <2>5, UpdateStep
    <3>1. o.root = r
      BY <1>b, <1>d, <2>5, <3>0
    <3>2. CASE u \in New(o)
      BY <1>e, <2>5, <3>1, <3>2
    <3>3. CASE u \notin New(o)
      <4>1. o.uid \in entry[r].remaining
        BY <1>c, <3>0, <3>1 DEF OneTaskEach
      <4>2. u # o.uid /\ u \notin Left(o)
        BY <3>1, <3>3, <4>1 DEF Left
      <4>3. u \notin entry'[r].remaining \cup entry'[r].done
        BY <1>b, <1>d, <3>0, <3>1, <4>2 DEF NoEntry
      <4> QED BY <2>2, <4>3
    <3> QED BY <3>2, <3>3
  <2>6. ASSUME NEW x \in Images, CancelUnpacking(x) PROVE entry'[r] = entry[r]
    <3>1. entry' = [entry EXCEPT ![x] = NoEntry]
      BY <2>6 DEF CancelUnpacking
    <3>2. x # r
      BY <1>a, <1>c, <2>6, CancelInterrupts
    <3> QED BY <1>b, <1>d, <3>1, <3>2
  <2>7. \/ entry' = entry
        \/ \E o \in tasks : Start(o) \/ UpdateCurrentlyUnpacked(o)
        \/ \E x \in Images : CancelUnpacking(x)
    BY <1>a DEF Step, Unpacking, Deleter, Upload, DeleteFirmware, ReDoAnalysis,
         DeleteRows, DeleteRequest, Receive, AnalysisTask, DeleterQuery, DeleterCheck, DeleterRemove,
         SetUnpackingLock, StoreFile, AddObject, Exists, InsertObject,
         UpdateObject, UpdateFirmware, UpdateFileObject, unpackVars
  <2> QED BY <2>3, <2>4, <2>5, <2>6, <2>7
<1> QED BY <1>1, <1>2

\* A lock belongs to a file that is still to be analysed, or excused.
LEMMA LocksStep ==
    ASSUME TablesInv, LeakInv, Next
    PROVE  LocksAreReleased'
<1> SUFFICES ASSUME NEW u \in locks', ~Excused(u)', ~(\E a \in analysing' : a.uid = u)
             PROVE  Comes(u)'
  BY DEF LocksAreReleased
<1>a. Step /\ TypeInv /\ ~Excused(u)
  BY ExcusedGrows DEF Next, TablesInv
<1>1. CASE u \notin locks
  <2>1. PICK t \in tasks : \E c \in t.todo : SetUnpackingLock(t, c) /\ u = c
    BY <1>1, <1>a DEF Step, Unpacking, Deleter, Upload, CancelUnpacking, DeleteFirmware,
         ReDoAnalysis, DeleteRows, DeleteRequest, Receive, AnalysisTask, DeleterQuery, DeleterCheck,
         DeleterRemove, Start, SetUnpackingLock, StoreFile, AddObject, Exists, InsertObject,
         UpdateObject, UpdateFirmware, UpdateFileObject, UpdateCurrentlyUnpacked
  <2> QED BY <2>1, NewLock
<1>2. CASE u \in locks
  <2>1. ASSUME NEW a \in analysing, a.uid = u PROVE FALSE
    <3>1. a \notin analysing'
      BY <2>1
    <3>2. PICK b \in analysing : AnalysisTask(b)
      <4>1. ASSUME NEW t \in tasks, AddObject(t) PROVE analysing \subseteq analysing'
        BY <1>a, <4>1, AddStep DEF Advances, Stores, Fails
      <4> QED BY <1>a, <3>1, <4>1 DEF Step, Unpacking, Deleter, Upload, CancelUnpacking,
         DeleteFirmware, ReDoAnalysis, DeleteRows, DeleteRequest, Receive, DeleterQuery,
         DeleterCheck, DeleterRemove, Start, SetUnpackingLock, StoreFile, UpdateCurrentlyUnpacked,
         unpackVars
    <3>3. b = a /\ locks' = locks \ {b.uid}
      BY <3>1, <3>2 DEF AnalysisTask
    <3> QED BY <2>1, <3>3
  <2>2. Comes(u)
    BY <1>2, <1>a, <2>1 DEF LeakInv, LocksAreReleased
  <2>3. ASSUME NEW t \in tasks, t.uid = u, t.phase # "update" PROVE Comes(u)'
    BY <2>3, FileComes DEF Comes
  <2>4. ASSUME NEW t \in tasks, u \in t.out \ t.todo,
               u \notin entry[t.root].remaining \cup entry[t.root].done
        PROVE  Comes(u)'
    BY <2>4, FoundComes
  <2> QED BY <2>2, <2>3, <2>4 DEF Comes
<1> QED BY <1>1, <1>2

\* A file that is not in the store yet has a task when it gets there.
LEMMA NewContent ==
    ASSUME TablesInv, Step, NEW u \in content', u \notin content
    PROVE  Known(u)'
<1>a. TypeInv /\ WithinFiles
  BY DEF TablesInv
<1>1. ASSUME NEW s \in submitted, Receive(s) PROVE Known(u)'
  <2>1. u = s.uid /\ Task(s.uid, s.uid, s.uid) \in tasks'
    BY <1>1 DEF Receive
  <2> QED BY <2>1 DEF Task, Known
<1>2. ASSUME NEW t \in tasks, StoreFile(t) PROVE Known(u)'
  <2>1. PICK t2 : Turns(t, t2, "unpack", t.todo, {}, t.out) /\ tasks' = (tasks \ {t}) \cup {t2}
    BY <1>a, <1>2, StoreStep
  <2>2. u \in t.at
    BY <1>2 DEF StoreFile
  <2>3. t2 \in tasks' /\ u \in t2.out
    BY <1>a, <2>1, <2>2 DEF Turns, WithinFiles, Shape
  <2> QED BY <2>3 DEF Known
<1>3. content' \subseteq content \/ (\E s \in submitted : Receive(s)) \/ \E t \in tasks : StoreFile(t)
  BY DEF Step, Unpacking, Deleter, Upload, CancelUnpacking, DeleteFirmware,
     ReDoAnalysis, DeleteRows, DeleteRequest, AnalysisTask, DeleterQuery, DeleterCheck,
     DeleterRemove, Start, SetUnpackingLock, AddObject, Exists, InsertObject,
         UpdateObject, UpdateFirmware, UpdateFileObject, UpdateCurrentlyUnpacked
<1> QED BY <1>1, <1>2, <1>3

\* A file that loses its row is known to the process that deletes its image.
LEMMA LostRow ==
    ASSUME TablesInv, Next, NEW u \in db.file_object, u \notin db'.file_object, ~Excused(u)
    PROVE  Known(u)'
<1>a. Step /\ TypeInv /\ WithinFiles /\ NoOrphans /\ AdminInv /\ db \in Tables
  BY DEF Next, TablesInv, TypeInv, DbType
<1>b. u \in Uids
  BY <1>a DEF Tables, FileObjectTable
<1>1. ASSUME NEW t \in tasks, db' = Stored(db, t) PROVE FALSE
  <2>1. t \in TaskType
    BY <1>a DEF TypeInv
  <2>2. db'.file_object = db.file_object \cup {t.uid}
    BY <1>1, <1>a, <2>1, StoredFields
  <2> QED BY <2>2
<1>2. PICK x \in Images : DeleteRows(x)
  BY <1>a, <1>1, DbSteps
<1>3. /\ x \in Uids /\ db' = DeleteObject(db, x) /\ admin.phase = "rows" /\ admin.uid = {x}
      /\ admin'.phase = "request" /\ admin'.uid = {x} /\ admin'.included = admin.included
  BY <1>2, <1>a, StoreConstants DEF DeleteRows, TypeInv, AdminType
<1>4. PICK gone \in SUBSET Uids : Deleted(db, db', x, gone)
  BY <1>a, <1>3, DeleteObjectIs
<1>5. CASE u = x
  BY <1>3, <1>5 DEF Known
<1>6. CASE u # x
  <2>1. u \in gone
    BY <1>4 DEF Deleted
  <2>2. u \notin db.is_firmware /\ \A r \in Uids : <<r, u>> \in db.fw_files => r = x
    BY <1>4, <1>6, <2>1 DEF Deleted
  <2>3. <<x, u>> \in db.fw_files
    <3>1. RootFirmware(db, u) \cap db.firmware # {}
      BY <1>a, <2>2 DEF NoOrphans, Excused
    <3> QED BY <2>2, <3>1 DEF RootFirmware
  <2>4. u \in AllFilesInFw(db, x) /\ u \in Files[x]
    BY <1>3, <1>a, <1>b, <2>3 DEF AllFilesInFw, WithinFiles
  <2>5. u \in admin.included
    BY <1>3, <1>a, <2>4 DEF AdminInv, Excused
  <2> QED BY <1>3, <2>5 DEF Known
<1> QED BY <1>5, <1>6

\* A file that was found, or has a task, is known until it has its row.
LEMMA FoundIsKnown ==
    ASSUME TablesInv, LeakInv, Next, NEW u, u \notin db.file_object, ~Excused(u)',
           NEW t \in tasks, u \in t.out
    PROVE  Known(u)'
<1>a. TypeInv /\ MixedAreKnown /\ EntryInv /\ RowsKept /\ ~Excused(u)
  BY ExcusedGrows DEF TablesInv
<1> DEFINE r == t.root
<1>b. /\ r \in Images /\ u \in Files[r] /\ u # t.uid
      /\ entry[r].active /\ t.uid \in entry[r].remaining
      /\ \/ \E t2 \in tasks' : t2.root = r /\ t2.out = t.out /\ t2.todo \subseteq t.todo
         \/ UpdateCurrentlyUnpacked(t)
  BY FoundStays
<1>1. CASE \E t2 \in tasks' : t2.out = t.out
  BY <1>1 DEF Known
<1>2. CASE UpdateCurrentlyUnpacked(t)
  <2>0. tasks' = (tasks \ {t}) \cup {Task(t.root, c, t.uid) : c \in New(t)}
    BY <1>2, <1>a, UpdateStep
  <2>1. CASE u \in New(t)
    <3>1. Task(t.root, u, t.uid) \in tasks'
      BY <2>0, <2>1
    <3> QED BY <3>1 DEF Known, Task
  <2>2. CASE u \in entry[r].remaining
    <3>1. PICK o \in tasks : o.root = r /\ o.uid = u
      BY <1>a, <1>b, <2>2 DEF EntryInv, Excused
    <3>2. o.phase # "update"
      <4> SUFFICES ASSUME o.phase = "update" PROVE FALSE
        OBVIOUS
      <4>1. RowKept(r, u)
        BY <1>a, <3>1 DEF RowsKept
      <4> QED BY <1>a, <1>b, <4>1, RowOrExcuse
    <3>3. o \in tasks'
      BY <1>b, <2>0, <3>1
    <3> QED BY <3>1, <3>2, <3>3 DEF Known
  <2>3. CASE u \in entry[r].done
    <3>1. RowKept(r, u)
      BY <1>a, <1>b, <2>3 DEF RowsKept
    <3> QED BY <1>a, <1>b, <3>1, RowOrExcuse
  <2> QED BY <1>b, <2>1, <2>2, <2>3 DEF New
<1> QED BY <1>1, <1>2, <1>b

\* What the process that deletes knows is passed on to the listener or submitted again.
LEMMA AdminPassesOn ==
    ASSUME TypeInv, AdminInv, Step, NEW u, u \notin db.file_object,
           admin.phase # "idle", u \in admin.included \cup admin.uid
    PROVE  Known(u)'
<1>1. CASE admin' = admin
  BY <1>1 DEF Known
<1>2. ASSUME NEW x \in Images, DeleteFirmware(x) \/ ReDoAnalysis(x) PROVE FALSE
  BY <1>2 DEF DeleteFirmware, ReDoAnalysis, FindFirmware
<1>3. ASSUME NEW x \in Images, DeleteRows(x) PROVE Known(u)'
  <2>1. admin'.phase = "request" /\ admin'.uid = admin.uid /\ admin'.included = admin.included
    BY <1>3 DEF DeleteRows, TypeInv, AdminType
  <2> QED BY <2>1 DEF Known
<1>4. CASE DeleteRequest
  <2>1. /\ admin.phase = "request" /\ requests' = Append(requests, UidsToDelete)
        /\ submitted' = IF admin.root # {} THEN submitted
             ELSE submitted \cup {[uid |-> v, kind |-> "re_analyze_task"] : v \in admin.uid}
    BY <1>4 DEF DeleteRequest
  <2>2. UidsToDelete \in SUBSET Uids
    BY StoreConstants DEF UidsToDelete, TypeInv, AdminType
  <2>3. Asked' = Asked \cup UidsToDelete
    BY <2>1, <2>2, AskedFacts DEF TypeInv
  <2>4. PICK r \in Images : admin.uid = {r} /\ (admin.root = {} \/ admin.root = {r})
    BY DEF AdminInv
  <2>5. CASE u \in UidsToDelete
    BY <2>3, <2>5 DEF Known
  <2>6. CASE u \notin UidsToDelete
    <3>1. u = r /\ admin.root = {}
      BY <2>4, <2>6 DEF UidsToDelete
    <3>2. [uid |-> u, kind |-> "re_analyze_task"] \in submitted'
      BY <2>1, <2>4, <3>1
    <3> QED BY <3>2 DEF Known
  <2> QED BY <2>5, <2>6
<1>5. \/ admin' = admin \/ DeleteRequest
      \/ \E r \in Images : DeleteFirmware(r) \/ ReDoAnalysis(r) \/ DeleteRows(r)
  BY DEF Step, Unpacking, Deleter, Upload, CancelUnpacking, Receive, AnalysisTask, DeleterQuery,
       DeleterCheck, DeleterRemove, Start, SetUnpackingLock, StoreFile, AddObject, Exists, InsertObject,
         UpdateObject, UpdateFirmware, UpdateFileObject,
       UpdateCurrentlyUnpacked
<1> QED BY <1>1, <1>2, <1>3, <1>4, <1>5

\* The listener removes a file that nobody needs, or it was locked by someone who does.
LEMMA ListenerGoesOn ==
    ASSUME TablesInv, LeakInv, Next, NEW u \in content', u \notin db.file_object, ~Excused(u)',
           u \in Asked \/ u \in deleter.removing \/ u \in deleter.task \ deleter.uids_in_db
    PROVE  Known(u)'
<1>a. Step /\ TypeInv /\ WithinFiles /\ MixedAreKnown /\ RowsKept /\ ~Excused(u)
  BY ExcusedGrows DEF Next, TablesInv
<1>1. CASE DeleterQuery
  <2>1. /\ Asked = Asked' \cup Batch' /\ Batch = {} /\ deleter'.task = Batch'
        /\ deleter'.uids_in_db \subseteq db.file_object
    <3>1. /\ deleter = NoDeleter /\ requests # <<>> /\ requests' = Tail(requests)
          /\ deleter' = [task |-> Head(requests), uids_in_db |-> Head(requests) \cap db.file_object,
                         removing |-> {}]
      BY <1>1 DEF DeleterQuery
    <3>2. Asked = Asked' \cup Head(requests)
      BY <1>a, <3>1, AskedFacts DEF TypeInv
    <3> QED BY <3>1, <3>2 DEF Batch, NoDeleter
  <2> QED BY <2>1 DEF Known, Batch
<1>2. CASE UNCHANGED deleter
  <2>1. CASE UNCHANGED requests
    BY <1>2, <2>1 DEF Known, Asked
  <2>2. CASE DeleteRequest
    <3>1. UidsToDelete \in SUBSET Uids
      BY <1>a, StoreConstants DEF UidsToDelete, TypeInv, AdminType
    <3>2. Asked' = Asked \cup UidsToDelete
      BY <1>a, <2>2, <3>1, AskedFacts DEF TypeInv, DeleteRequest
    <3> QED BY <1>2, <3>2 DEF Known
  <2>3. CASE Deleter
    <3>1. UNCHANGED requests \/ DeleterQuery
      BY <2>3 DEF Deleter, DeleterCheck, DeleterRemove
    <3> QED BY <1>1, <2>1, <3>1
  <2>4. UNCHANGED requests \/ DeleteRequest \/ Deleter
    BY <1>a DEF Step, Unpacking, Upload, CancelUnpacking, DeleteFirmware,
       ReDoAnalysis, DeleteRows, Receive, AnalysisTask,
       Start, SetUnpackingLock, StoreFile, AddObject, Exists, InsertObject,
         UpdateObject, UpdateFirmware, UpdateFileObject, UpdateCurrentlyUnpacked
  <2> QED BY <2>1, <2>2, <2>3, <2>4
<1>3. ASSUME NEW v \in deleter.task, DeleterCheck(v) PROVE Known(u)'
  <2>0. /\ deleter'.task = deleter.task \ {v} /\ deleter.removing = {}
        /\ deleter'.removing = IF v \notin locks /\ v \notin deleter.uids_in_db THEN {v} ELSE {}
        /\ deleter'.uids_in_db \subseteq deleter.uids_in_db
        /\ UNCHANGED <<requests, tasks>>
    BY <1>3 DEF DeleterCheck, unpackVars
  <2>1. CASE u \in Asked
    BY <2>0, <2>1 DEF Known, Asked
  <2>2. CASE u \notin Asked /\ u # v
    BY <2>0, <2>2 DEF Known
  <2>3. CASE u \notin Asked /\ u = v /\ u \notin locks
    BY <2>0, <2>3 DEF Known
  <2>4. CASE u \in locks
    <3>1. ASSUME NEW a \in analysing, a.uid = u PROVE FALSE
      <4>1. a.root \in Images /\ u \in Files[a.root] /\ RowKept(a.root, u)
        BY <1>a, <3>1 DEF TypeInv, WithinFiles, RowsKept
      <4> QED BY <1>a, <4>1, RowOrExcuse
    <3>2. Comes(u)
      BY <1>a, <2>4, <3>1 DEF LeakInv, LocksAreReleased
    <3> QED BY <2>0, <3>2 DEF Comes, Known
  <2> QED BY <2>0, <2>1, <2>2, <2>3, <2>4
<1>4. CASE DeleterRemove
  <2>1. /\ content' = content \ deleter.removing /\ UNCHANGED requests
        /\ deleter'.task = deleter.task /\ deleter'.uids_in_db = deleter.uids_in_db
    BY <1>4, <1>a DEF DeleterRemove, TypeInv, DeleterType
  <2> QED BY <2>1 DEF Known, Asked
<1> QED BY <1>a, <1>1, <1>2, <1>3, <1>4, DeleterSteps

\* A file without a row is known to someone, or excused.
LEMMA LeftoversStep ==
    ASSUME TablesInv, LeakInv, Next
    PROVE  LeftoversAreKnown'
<1> SUFFICES ASSUME NEW u \in content', u \notin db'.file_object, ~Excused(u)' PROVE Known(u)'
  BY DEF LeftoversAreKnown
<1>a. Step /\ TypeInv /\ AdminInv /\ ~Excused(u)
  BY ExcusedGrows DEF Next, TablesInv
<1>1. CASE u \notin content
  BY <1>1, <1>a, NewContent
<1>2. CASE u \in db.file_object
  BY <1>2, <1>a, LostRow
<1>3. CASE u \in content /\ u \notin db.file_object
  <2>1. Known(u)
    BY <1>3, <1>a DEF LeakInv, LeftoversAreKnown
  <2>2. ASSUME NEW s \in submitted, s.uid = u PROVE Known(u)'
    <3>1. CASE s \in submitted'
      BY <2>2, <3>1 DEF Known
    <3>2. CASE s \notin submitted'
      <4>1. Receive(s)
        BY <1>a, <3>2 DEF Step, Unpacking, Deleter, Upload, CancelUnpacking, DeleteFirmware,
           ReDoAnalysis, DeleteRows, DeleteRequest, Receive, AnalysisTask, DeleterQuery, DeleterCheck,
           DeleterRemove, Start, SetUnpackingLock, StoreFile, AddObject, Exists, InsertObject,
         UpdateObject, UpdateFirmware, UpdateFileObject, UpdateCurrentlyUnpacked
      <4>2. Task(u, u, u) \in tasks'
        BY <2>2, <4>1 DEF Receive
      <4> QED BY <4>2 DEF Known, Task
    <3> QED BY <3>1, <3>2
  <2>3. ASSUME NEW t \in tasks, t.uid = u, t.phase # "update" PROVE Known(u)'
    BY <2>3, FileComes DEF Known
  <2>4. ASSUME NEW t \in tasks, u \in t.out PROVE Known(u)'
    BY <1>3, <2>4, FoundIsKnown
  <2>5. CASE admin.phase # "idle" /\ u \in admin.included \cup admin.uid
    BY <1>3, <1>a, <2>5, AdminPassesOn
  <2>6. CASE u \in Asked \/ u \in deleter.removing \/ u \in deleter.task \ deleter.uids_in_db
    BY <1>3, <2>6, ListenerGoesOn
  <2> QED BY <2>1, <2>2, <2>3, <2>4, <2>5, <2>6 DEF Known
<1> QED BY <1>1, <1>2, <1>3

\* The file store does not fill up.
LEMMA LeakImplies ==
    ASSUME TablesInv, LeakInv
    PROVE  NothingLeaks
<1> SUFFICES ASSUME NEW u \in content \ db.file_object, PendingFor(u) = {}, u \notin ToRemove,
                    ~(admin.phase # "idle" /\ u \in admin.included \cup admin.uid), ~Excused(u)
             PROVE  FALSE
  BY DEF NothingLeaks, Excused
<1>1. TypeInv /\ WithinFiles
  BY DEF TablesInv
<1>2. Known(u)
  BY DEF LeakInv, LeftoversAreKnown
<1>3. u \notin Asked \cup deleter.task \cup deleter.removing
  BY DEF ToRemove, Asked, Batch
<1> QED BY <1>1, <1>2, <1>3, PendingFacts DEF Known

(***************************************************************************)
(* The theorems                                                            *)
(***************************************************************************)

StoreInv ==
    /\ TablesInv
    /\ RemovalsAreRaces
    /\ ContentInv
    /\ CompleteInv
    /\ LeakInv

\* An empty installation satisfies the invariant.
LEMMA InitStore == Init => StoreInv
<1> SUFFICES ASSUME Init PROVE StoreInv
  OBVIOUS
<1>a. /\ db.file_object = {} /\ db.is_firmware = {} /\ db.fw_files = {}
      /\ content = {} /\ locks = {} /\ submitted = {} /\ requests = <<>> /\ tasks = {}
      /\ analysing = {} /\ admin = NoAdmin /\ deleter = NoDeleter
      /\ hist.raced = {} /\ hist.mixed = {}
      /\ \A r \in Images : entry[r] = NoEntry
  BY DEF Init
<1>b. TypeInv
  BY InitType
<1>1. WithinFiles /\ NoOrphans /\ EntryInv /\ AdminInv /\ RowsKept
  BY <1>a DEF WithinFiles, NoOrphans, EntryInv, AdminInv, RowsKept, NoEntry, NoAdmin
<1>2. MixedAreKnown
  BY <1>a DEF MixedAreKnown, Mixed, RootFirmware
<1>3. TablesInv
  BY <1>b, <1>1, <1>2 DEF TablesInv
<1>4. ToRemove = {} /\ Asked = {} /\ Batch = {}
  <2>1. Len(requests) = 0
    BY <1>a
  <2>2. Asked = {}
    BY <2>1 DEF Asked
  <2>3. Batch = {}
    BY <1>a DEF Batch, NoDeleter
  <2>4. ToRemove = {}
    BY <1>a, <2>2, <2>3 DEF ToRemove, Asked, NoAdmin
  <2> QED BY <2>2, <2>3, <2>4
<1>5. RemovalsAreRaces
  BY <1>a, <1>4 DEF RemovalsAreRaces, Raced, NoDeleter
<1>6. ContentInv
  BY <1>a DEF ContentInv, ContentKept, NoAdmin
<1>7. CompleteInv
  BY <1>a DEF CompleteInv, UnpackedWhole, NoEntry
<1>8. LeakInv
  BY <1>a DEF LeakInv, OneTaskEach, LocksAreReleased, LeftoversAreKnown
<1> QED BY <1>3, <1>5, <1>6, <1>7, <1>8 DEF StoreInv

\* Every step keeps it.
LEMMA NextStore ==
    ASSUME StoreInv, Next
    PROVE  StoreInv'
<1>1. /\ TypeInv /\ WithinFiles /\ MixedAreKnown /\ NoOrphans /\ EntryInv /\ AdminInv /\ RowsKept
      /\ TablesInv /\ RemovalsAreRaces /\ ContentInv /\ CompleteInv /\ LeakInv /\ Step
  BY DEF StoreInv, TablesInv, Next
<1>2. TablesInv'
  <2>1. TypeInv' /\ WithinFiles' /\ EntryInv'
    BY <1>1, StepType, WithinFilesStep, EntryInvStep
  <2>2. MixedAreKnown' /\ NoOrphans' /\ AdminInv'
    BY <1>1, MixedStep, OrphansStep, AdminStep
  <2>3. RowsKept'
    BY <1>1, RowsKeptStep
  <2> QED BY <2>1, <2>2, <2>3 DEF TablesInv
<1>3. RemovalsAreRaces' /\ ContentInv'
  BY <1>1, RemovalsStep, ContentStep
<1>4. CompleteInv'
  BY <1>1, CompleteStep
<1>5. LeakInv'
  <2>1. \A r \in Images : Quiet(r)' => OneTaskEach(r)'
    BY <1>1, OneTaskStep
  <2> QED BY <1>1, <2>1, LocksStep, LeftoversStep DEF LeakInv
<1> QED BY <1>2, <1>3, <1>4, <1>5 DEF StoreInv

\* A step that changes nothing keeps it.
LEMMA StutterStore ==
    ASSUME StoreInv, UNCHANGED vars
    PROVE  StoreInv'
<1>1. /\ db' = db /\ content' = content /\ locks' = locks /\ submitted' = submitted
      /\ requests' = requests /\ entry' = entry /\ tasks' = tasks /\ analysing' = analysing
      /\ admin' = admin /\ deleter' = deleter /\ hist' = hist
  BY DEF vars
<1>2. TypeInv' /\ WithinFiles' /\ EntryInv'
  BY <1>1 DEF StoreInv, TablesInv, TypeInv, DbType, WithinFiles, Shape, EntryInv
<1>3. MixedAreKnown' /\ NoOrphans'
  BY <1>1 DEF StoreInv, TablesInv, MixedAreKnown, Mixed, NoOrphans, RootFirmware, OfMixed
<1>4. AdminInv' /\ RowsKept'
  BY <1>1 DEF StoreInv, TablesInv, AdminInv, Pending, AllFilesInFw, RowsKept, RowKept, Row
<1>5. RemovalsAreRaces'
  BY <1>1 DEF StoreInv, RemovalsAreRaces, Raced, ToRemove, Batch, UidsToDelete, Pending, PendingFor
<1>6. ContentInv'
  BY <1>1 DEF StoreInv, ContentInv, ContentKept, Kept, Asked, Batch
<1>7. CompleteInv'
  BY <1>1 DEF StoreInv, CompleteInv, Calm, UnpackedWhole, Whole
<1>8. \A u : Excused(u)' <=> Excused(u)
  BY <1>1 DEF Excused, OfMixed
<1>9. LeakInv'
  BY <1>1, <1>8 DEF StoreInv, LeakInv, Quiet, OneTaskEach, LocksAreReleased, Comes,
       LeftoversAreKnown, Known, Asked
<1> QED BY <1>2, <1>3, <1>4, <1>5, <1>6, <1>7, <1>9 DEF StoreInv, TablesInv

\* The invariant holds in every reachable state.
LEMMA StoreInvariant == Spec => []StoreInv
<1>1. StoreInv /\ [Next]_vars => StoreInv'
  BY NextStore, StutterStore
<1> QED BY <1>1, InitStore, PTL DEF Spec

\* Whatever is uploaded, deleted, analysed again or cancelled, and in whatever order the
\* scheduler, the front end and the listener act: every row belongs to a firmware, and the
\* deletion of one firmware takes no row from another one (delete_firmware,
\* delete_file_orphans, _update_entries).
THEOREM RowsFit == Spec => []RowsAreSound
<1>1. StoreInv => RowsAreSound
  <2> SUFFICES ASSUME StoreInv PROVE RowsAreSound
    OBVIOUS
  <2>1. TablesInv /\ CompleteInv /\ TypeInv /\ NoOrphans
    BY DEF StoreInv, TablesInv
  <2>2. TypeOK
    BY <2>1 DEF TypeInv, DbType, EntryType, TypeOK
  <2>3. FirmwareIsComplete
    BY <2>1, CompleteImplies
  <2> QED BY <2>1, <2>2, <2>3 DEF RowsAreSound
<1> QED BY <1>1, StoreInvariant, PTL

\* The listener removes what no row needs and nothing else, and it forgets no file, except
\* where the lock cannot tell or an image was interrupted, found in another one or unpacked
\* twice (InterComBackEndDeleteFile, unpacking_locks).
THEOREM FilesFit == Spec => []FilesMatchRows
<1>1. StoreInv => FilesMatchRows
  <2> SUFFICES ASSUME StoreInv PROVE FilesMatchRows
    OBVIOUS
  <2>1. TablesInv /\ LeakInv /\ ContentKept
    BY DEF StoreInv, ContentInv
  <2> QED BY <2>1, LeakImplies DEF FilesMatchRows
<1> QED BY <1>1, StoreInvariant, PTL
=============================================================================
