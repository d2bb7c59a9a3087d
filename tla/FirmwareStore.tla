----------------------------- MODULE FirmwareStore -----------------------------
(***************************************************************************)
(* The database rows of files and firmware images, the file store, and the *)
(* three parties that work on both: the unpacking of uploaded images,      *)
(* the front end that deletes or re-does images, and the listener process  *)
(* that removes files from the file store on the front end's request.      *)
(* The unpacking locks are what keeps the listener from removing files     *)
(* that were stored but have no row yet.                                   *)
(*                                                                         *)
(* A database transaction is one action.  The unpacking scheduler is       *)
(* reduced to the order of its effects on rows, files and locks; its       *)
(* bookkeeping is the subject of UnpackingScheduler.                       *)
(***************************************************************************)
EXTENDS Naturals, FiniteSets, Sequences

CONSTANTS
    Uids,           \* files that exist somewhere
    Images,         \* those that users upload as firmware
    Content,        \* Content[u]: what the extractor finds in u
    Budgets         \* one record per installation: the number of work threads, and
                    \* as bounds of the model the number of uploads, deletions,
                    \* repeated analyses and cancel requests

ASSUME StoreConstants ==
    /\ Images \subseteq Uids
    /\ Content \in [Uids -> SUBSET Uids]
    /\ Budgets \subseteq [threads : Nat, uploads : Nat, deletes : Nat, redos : Nat,
                          cancels : Nat]

VARIABLES
    db,             \* the tables
    content,        \* the files in the file store
    locks,          \* keys of unpacking_locks
    submitted,      \* analysis_task and re_analyze_task lists in Redis
    requests,       \* file_delete_task list in Redis
    entry,          \* currently_extracted, per image
    tasks,          \* tasks of the unpacking scheduler
    analysing,      \* files on their way through the analysis scheduler
    admin,          \* the front end process that deletes
    deleter,        \* the process of InterComBackEndDeleteFile
    budget,
    hist            \* history, read by no action

vars == <<db, content, locks, submitted, requests, entry, tasks, analysing,
          admin, deleter, budget, hist>>
unpackVars == <<entry, tasks, analysing>>

(***************************************************************************)
(* The tables                                                              *)
(***************************************************************************)

FileObjectTable == SUBSET Uids
FirmwareTable == SUBSET Uids
FwFilesTable == SUBSET (Uids \X Uids)

Tables == [file_object : FileObjectTable,   \* uids with a row
           is_firmware : FileObjectTable,   \* those with the flag
           firmware : FirmwareTable,        \* uids with an entry of meta data
           fw_files : FwFilesTable]         \* <<root_uid, file_uid>>

\* the foreign keys, all ON DELETE CASCADE
Cascade(d, gone) ==
    [file_object |-> d.file_object \ gone,
     is_firmware |-> d.is_firmware \ gone,
     firmware |-> d.firmware \ gone,
     fw_files |-> {p \in d.fw_files : p[1] \notin gone /\ p[2] \notin gone}]

\* root_firmware of a row
RootFirmware(d, u) == {r \in Uids : <<r, u>> \in d.fw_files}

\* delete_file_orphans
Orphans(d) == {u \in d.file_object \ d.is_firmware : RootFirmware(d, u) = {}}

\* Mutant: all files of the image go, those of another one as well
DeleteAllFiles(d, u) == Cascade(d, {u} \cup {v \in Uids : <<u, v>> \in d.fw_files})

\* delete_object: the listener runs once the entry of the firmware is gone
DeleteObject(d, u) ==
    LET rest == Cascade(d, {u})
    IN  IF u \notin d.firmware THEN rest ELSE Cascade(rest, Orphans(rest))

\* get_all_files_in_fw
AllFilesInFw(d, r) == {u \in Uids : <<r, u>> \in d.fw_files}

(***************************************************************************)
(* What the histories record                                               *)
(***************************************************************************)

\* all that is found in an image, the image included
Files == [r \in Images |->
    {u \in Uids : \A S \in SUBSET Uids :
        r \in S /\ (\A v \in S : Content[v] \subseteq S) => u \in S}]

\* images that are on their way, and those of them that contain a file
Pending == {s.uid : s \in submitted} \cup {t.root : t \in tasks}
           \cup {a.root : a \in analysing}

PendingFor(u) == {r \in Pending : u \in Files[r]}

\* _find_files_still_in_db; the image itself unless it is analysed again
UidsToDelete == IF admin.root # {} THEN (admin.included \ db.file_object) \cup admin.root
                ELSE (admin.included \ db.file_object) \ admin.uid

\* files the listener was asked, or is about to be asked, to remove
Batch == deleter.task \cup deleter.removing

ToRemove == Batch \cup (UNION {requests[i] : i \in 1..Len(requests)})
            \cup (IF admin.phase = "request" THEN UidsToDelete ELSE {})

\* The lock cannot help: an image is not locked at all, and a file is not locked,
\* yet or any more, when the listener has already asked the database.
Raced == {u \in ToRemove : \/ u \in Pending
                           \/ /\ u \in Batch \ (locks \cup deleter.uids_in_db)
                              /\ PendingFor(u) # {} \/ u \in db.file_object}

\* images that were found in another one: such a row stands for both
Mixed == {u \in Images : RootFirmware(db, u) # {}}

(***************************************************************************)
(* Initial state: an empty installation                                    *)
(***************************************************************************)

NoEntry == [active |-> FALSE, remaining |-> {}, done |-> {}]
NoAdmin == [phase |-> "idle", uid |-> {}, root |-> {}, included |-> {}]
NoDeleter == [task |-> {}, uids_in_db |-> {}, removing |-> {}]

Init ==
    /\ db = [file_object |-> {}, is_firmware |-> {}, firmware |-> {}, fw_files |-> {}]
    /\ content = {}
    /\ locks = {}
    /\ submitted = {}
    /\ requests = <<>>
    /\ entry = [r \in Images |-> NoEntry]
    /\ tasks = {}
    /\ analysing = {}
    /\ admin = NoAdmin
    /\ deleter = NoDeleter
    /\ budget \in Budgets
    /\ hist = [raced |-> {}, mixed |-> {}, interrupted |-> {}, refound |-> {},
               overlapped |-> {}]

(***************************************************************************)
(* Upload                                                                  *)
(***************************************************************************)

\* add_analysis_task: the image is put into a list in Redis
Upload(r) ==
    /\ budget.uploads > 0
    /\ budget' = [budget EXCEPT !.uploads = @ - 1]
    /\ submitted' = submitted \cup {[uid |-> r, kind |-> "analysis_task"]}
    /\ UNCHANGED <<db, content, locks, requests, unpackVars, admin, deleter>>

\* a task as the extraction loop takes it; "todo" is what it still has to
\* store of the files it found
Task(r, u, parent) ==
    [root |-> r, uid |-> u, parent |-> parent, phase |-> "queued",
     todo |-> {}, at |-> {}, out |-> {}]

\* InterComBackEndAnalysisTask stores the file, InterComBackEndReAnalyzeTask
\* finds it in the store; both add a task
Receive(s) ==
    /\ submitted' = submitted \ {s}
    /\ content' = IF s.kind = "analysis_task" THEN content \cup {s.uid} ELSE content
    /\ tasks' = tasks \cup {Task(s.uid, s.uid, s.uid)}
    /\ UNCHANGED <<db, locks, requests, entry, analysing, admin, deleter, budget>>

(***************************************************************************)
(* Unpacking                                                               *)
(***************************************************************************)

IsFirmware(t) == t.uid = t.root
Running == {t \in tasks : t.phase # "queued"}
Becomes(t, t2) == tasks' = (tasks \ {t}) \cup {t2}

\* work_thread: an image gets an entry unless it has one, a file of a cancelled
\* image is dropped, a file that is not there any more yields nothing
Start(t) ==
    /\ t.phase = "queued"
    /\ Cardinality(Running) < budget.threads
    /\ entry' = IF IsFirmware(t) /\ ~entry[t.root].active
                THEN [entry EXCEPT ![t.root] = [active |-> TRUE, remaining |-> {t.uid}, done |-> {}]]
                ELSE entry
    /\ LET found == IF t.uid \in content THEN Content[t.uid] \ {t.uid} ELSE {}
       IN  IF IsFirmware(t) \/ entry[t.root].active
           THEN Becomes(t, [t EXCEPT !.phase = "unpack", !.todo = found, !.out = found])
           ELSE tasks' = tasks \ {t}
    /\ UNCHANGED <<db, content, locks, submitted, requests, analysing, admin, deleter, budget>>

\* generate_objects_and_store_files: lock first, ...
SetUnpackingLock(t, c) ==
    /\ t.phase = "unpack"
    /\ locks' = locks \cup {c}
    /\ Becomes(t, [t EXCEPT !.phase = "store", !.todo = @ \ {c}, !.at = {c}])
    /\ UNCHANGED <<db, content, submitted, requests, entry, analysing, admin, deleter, budget>>

\* ... then store
StoreFile(t) ==
    /\ t.phase = "store"
    /\ content' = content \cup t.at
    /\ Becomes(t, [t EXCEPT !.phase = "unpack", !.at = {}])
    /\ UNCHANGED <<db, locks, submitted, requests, entry, analysing, admin, deleter, budget>>

\* add_object asks first whether there is a row, in a session of its own
Exists(t) ==
    /\ t.phase = "unpack"
    /\ t.todo = {}
    /\ Becomes(t, [t EXCEPT !.phase = IF t.uid \notin db.file_object THEN "insert"
                                      ELSE IF IsFirmware(t) THEN "check" ELSE "write"])
    /\ UNCHANGED <<db, content, locks, submitted, requests, entry, analysing, admin, deleter, budget>>

\* a file needs its root and its parent (_update_entries)
ParentMissing(d, t) ==
    ~IsFirmware(t) /\ (t.root \notin d.file_object \/ t.parent \notin d.file_object)

\* insert_firmware, insert_file_object, update_file_object: the flag follows the
\* class of the object at hand, and only an insert makes an entry of meta data
Stored(d, t) ==
    [d EXCEPT !.file_object = @ \cup {t.uid},
              !.is_firmware = IF IsFirmware(t) THEN @ \cup {t.uid} ELSE @ \ {t.uid},
              !.firmware = IF IsFirmware(t) /\ t.uid \notin d.file_object THEN @ \cup {t.uid} ELSE @,
              !.fw_files = IF IsFirmware(t) THEN @ ELSE @ \cup {<<t.root, t.uid>>}]

\* post_unpack
PostUnpack(t) ==
    /\ Becomes(t, [t EXCEPT !.phase = "update"])
    /\ analysing' = analysing \cup {[root |-> t.root, uid |-> t.uid]}

\* a DbInterfaceError: nothing that was found goes on, and what was stored and
\* locked stays so
Refuse(t) ==
    /\ Becomes(t, [t EXCEPT !.phase = "update", !.out = {}])
    /\ UNCHANGED <<db, analysing>>

\* insert_object: an IntegrityError if another thread has inserted the row meanwhile
InsertObject(t) ==
    /\ t.phase = "insert"
    /\ IF t.uid \in db.file_object \/ ParentMissing(db, t) THEN Refuse(t)
       ELSE db' = Stored(db, t) /\ PostUnpack(t)
    /\ UNCHANGED <<content, locks, submitted, requests, entry, admin, deleter, budget>>

\* update_object refuses an image that is known as a file only
UpdateObject(t) ==
    /\ t.phase = "check"
    /\ IF t.uid \notin db.firmware THEN Refuse(t)
       ELSE Becomes(t, [t EXCEPT !.phase = "change"]) /\ UNCHANGED <<db, analysing>>
    /\ UNCHANGED <<content, locks, submitted, requests, entry, admin, deleter, budget>>

\* update_firmware: an AttributeError if the entry is gone meanwhile, which nothing
\* but the wrapper of the thread meets
UpdateFirmware(t) ==
    /\ t.phase = "change"
    /\ IF t.uid \in db.firmware THEN Becomes(t, [t EXCEPT !.phase = "write"])
       ELSE tasks' = tasks \ {t}
    /\ UNCHANGED <<db, content, locks, submitted, requests, entry, analysing, admin, deleter, budget>>

\* update_file_object: a row that is gone meanwhile is logged, and all goes on
UpdateFileObject(t) ==
    /\ t.phase = "write"
    /\ \/ t.uid \notin db.file_object /\ PostUnpack(t) /\ UNCHANGED db
       \/ t.uid \in db.file_object /\ ParentMissing(db, t) /\ Refuse(t)
       \/ /\ t.uid \in db.file_object /\ ~ParentMissing(db, t)
          /\ db' = Stored(db, t) /\ PostUnpack(t)
    /\ UNCHANGED <<content, locks, submitted, requests, entry, admin, deleter, budget>>

\* add_object, session by session
AddObject(t) ==
    \/ Exists(t) \/ InsertObject(t)
    \/ UpdateObject(t) \/ UpdateFirmware(t) \/ UpdateFileObject(t)

\* _update_currently_unpacked: files that are new to this image become tasks
\* (the links to this parent are the subject of UnpackingScheduler)
UpdateCurrentlyUnpacked(t) ==
    /\ t.phase = "update"
    /\ LET e == entry[t.root]
           new == IF e.active THEN t.out \ (e.remaining \cup e.done) ELSE {}
           left == (e.remaining \cup new) \ {t.uid}
       IN  /\ tasks' = (tasks \ {t}) \cup {Task(t.root, c, t.uid) : c \in new}
           /\ entry' = IF ~e.active THEN entry
                       ELSE [entry EXCEPT ![t.root] =
                                IF left = {} THEN NoEntry
                                ELSE [active |-> TRUE, remaining |-> left,
                                      done |-> e.done \cup {t.uid}]]
    /\ UNCHANGED <<db, content, locks, submitted, requests, analysing, admin, deleter, budget>>

\* _process_next_analysis_task releases the lock, once per plugin
AnalysisTask(a) ==
    /\ locks' = locks \ {a.uid}
    /\ \/ analysing' = analysing \ {a}
       \/ UNCHANGED analysing
    /\ UNCHANGED <<db, content, submitted, requests, entry, tasks, admin, deleter, budget>>

\* cancel_unpacking
CancelUnpacking(r) ==
    /\ budget.cancels > 0
    /\ entry[r].active
    /\ budget' = [budget EXCEPT !.cancels = @ - 1]
    /\ entry' = [entry EXCEPT ![r] = NoEntry]
    /\ UNCHANGED <<db, content, locks, submitted, requests, tasks, analysing, admin, deleter>>

(***************************************************************************)
(* Deletion                                                                *)
(***************************************************************************)

\* delete_firmware, first session: is it a firmware, and what is in it
FindFirmware(r, root) ==
    /\ admin.phase = "idle"
    /\ r \in db.is_firmware
    /\ admin' = [phase |-> "rows", uid |-> {r}, root |-> root, included |-> AllFilesInFw(db, r)]

\* the route that deletes a firmware
DeleteFirmware(r) ==
    /\ FindFirmware(r, {r})
    /\ budget.deletes > 0
    /\ budget' = [budget EXCEPT !.deletes = @ - 1]
    /\ UNCHANGED <<db, content, locks, submitted, requests, unpackVars, deleter>>

\* the route that repeats the analysis: delete_root_file=False
ReDoAnalysis(r) ==
    /\ FindFirmware(r, {})
    /\ budget.redos > 0
    /\ budget' = [budget EXCEPT !.redos = @ - 1]
    /\ UNCHANGED <<db, content, locks, submitted, requests, unpackVars, deleter>>

\* delete_object in a session of its own
DeleteRows(r) ==
    /\ admin.phase = "rows" /\ admin.uid = {r}
    /\ db' = DeleteObject(db, r)
    /\ admin' = [admin EXCEPT !.phase = "request"]
    /\ UNCHANGED <<content, locks, submitted, requests, unpackVars, deleter, budget>>

\* the request to the back end, and for a repeated analysis the new task
DeleteRequest ==
    /\ admin.phase = "request"
    /\ requests' = Append(requests, UidsToDelete)
    /\ submitted' = IF admin.root # {} THEN submitted
                    ELSE submitted \cup {[uid |-> u, kind |-> "re_analyze_task"] : u \in admin.uid}
    /\ admin' = NoAdmin
    /\ UNCHANGED <<db, content, locks, unpackVars, deleter, budget>>

\* InterComBackEndDeleteFile.pre_process: one query for the whole task, ...
DeleterQuery ==
    /\ deleter = NoDeleter
    /\ requests # <<>>
    /\ deleter' = [task |-> Head(requests), uids_in_db |-> Head(requests) \cap db.file_object,
                   removing |-> {}]
    /\ requests' = Tail(requests)
    /\ UNCHANGED <<db, content, locks, submitted, unpackVars, admin, budget>>

\* Mutant: the lock is not looked at
DeleterCheckNoLock(u) ==
    /\ deleter.removing = {}
    /\ u \in deleter.task
    /\ deleter' = [task |-> deleter.task \ {u},
                   uids_in_db |-> IF deleter.task = {u} THEN {} ELSE deleter.uids_in_db,
                   removing |-> IF u \notin deleter.uids_in_db THEN {u} ELSE {}]
    /\ UNCHANGED <<db, content, locks, submitted, requests, unpackVars, admin, budget>>

\* ... then file by file: leave what is locked or has a row, ...
DeleterCheck(u) ==
    /\ deleter.removing = {}
    /\ u \in deleter.task
    /\ deleter' = [task |-> deleter.task \ {u},
                   uids_in_db |-> IF deleter.task = {u} THEN {} ELSE deleter.uids_in_db,
                   removing |-> IF u \notin locks /\ u \notin deleter.uids_in_db THEN {u} ELSE {}]
    /\ UNCHANGED <<db, content, locks, submitted, requests, unpackVars, admin, budget>>

\* ... and remove the others
DeleterRemove ==
    /\ deleter.removing # {}
    /\ content' = content \ deleter.removing
    /\ deleter' = [deleter EXCEPT !.removing = {}]
    /\ UNCHANGED <<db, locks, submitted, requests, unpackVars, admin, budget>>

(***************************************************************************)
(* Specification                                                           *)
(***************************************************************************)

Unpacking ==
    \/ \E t \in tasks : Start(t) \/ StoreFile(t) \/ AddObject(t) \/ UpdateCurrentlyUnpacked(t)
    \/ \E t \in tasks : \E c \in t.todo : SetUnpackingLock(t, c)

Deleter ==
    \/ DeleterQuery \/ DeleterRemove
    \/ \E u \in deleter.task : DeleterCheck(u)

Step ==
    \/ \E r \in Images : Upload(r) \/ CancelUnpacking(r) \/ DeleteFirmware(r)
                      \/ ReDoAnalysis(r) \/ DeleteRows(r)
    \/ \E s \in submitted : Receive(s)
    \/ Unpacking
    \/ \E a \in analysing : AnalysisTask(a)
    \/ DeleteRequest
    \/ Deleter

\* add_object does not write what it should: the row is there or gone against what
\* exists() has said, or the row of the root or of the parent is gone
NotWritten(t) ==
    \/ t.phase = "insert" /\ (t.uid \in db.file_object \/ ParentMissing(db, t))
    \/ t.phase \in {"check", "change"} /\ t.uid \notin db.firmware
    \/ t.phase = "write" /\ (t.uid \notin db.file_object \/ ParentMissing(db, t))

\* images of which something was left undone: cancelled, deleted while on their way,
\* or with a file that add_object did not write
Interrupted ==
    LET stopped == {r \in Images : entry[r].active /\ ~entry'[r].active
                                     /\ \A t \in tasks : t.root = r => t \in tasks'}
        deleted == {r \in Pending' : admin'.phase = "rows" /\ r \in admin'.uid}
        unwritten == {t.root : t \in {t \in tasks \ tasks' : NotWritten(t)}}
    IN  UNION {Files[r] : r \in stopped \cup deleted \cup unwritten}

\* files that are locked again although this image is done with them
Refound == {c \in locks' : \E t \in tasks :
    /\ t.phase = "unpack" /\ c \in t.todo /\ t \notin tasks'
    /\ \/ c \in entry[t.root].done
       \/ \E o \in tasks : o.root = t.root /\ o.uid = c /\ o.phase = "update"}

\* files of images that are unpacked twice at the same time
Overlapped ==
    LET again == {t \in tasks' \ tasks : t.phase = "queued" /\ IsFirmware(t)
                                            /\ \E o \in tasks : o.root = t.root}
    IN  UNION {Files[t.root] : t \in again}

Next ==
    /\ Step
    /\ hist' = [raced |-> hist.raced \cup Raced', mixed |-> hist.mixed \cup Mixed',
                interrupted |-> hist.interrupted \cup Interrupted,
                refound |-> hist.refound \cup Refound,
                overlapped |-> hist.overlapped \cup Overlapped]

Spec == Init /\ [][Next]_vars

(***************************************************************************)
(* Properties                                                              *)
(***************************************************************************)

TaskType == [root : Images, uid : Uids, parent : Uids,
             phase : {"queued", "unpack", "store", "insert", "check", "change", "write", "update"},
             todo : SUBSET Uids, at : SUBSET Uids, out : SUBSET Uids]

\* Types, and foreign keys: both ends of a row of fw_files have rows.
TypeOK ==
    /\ db \in Tables
    /\ db.is_firmware \cup db.firmware \subseteq db.file_object
    /\ db.fw_files \subseteq db.file_object \X db.file_object
    /\ content \subseteq Uids /\ locks \subseteq Uids /\ analysing \subseteq [root : Images, uid : Uids]
    /\ tasks \subseteq TaskType
    /\ entry \in [Images -> [active : BOOLEAN, remaining : SUBSET Uids, done : SUBSET Uids]]
    /\ requests \in Seq(SUBSET Uids)
    /\ deleter.removing \cap deleter.task = {}

\* the files of images that were found in another one
OfMixed == UNION {Files[r] : r \in hist.mixed}

\* Every row belongs to someone: a file without the flag is part of a firmware
\* that has one, whatever is deleted while it is unpacked (delete_file_orphans,
\* _update_entries).  Only an image that was found in another one as well, and so
\* lost its flag (update_file_object), can leave its files without a firmware.
NoOrphans ==
    \A u \in db.file_object \ db.is_firmware :
        \/ RootFirmware(db, u) \cap db.firmware # {}
        \/ u \in OfMixed

\* A file with a row can be downloaded: its content is lost only if the
\* listener was asked to remove it while it was on its way in again and the
\* lock could not tell (InterComBackEndDeleteFile, unpacking_locks).
ContentKept ==
    db.file_object \ content \subseteq hist.raced

\* The file store does not fill up: a file without a row is on its way in, or
\* to be removed, or was left by an image that was interrupted (cancelled, deleted
\* on its way, or with a file that add_object did not write, as its row came or went
\* between two of its sessions) or found in another one, or kept a lock because it was found again after its analysis or
\* its image was unpacked twice at the same time.
NothingLeaks ==
    \A u \in content \ db.file_object :
        \/ PendingFor(u) # {} \/ u \in ToRemove
        \/ admin.phase # "idle" /\ u \in admin.included \cup admin.uid
        \/ u \in hist.interrupted \cup hist.refound \cup hist.overlapped \cup OfMixed

\* The deletion of one image leaves another one whole: an image that has a row
\* and is not on its way has all its files, each with this image as a root
\* (delete_firmware, delete_file_orphans), unless it was interrupted: that is the only
\* excuse for a row that add_object did not write.
FirmwareIsComplete ==
    \A r \in (Images \cap db.is_firmware) \ Pending :
        \/ Files[r] \subseteq hist.interrupted
        \/ Files[r] \cap (hist.mixed \cup hist.raced) # {}
        \/ {<<r, u>> : u \in Files[r] \ {r}} \subseteq db.fw_files

\* The tables after any deletion: every row belongs to a firmware, and a firmware
\* has all its rows (delete_firmware, delete_file_orphans).
RowsAreSound ==
    /\ TypeOK
    /\ NoOrphans
    /\ FirmwareIsComplete

\* The file store follows the tables: what has a row is there, what has none goes
\* (InterComBackEndDeleteFile, unpacking_locks).
FilesMatchRows ==
    /\ ContentKept
    /\ NothingLeaks
================================================================================
