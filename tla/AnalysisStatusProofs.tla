------------------------ MODULE AnalysisStatusProofs ------------------------
(***************************************************************************)
(* Proofs about the analysis status.                                       *)
(*                                                                         *)
(* What the display shows depends on messages of different processes that  *)
(* overtake each other.  The invariant therefore says what each message on *)
(* its way is worth (Truthful), and what each status knows: as long as no  *)
(* re-analysis interferes its sets and counters match (Consistent), and    *)
(* unless an update came too early whatever is contained in a file that it *)
(* has seen is known to it (Complete), so that nothing is left to wait for *)
(* only when all files of the firmware have been analysed.  An update that *)
(* is the only request for its firmware is alone: nothing but its own      *)
(* messages can end the analysis that its first message starts.            *)
(***************************************************************************)
EXTENDS AnalysisStatus, FiniteSetTheorems, SequenceTheorems, TLAPS

AddFirmwareMessage == [type: {"add_firmware"}, root: Firmware, files: SUBSET Files]
AddUpdateMessage == [type: {"add_update"}, root: Firmware, files: SUBSET Files]
AddFileMessage == [type: {"add_file"}, uid: Files, root: Firmware, files: SUBSET Files]
AddAnalysisMessage == [type: {"add_analysis"}, root: Firmware, plugin: Plugins]
RemoveFileMessage == [type: {"remove_file"}, uid: Files, root: Firmware]
CancelMessage == [type: {"cancel"}, root: Firmware]
Message ==
    AddFirmwareMessage \cup AddUpdateMessage \cup AddFileMessage \cup AddAnalysisMessage
        \cup RemoveFileMessage \cup CancelMessage

Budget ==
    [uploads: [Firmware -> Nat], updates: 0 .. MaxUpdates, cancels: Nat,
     requests: Nat, reports: Nat, failures: Nat]

TypeInv ==
    /\ TypeOK
    /\ queue \in [Senders -> Seq(Message)]
    /\ budget \in Budget

AllFiles(fw) == Reachable[fw] \cup {fw}

\* what a message of process p is worth, given the budget b and the round r of its
\* firmware
Truthful(p, m, b, r) ==
    /\ m.type = "add_firmware" => m.files = Content[m.root]
    /\ m.type = "add_file" => m.files = Content[m.uid] /\ m.uid \in Reachable[m.root]
    /\ m.type = "add_update" => /\ p = "update"
                                /\ b.updates < MaxUpdates
                                /\ ~r.early => m.files = Reachable[m.root]
    /\ m.type = "remove_file" => m.uid \in r.analysed
    /\ m.type = "cancel" => p = "cancel"

MessagesTrue ==
    \A p \in Senders : \A i \in 1 .. Len(queue[p]) :
        Truthful(p, queue[p][i], budget, round[queue[p][i].root])

\* what is unpacked of a firmware are files of it
TasksInside ==
    \A fw \in Firmware : \A f \in Files : \A s \in Stages :
        tasks[<<fw, f, s>>] > 0 => f \in AllFiles(fw)

\* an update that is not marked as early has read all files
UpdateTrue ==
    update # Nobody => /\ budget.updates < MaxUpdates
                       /\ ~round[update.root].early => update.files = Reachable[update.root]

\* the files of a status
Known(s) == s.files_to_unpack \cup s.files_to_analyze \cup s.completed_files

\* each file is in one stage, and the counters are those of the sets
Consistent(s) ==
    /\ s.files_to_unpack \cap s.files_to_analyze = {}
    /\ s.files_to_unpack \cap s.completed_files = {}
    /\ s.files_to_analyze \cap s.completed_files = {}
    /\ s.analyzed = Cardinality(s.completed_files)
    /\ s.unpacked = Cardinality(s.files_to_analyze) + Cardinality(s.completed_files)
    /\ s.total = Cardinality(s.files_to_unpack)
                   + (Cardinality(s.files_to_analyze) + Cardinality(s.completed_files))

\* what is contained in a file that was seen is known, and what is completed is
\* analysed
Complete(fw, s, done) ==
    /\ fw \in Known(s)
    /\ Known(s) \subseteq AllFiles(fw)
    /\ \A f \in s.files_to_analyze \cup s.completed_files : Content[f] \subseteq Known(s)
    /\ \A f \in s.completed_files : f \in done

StatusTrue ==
    \A fw \in currently_running :
        /\ NoUpdate => Consistent(status[fw])
        /\ ~round[fw].early => Complete(fw, status[fw], round[fw].analysed)

\* the first message of an update has been handled, and the files in the firmware
\* are still to be unpacked
Waiting(fw) ==
    /\ fw \in currently_running
    /\ Content[fw] # {}
    /\ Content[fw] \subseteq status[fw].files_to_unpack

\* the second message of an update finds the status that its first one made
Ready(fw) == round[fw].requests > 1 \/ Content[fw] = {} \/ Waiting(fw)

\* the second message of add_update follows the first one; once the first one is
\* handled the firmware is waiting, unless other requests overlap
UpdatePairs ==
    LET q == queue["update"] IN
    \A i \in 1 .. Len(q) : q[i].type = "add_update" =>
        \/ i = 1 /\ Ready(q[i].root)
        \/ i > 1 /\ q[i - 1].type = "add_firmware" /\ q[i - 1].root = q[i].root

\* an update of a firmware is on its way
UpdateWaits(fw) ==
    \/ update.root = fw
    \/ \E i \in 1 .. Len(queue["update"]) :
          queue["update"][i].type = "add_update" /\ queue["update"][i].root = fw

\* nothing is unpacked of a firmware, and nothing is on its way that could end its
\* analysis or announce that one of its files is unpacked
Alone(fw) ==
    /\ \A f \in Files : \A s \in Stages : tasks[<<fw, f, s>>] = 0
    /\ \A p \in Senders : \A i \in 1 .. Len(queue[p]) :
          queue[p][i].root = fw => queue[p][i].type # "add_file" /\ queue[p][i].type # "cancel"

Sole(fw) == round[fw].requests <= 1 /\ UpdateWaits(fw) => Alone(fw)

\* nothing goes on for a firmware
Idle(fw) == ~Underway(fw) /\ fw \notin currently_running /\ extracted[fw] = NoEntry

IdleUntilRequested(fw) == round[fw].requests = 0 => Idle(fw)

StatusInv ==
    /\ TypeInv
    /\ MessagesTrue
    /\ TasksInside
    /\ UpdateTrue
    /\ StatusTrue
    /\ UpdatePairs
    /\ \A fw \in Firmware : Sole(fw)
    /\ \A fw \in Firmware : IdleUntilRequested(fw)

-----------------------------------------------------------------------------
(* What the operations on a status do to it.                               *)

\* sets of files are finite, so that they can be counted
LEMMA FileSets ==
    ASSUME NEW S \in SUBSET Files
    PROVE  /\ IsFiniteSet(S) /\ Cardinality(S) \in Nat
           /\ \A x \in Files :
                /\ x \notin S => Cardinality(S \cup {x}) = Cardinality(S) + 1
                /\ x \in S => Cardinality(S \ {x}) = Cardinality(S) - 1
<1>1. IsFiniteSet(S)
  BY StatusConstants, FS_Subset
<1>2. Cardinality(S) \in Nat
  BY <1>1, FS_CardinalityType
<1>3. ASSUME NEW x \in Files, x \notin S PROVE Cardinality(S \cup {x}) = Cardinality(S) + 1
  BY <1>1, <1>3, FS_AddElement
<1>4. ASSUME NEW x \in Files, x \in S PROVE Cardinality(S \ {x}) = Cardinality(S) - 1
  BY <1>1, <1>4, FS_RemoveElement
<1> QED BY <1>1, <1>2, <1>3, <1>4

\* sets of files that have nothing in common are counted one after the other
LEMMA DisjointSets ==
    ASSUME NEW S \in SUBSET Files, NEW T \in SUBSET Files, S \cap T = {}
    PROVE  Cardinality(S \cup T) = Cardinality(S) + Cardinality(T)
<1>1. IsFiniteSet(S) /\ IsFiniteSet(T) /\ Cardinality(S) \in Nat /\ Cardinality(T) \in Nat
  BY FileSets
<1>2. Cardinality(S \cup T) = Cardinality(S) + Cardinality(T) - Cardinality(S \cap T)
  BY <1>1, FS_Union
<1>3. Cardinality(S \cap T) = 0
  BY FS_EmptySet
<1> QED BY <1>1, <1>2, <1>3

\* _add_firmware: a new status knows the firmware and what it contains
LEMMA NewStatusFacts ==
    ASSUME NEW fw \in Firmware, NEW done
    PROVE  /\ NewStatus(fw, Content[fw]) \in FwStatus
           /\ Consistent(NewStatus(fw, Content[fw]))
           /\ Complete(fw, NewStatus(fw, Content[fw]), done)
<1> DEFINE s == NewStatus(fw, Content[fw])
<1>a. /\ fw \in Files /\ Content[fw] \in SUBSET Files /\ fw \notin Content[fw]
      /\ Content[fw] \subseteq AllFiles(fw)
  BY StatusConstants DEF AllFiles
<1>b. Cardinality(Content[fw]) \in Nat
  BY <1>a, FileSets
<1>c. /\ s.files_to_unpack = Content[fw] /\ s.files_to_analyze = {fw}
      /\ s.completed_files = {} /\ s.total = 1 + Cardinality(Content[fw])
      /\ s.unpacked = 1 /\ s.analyzed = 0
  BY DEF NewStatus
<1>1. s \in FwStatus
  BY <1>a, <1>b DEF NewStatus, FwStatus
<1>2. Consistent(s)
  <2>1. Cardinality({fw}) = 1 /\ Cardinality({}) = 0
    BY FS_Singleton, FS_EmptySet
  <2> HIDE DEF s
  <2> QED BY <1>a, <1>b, <1>c, <2>1 DEF Consistent
<1>3. Complete(fw, s, done)
  <2> HIDE DEF s
  <2> QED BY <1>a, <1>c DEF Complete, Known, AllFiles
<1> QED BY <1>1, <1>2, <1>3

\* _add_update: every file is to be analysed
LEMMA ForUpdateFacts ==
    ASSUME NEW s \in FwStatus, NEW fw \in Firmware, NEW included \in SUBSET Files, NEW done
    PROVE  /\ ForUpdate(s, fw, included) \in FwStatus
           /\ included = Reachable[fw] /\ Complete(fw, s, done) =>
                 Complete(fw, ForUpdate(s, fw, included), done)
<1> DEFINE new == ForUpdate(s, fw, included)
<1>a. fw \in Files /\ Cardinality(included) \in Nat
  BY StatusConstants, FileSets
<1>b. /\ new.files_to_unpack = {} /\ new.files_to_analyze = {fw} \cup included
      /\ new.completed_files = s.completed_files
  BY DEF ForUpdate, FwStatus
<1>1. new \in FwStatus
  <2>1. /\ {fw} \cup included \in SUBSET Files /\ {} \in SUBSET Files
        /\ Cardinality(included) + 1 \in Nat
    BY <1>a
  <2> QED BY <2>1 DEF ForUpdate, FwStatus
<1>2. ASSUME included = Reachable[fw], Complete(fw, s, done) PROVE Complete(fw, new, done)
  <2>1. new.files_to_analyze = AllFiles(fw)
    BY <1>2, <1>b DEF AllFiles
  <2>2. s.completed_files \subseteq AllFiles(fw)
    BY <1>2 DEF Complete, Known
  <2>3. Known(new) = AllFiles(fw)
    BY <1>b, <2>1, <2>2 DEF Known
  <2>4. \A f \in AllFiles(fw) : Content[f] \subseteq AllFiles(fw)
    BY StatusConstants DEF AllFiles
  <2>5. \A f \in new.completed_files : f \in done
    BY <1>2, <1>b DEF Complete
  <2>6. fw \in AllFiles(fw)
    BY DEF AllFiles
  <2> HIDE DEF new
  <2> QED BY <1>b, <2>1, <2>2, <2>3, <2>4, <2>5, <2>6 DEF Complete
<1> QED BY <1>1, <1>2

\* _add_included_file: a file moves on at most once, and what it contains is known
LEMMA WithFileFacts ==
    ASSUME NEW s \in FwStatus, NEW fw \in Firmware, NEW uid \in Files, NEW done
    PROVE  /\ WithFile(s, uid, Content[uid]) \in FwStatus
           /\ Consistent(s) => Consistent(WithFile(s, uid, Content[uid]))
           /\ uid \in Reachable[fw] /\ Complete(fw, s, done) =>
                 Complete(fw, WithFile(s, uid, Content[uid]), done)
<1> DEFINE t == WithFile(s, uid, Content[uid])
           new == NewFiles(s, Content[uid])
<1>a. Content[uid] \in SUBSET Files /\ uid \notin Content[uid]
  BY StatusConstants
<1>b. /\ new \in SUBSET Files /\ uid \notin new /\ new \subseteq Content[uid]
      /\ new \cap Known(s) = {} /\ Content[uid] \subseteq Known(s) \cup new
  BY <1>a DEF NewFiles, Known
<1>c. /\ s.files_to_unpack \in SUBSET Files /\ s.files_to_analyze \in SUBSET Files
      /\ s.completed_files \in SUBSET Files
      /\ s.total \in Nat /\ s.unpacked \in Nat /\ s.withDuplicates \in Nat
      /\ s.analyzed \in Nat
  BY DEF FwStatus
<1>d. Cardinality(new) \in Nat
  BY <1>b, FileSets
<1>e. /\ t.files_to_unpack = (s.files_to_unpack \cup new) \ {uid}
      /\ t.completed_files = s.completed_files /\ t.analyzed = s.analyzed
      /\ t.total = s.total + Cardinality(new)
      /\ uid \in s.files_to_unpack =>
            t.files_to_analyze = s.files_to_analyze \cup {uid} /\ t.unpacked = s.unpacked + 1
      /\ uid \notin s.files_to_unpack =>
            t.files_to_analyze = s.files_to_analyze /\ t.unpacked = s.unpacked
  BY <1>b DEF WithFile, FwStatus
<1>1. t \in FwStatus
  <2>1. /\ (s.files_to_unpack \cup new) \ {uid} \in SUBSET Files
        /\ s.files_to_analyze \cup {uid} \in SUBSET Files
        /\ s.unpacked + 1 \in Nat /\ s.total + Cardinality(new) \in Nat
        /\ s.withDuplicates + 1 \in Nat
    BY <1>b, <1>c, <1>d
  <2> DEFINE first == uid \in s.files_to_unpack \cup new
             analyze == IF first THEN s.files_to_analyze \cup {uid} ELSE s.files_to_analyze
             unpacked == IF first THEN s.unpacked + 1 ELSE s.unpacked
  <2>2. analyze \in SUBSET Files /\ unpacked \in Nat
    BY <1>c, <2>1
  <2>3. t = [s EXCEPT !.files_to_unpack = (s.files_to_unpack \cup new) \ {uid},
                      !.files_to_analyze = analyze, !.unpacked = unpacked,
                      !.total = s.total + Cardinality(new),
                      !.withDuplicates = s.withDuplicates + 1]
    BY DEF WithFile
  <2> HIDE DEF t, new, first, analyze, unpacked
  <2> QED BY <2>1, <2>2, <2>3 DEF FwStatus
<1> HIDE DEF t, new
<1>2. ASSUME Consistent(s) PROVE Consistent(t)
  <2>a. /\ s.files_to_unpack \cap new = {} /\ s.files_to_analyze \cap new = {}
        /\ s.completed_files \cap new = {}
    BY <1>b DEF Known
  <2>b. s.files_to_unpack \cup new \in SUBSET Files
    BY <1>b, <1>c
  <2>c. Cardinality(s.files_to_unpack \cup new)
          = Cardinality(s.files_to_unpack) + Cardinality(new)
    BY <1>b, <1>c, <2>a, DisjointSets
  <2>d. /\ Cardinality(s.files_to_unpack) \in Nat /\ Cardinality(s.files_to_analyze) \in Nat
        /\ Cardinality(s.completed_files) \in Nat
    BY <1>c, FileSets
  <2>1. CASE uid \in s.files_to_unpack
    <3>1. Cardinality((s.files_to_unpack \cup new) \ {uid})
            = Cardinality(s.files_to_unpack \cup new) - 1
      BY <2>b, <2>1, FileSets
    <3>2. uid \notin s.files_to_analyze
      BY <1>2, <2>1 DEF Consistent
    <3>3. Cardinality(s.files_to_analyze \cup {uid}) = Cardinality(s.files_to_analyze) + 1
      BY <1>c, <3>2, FileSets
    <3>4. /\ t.files_to_unpack \cap t.files_to_analyze = {}
          /\ t.files_to_unpack \cap t.completed_files = {}
          /\ t.files_to_analyze \cap t.completed_files = {}
      BY <1>2, <1>e, <2>a, <2>1 DEF Consistent
    <3>5. /\ Cardinality(t.files_to_unpack)
               = Cardinality(s.files_to_unpack) + Cardinality(new) - 1
          /\ Cardinality(t.files_to_analyze) = Cardinality(s.files_to_analyze) + 1
          /\ Cardinality(t.completed_files) = Cardinality(s.completed_files)
      <4>1. /\ t.files_to_unpack = (s.files_to_unpack \cup new) \ {uid}
            /\ t.files_to_analyze = s.files_to_analyze \cup {uid}
            /\ t.completed_files = s.completed_files
        BY <1>e, <2>1
      <4> QED BY <1>d, <2>c, <2>d, <3>1, <3>3, <4>1
    <3>6. /\ t.analyzed = s.analyzed /\ t.unpacked = s.unpacked + 1
          /\ t.total = s.total + Cardinality(new)
      BY <1>e, <2>1
    <3> QED BY <1>2, <1>d, <2>d, <3>4, <3>5, <3>6 DEF Consistent
  <2>2. CASE uid \notin s.files_to_unpack
    <3>1. t.files_to_unpack = s.files_to_unpack \cup new
      BY <1>b, <1>e, <2>2
    <3>2. /\ t.files_to_unpack \cap t.files_to_analyze = {}
          /\ t.files_to_unpack \cap t.completed_files = {}
          /\ t.files_to_analyze \cap t.completed_files = {}
      BY <1>2, <1>e, <2>a, <2>2, <3>1 DEF Consistent
    <3>3. /\ Cardinality(t.files_to_unpack)
               = Cardinality(s.files_to_unpack) + Cardinality(new)
          /\ t.files_to_analyze = s.files_to_analyze
          /\ t.completed_files = s.completed_files
          /\ t.analyzed = s.analyzed /\ t.unpacked = s.unpacked
          /\ t.total = s.total + Cardinality(new)
      BY <1>e, <2>2, <2>c, <3>1
    <3> QED BY <1>2, <1>d, <2>d, <3>2, <3>3 DEF Consistent
  <2> QED BY <2>1, <2>2
<1>3. ASSUME uid \in Reachable[fw], Complete(fw, s, done) PROVE Complete(fw, t, done)
  <2>1. Known(t) = Known(s) \cup new
    BY <1>b, <1>e DEF Known
  <2>2. Content[uid] \subseteq AllFiles(fw)
    BY <1>3, StatusConstants DEF AllFiles
  <2>3. \A f \in t.files_to_analyze \cup t.completed_files :
            f \in s.files_to_analyze \cup s.completed_files \/ f = uid
    BY <1>e
  <2>4. \A f \in t.files_to_analyze \cup t.completed_files : Content[f] \subseteq Known(t)
    BY <1>3, <1>b, <2>1, <2>3 DEF Complete
  <2>5. fw \in Known(t) /\ Known(t) \subseteq AllFiles(fw)
    BY <1>3, <1>b, <2>1, <2>2 DEF Complete
  <2>6. \A f \in t.completed_files : f \in done
    BY <1>3, <1>e DEF Complete
  <2> QED BY <2>4, <2>5, <2>6 DEF Complete
<1> QED BY <1>1, <1>2, <1>3 DEF t

\* _remove_object: when no file is left, all of them are analysed
LEMMA WithoutFileFacts ==
    ASSUME NEW s \in FwStatus, NEW fw \in Firmware, NEW uid \in s.files_to_analyze,
           NEW done, uid \in done
    PROVE  /\ WithoutFile(s, uid) \in FwStatus
           /\ Consistent(s) => Consistent(WithoutFile(s, uid))
           /\ Complete(fw, s, done) =>
                 /\ Complete(fw, WithoutFile(s, uid), done)
                 /\ IsFinished(WithoutFile(s, uid)) => \A f \in AllFiles(fw) : f \in done
<1> DEFINE t == WithoutFile(s, uid)
<1>a. /\ s.files_to_unpack \in SUBSET Files /\ s.files_to_analyze \in SUBSET Files
      /\ s.completed_files \in SUBSET Files /\ uid \in Files
      /\ s.total \in Nat /\ s.unpacked \in Nat /\ s.analyzed \in Nat
  BY DEF FwStatus
<1>b. /\ t.files_to_unpack = s.files_to_unpack
      /\ t.files_to_analyze = s.files_to_analyze \ {uid}
      /\ t.completed_files = s.completed_files \cup {uid}
      /\ t.analyzed = s.analyzed + 1 /\ t.unpacked = s.unpacked /\ t.total = s.total
  BY DEF WithoutFile, FwStatus
<1>1. t \in FwStatus
  <2>1. /\ s.files_to_analyze \ {uid} \in SUBSET Files
        /\ s.completed_files \cup {uid} \in SUBSET Files /\ s.analyzed + 1 \in Nat
    BY <1>a
  <2> QED BY <2>1 DEF WithoutFile, FwStatus
<1> HIDE DEF t
<1>2. ASSUME Consistent(s) PROVE Consistent(t)
  <2>1. uid \notin s.completed_files
    BY <1>2 DEF Consistent
  <2>2. Cardinality(s.completed_files \cup {uid}) = Cardinality(s.completed_files) + 1
    BY <1>a, <2>1, FileSets
  <2>3. Cardinality(s.files_to_analyze \ {uid}) = Cardinality(s.files_to_analyze) - 1
    BY <1>a, FileSets
  <2>4. /\ Cardinality(s.files_to_unpack) \in Nat /\ Cardinality(s.files_to_analyze) \in Nat
        /\ Cardinality(s.completed_files) \in Nat
    BY <1>a, FileSets
  <2>5. /\ t.files_to_unpack \cap t.files_to_analyze = {}
        /\ t.files_to_unpack \cap t.completed_files = {}
        /\ t.files_to_analyze \cap t.completed_files = {}
    BY <1>2, <1>b DEF Consistent
  <2>6. /\ Cardinality(t.files_to_unpack) = Cardinality(s.files_to_unpack)
        /\ Cardinality(t.files_to_analyze) = Cardinality(s.files_to_analyze) - 1
        /\ Cardinality(t.completed_files) = Cardinality(s.completed_files) + 1
    BY <1>b, <2>2, <2>3
  <2> QED BY <1>2, <1>b, <2>4, <2>5, <2>6 DEF Consistent
<1>3. ASSUME Complete(fw, s, done) PROVE Complete(fw, t, done)
  <2>1. Known(t) = Known(s)
    BY <1>b DEF Known
  <2> QED BY <1>3, <1>b, <2>1 DEF Complete
<1>4. ASSUME Complete(fw, s, done), IsFinished(t)
      PROVE  \A f \in AllFiles(fw) : f \in done
  <2>1. Known(t) = t.completed_files
    BY <1>4 DEF IsFinished, Known
  <2>2. /\ fw \in t.completed_files /\ \A f \in t.completed_files : Content[f] \subseteq t.completed_files
        /\ \A f \in t.completed_files : f \in done
    BY <1>3, <1>4, <2>1 DEF Complete
  <2>3. t.completed_files \in SUBSET Files
    BY <1>a, <1>b
  <2>4. Reachable[fw] \subseteq t.completed_files
    BY <2>2, <2>3, StatusConstants
  <2> QED BY <2>2, <2>4 DEF AllFiles
<1> QED BY <1>1, <1>2, <1>3, <1>4 DEF t

-----------------------------------------------------------------------------
(* The queues.                                                             *)

\* put adds a message at the end
LEMMA PutFacts ==
    ASSUME queue \in [Senders -> Seq(Message)], NEW p \in Senders, NEW m \in Message,
           Put(p, m)
    PROVE  /\ queue' \in [Senders -> Seq(Message)]
           /\ \A q \in Senders \ {p} : queue'[q] = queue[q]
           /\ Len(queue[p]) \in Nat /\ Len(queue'[p]) = Len(queue[p]) + 1
           /\ \A i \in 1 .. Len(queue[p]) : queue'[p][i] = queue[p][i]
           /\ queue'[p][Len(queue[p]) + 1] = m
<1>1. queue[p] \in Seq(Message) /\ queue'[p] = Append(queue[p], m)
  BY DEF Put
<1>2. /\ Append(queue[p], m) \in Seq(Message)
      /\ Len(Append(queue[p], m)) = Len(queue[p]) + 1
      /\ \A i \in 1 .. Len(queue[p]) : Append(queue[p], m)[i] = queue[p][i]
      /\ Append(queue[p], m)[Len(queue[p]) + 1] = m
  BY <1>1, AppendProperties
<1>3. queue' \in [Senders -> Seq(Message)]
  BY <1>2 DEF Put
<1> QED BY <1>1, <1>2, <1>3, LenProperties DEF Put

\* add_update puts two messages at the end
LEMMA PutTwoFacts ==
    ASSUME queue \in [Senders -> Seq(Message)], NEW p \in Senders, NEW m \in Message,
           NEW n \in Message, PutTwo(p, m, n)
    PROVE  /\ queue' \in [Senders -> Seq(Message)]
           /\ \A q \in Senders \ {p} : queue'[q] = queue[q]
           /\ Len(queue[p]) \in Nat /\ Len(queue'[p]) = Len(queue[p]) + 2
           /\ \A i \in 1 .. Len(queue[p]) : queue'[p][i] = queue[p][i]
           /\ queue'[p][Len(queue[p]) + 1] = m
           /\ queue'[p][Len(queue[p]) + 2] = n
<1> DEFINE s == Append(queue[p], m)
<1>1. queue[p] \in Seq(Message) /\ queue'[p] = Append(s, n) /\ Len(queue[p]) \in Nat
  BY LenProperties DEF PutTwo
<1>2. /\ s \in Seq(Message) /\ Len(s) = Len(queue[p]) + 1
      /\ \A i \in 1 .. Len(queue[p]) : s[i] = queue[p][i]
      /\ s[Len(queue[p]) + 1] = m
  BY <1>1, AppendProperties
<1> HIDE DEF s
<1>3. /\ Append(s, n) \in Seq(Message) /\ Len(Append(s, n)) = Len(s) + 1
      /\ \A i \in 1 .. Len(s) : Append(s, n)[i] = s[i]
      /\ Append(s, n)[Len(s) + 1] = n
  BY <1>2, AppendProperties
<1>4. queue' \in [Senders -> Seq(Message)]
  BY <1>3 DEF PutTwo, s
<1>5. \A q \in Senders \ {p} : queue'[q] = queue[q]
  BY DEF PutTwo
<1> QED BY <1>1, <1>2, <1>3, <1>4, <1>5

\* get takes the first message
LEMMA ReceiveFacts ==
    ASSUME queue \in [Senders -> Seq(Message)], NEW p \in Senders, queue[p] # <<>>,
           queue' = [queue EXCEPT ![p] = Tail(@)]
    PROVE  /\ queue' \in [Senders -> Seq(Message)]
           /\ \A q \in Senders \ {p} : queue'[q] = queue[q]
           /\ Len(queue[p]) \in Nat /\ Len(queue[p]) > 0
           /\ Head(queue[p]) = queue[p][1] /\ Head(queue[p]) \in Message
           /\ Len(queue'[p]) = Len(queue[p]) - 1
           /\ \A i \in 1 .. Len(queue'[p]) : queue'[p][i] = queue[p][i + 1]
<1>1. queue[p] \in Seq(Message) /\ queue'[p] = Tail(queue[p])
  OBVIOUS
<1>2. /\ Len(queue[p]) \in Nat /\ Len(queue[p]) > 0
      /\ Head(queue[p]) = queue[p][1] /\ Head(queue[p]) \in Message
      /\ Tail(queue[p]) \in Seq(Message) /\ Len(Tail(queue[p])) = Len(queue[p]) - 1
      /\ \A i \in 1 .. Len(Tail(queue[p])) : Tail(queue[p])[i] = queue[p][i + 1]
  BY <1>1, HeadTailProperties, LenProperties, EmptySeq
<1> QED BY <1>1, <1>2

-----------------------------------------------------------------------------
(* The rounds.                                                             *)

\* what is kept of a round is not forgotten while it lasts
Later(r, s) == r.requests <= s.requests /\ (r.early => s.early) /\ r.analysed \subseteq s.analysed

\* nothing goes on for an idle firmware
LEMMA IdleFacts ==
    ASSUME StatusInv, NEW fw \in Firmware
    PROVE  /\ Idle(fw) =>
                 /\ \A f \in Files : \A s \in Stages : tasks[<<fw, f, s>>] = 0
                 /\ \A p \in Senders : \A i \in 1 .. Len(queue[p]) : queue[p][i].root # fw
                 /\ \A f \in Files : analysing[<<fw, f>>] = 0
                 /\ update.root # fw /\ fw \notin currently_running
                 /\ ~UpdateWaits(fw) /\ Alone(fw)
           /\ ~Idle(fw) => round[fw].requests > 0
           /\ \A p \in Senders : \A i \in 1 .. Len(queue[p]) : queue[p][i].root = fw => ~Idle(fw)
<1>a. /\ queue \in [Senders -> Seq(Message)] /\ round[fw].requests \in Nat
      /\ tasks \in [Tasks -> Nat] /\ analysing \in [Firmware \X Files -> Nat]
  BY DEF StatusInv, TypeInv, TypeOK
<1>b. /\ \A f \in Files : \A s \in Stages : tasks[<<fw, f, s>>] \in Nat
      /\ \A f \in Files : analysing[<<fw, f>>] \in Nat
  BY <1>a DEF Tasks
<1>c. \A p \in Senders : DOMAIN queue[p] = 1 .. Len(queue[p])
  BY <1>a, LenProperties
<1>1. \A p \in Senders : \A i \in 1 .. Len(queue[p]) : queue[p][i].root = fw => ~Idle(fw)
  BY <1>c DEF Idle, Underway
<1>2. ~Idle(fw) => round[fw].requests > 0
  BY <1>a DEF StatusInv, IdleUntilRequested
<1>3. ASSUME Idle(fw)
      PROVE  /\ \A f \in Files : \A s \in Stages : tasks[<<fw, f, s>>] = 0
             /\ \A p \in Senders : \A i \in 1 .. Len(queue[p]) : queue[p][i].root # fw
             /\ \A f \in Files : analysing[<<fw, f>>] = 0
             /\ update.root # fw /\ fw \notin currently_running
  BY <1>3, <1>b, <1>c DEF Idle, Underway
<1>4. ASSUME Idle(fw) PROVE ~UpdateWaits(fw) /\ Alone(fw)
  <2>1. "update" \in Senders
    BY DEF Senders
  <2> QED BY <1>3, <1>4, <2>1 DEF UpdateWaits, Alone
<1> QED BY <1>1, <1>2, <1>3, <1>4

\* a request begins a round or counts in the one that lasts
LEMMA RequestedFacts ==
    ASSUME StatusInv, NEW fw \in Firmware, NEW early \in BOOLEAN, Requested(fw, early)
    PROVE  /\ round' \in [Firmware -> [requests: Nat, early: BOOLEAN, analysed: SUBSET Files,
                                       lost: SUBSET Files]]
           /\ \A g \in Firmware \ {fw} : round'[g] = round[g]
           /\ early => round'[fw].early
           /\ Idle(fw) => round'[fw].requests = 1
           /\ ~Idle(fw) => Later(round[fw], round'[fw]) /\ round'[fw].requests > 1
<1> DEFINE Round == [requests: Nat, early: BOOLEAN, analysed: SUBSET Files, lost: SUBSET Files]
           r == IF Idle(fw) THEN NoRound ELSE round[fw]
           some == r.early \/ early
           new == [r EXCEPT !.requests = @ + 1, !.early = some]
<1>1. round \in [Firmware -> Round] /\ NoRound \in Round
  BY DEF StatusInv, TypeInv, TypeOK, NoRound
<1>2. r \in Round
  BY <1>1
<1>3. round' = [round EXCEPT ![fw] = new]
  BY DEF Requested, Idle
<1>4. Idle(fw) => r.requests = 0
  BY DEF NoRound
<1>5. ~Idle(fw) => r = round[fw] /\ r.requests > 0
  BY IdleFacts
<1> HIDE DEF r
<1>6. /\ new \in Round /\ new.requests = r.requests + 1 /\ (early => new.early)
      /\ (r.early => new.early) /\ new.analysed = r.analysed
  <2>1. some \in BOOLEAN /\ (early => some) /\ (r.early => some)
    OBVIOUS
  <2>2. r.requests + 1 \in Nat
    BY <1>2
  <2> HIDE DEF some
  <2>3. /\ new \in Round /\ new.requests = r.requests + 1 /\ new.early = some
        /\ new.analysed = r.analysed
    BY <1>2, <2>1, <2>2
  <2> QED BY <2>1, <2>3
<1> HIDE DEF new
<1>7. round'[fw] = new /\ \A g \in Firmware \ {fw} : round'[g] = round[g]
  BY <1>1, <1>3
<1>8. round' \in [Firmware -> Round]
  BY <1>1, <1>3, <1>6
<1>9. r.requests \in Nat
  BY <1>2
<1> QED BY <1>4, <1>5, <1>6, <1>7, <1>8, <1>9 DEF Later

\* a file whose end is not noticed
LEMMA LostFacts ==
    ASSUME StatusInv, NEW fw \in Firmware, NEW more \in SUBSET Files,
           round' = [round EXCEPT ![fw].lost = @ \cup more]
    PROVE  /\ round' \in [Firmware -> [requests: Nat, early: BOOLEAN, analysed: SUBSET Files,
                                       lost: SUBSET Files]]
           /\ \A g \in Firmware : /\ round'[g].requests = round[g].requests
                                  /\ round'[g].early = round[g].early
                                  /\ round'[g].analysed = round[g].analysed
           /\ \A g \in Firmware \ {fw} : round'[g] = round[g]
<1> DEFINE Round == [requests: Nat, early: BOOLEAN, analysed: SUBSET Files, lost: SUBSET Files]
           new == [round[fw] EXCEPT !.lost = @ \cup more]
<1>1. round \in [Firmware -> Round]
  BY DEF StatusInv, TypeInv, TypeOK
<1>2. round[fw].lost \cup more \in SUBSET Files
  BY <1>1
<1>3. /\ new \in Round /\ new.requests = round[fw].requests
      /\ new.early = round[fw].early /\ new.analysed = round[fw].analysed
  BY <1>1, <1>2
<1>4. round' = [round EXCEPT ![fw] = new]
  BY <1>1
<1> HIDE DEF new
<1>5. round'[fw] = new /\ \A g \in Firmware \ {fw} : round'[g] = round[g]
  BY <1>1, <1>4
<1> QED BY <1>1, <1>3, <1>4, <1>5

-----------------------------------------------------------------------------
(* The steps.                                                              *)

\* a process that sends leaves the status alone, and says nothing false; its step is
\* about one firmware
LEMMA SendKeeps ==
    ASSUME StatusInv, NEW fw \in Firmware, UNCHANGED workerVars, TypeInv',
           budget'.updates <= budget.updates,
           \A g \in Firmware \ {fw} :
              /\ round'[g] = round[g] /\ extracted'[g] = extracted[g]
              /\ \A f \in Files : /\ analysing'[<<g, f>>] = analysing[<<g, f>>]
                                  /\ \A s \in Stages : tasks'[<<g, f, s>>] = tasks[<<g, f, s>>],
           Idle(fw) => round'[fw].requests = 1,
           ~Idle(fw) => Later(round[fw], round'[fw]),
           \A q \in Senders :
              /\ Len(queue[q]) <= Len(queue'[q])
              /\ \A i \in 1 .. Len(queue[q]) : queue'[q][i] = queue[q][i]
              /\ \A i \in Len(queue[q]) + 1 .. Len(queue'[q]) :
                    /\ queue'[q][i].root = fw
                    /\ Truthful(q, queue'[q][i], budget', round'[fw])
                    /\ queue'[q][i].type = "add_update" =>
                          /\ i > 1
                          /\ queue'[q][i - 1].type = "add_firmware"
                          /\ queue'[q][i - 1].root = queue'[q][i].root,
           \/ update' = update \/ update' = Nobody
           \/ /\ update'.root = fw /\ budget'.updates < MaxUpdates
              /\ ~round'[fw].early => update'.files = Reachable[fw],
           TasksInside', Sole(fw)'
    PROVE  StatusInv'
<1> USE DEF workerVars, recently
<1>a. /\ TypeInv /\ TypeOK /\ budget \in Budget /\ queue \in [Senders -> Seq(Message)]
      /\ budget' \in Budget /\ queue' \in [Senders -> Seq(Message)]
  BY DEF StatusInv, TypeInv
<1>b. /\ budget.updates \in 0 .. MaxUpdates /\ budget'.updates \in 0 .. MaxUpdates
      /\ MaxUpdates \in Nat
  BY <1>a, StatusConstants DEF Budget
<1>c. NoUpdate' => NoUpdate
  BY <1>b DEF NoUpdate
<1>d. \A q \in Senders : Len(queue[q]) \in Nat /\ Len(queue'[q]) \in Nat
  BY <1>a, LenProperties
<1>e. \A q \in Senders : \A i \in 1 .. Len(queue'[q]) :
          i \in 1 .. Len(queue[q]) \/ i \in Len(queue[q]) + 1 .. Len(queue'[q])
  BY <1>d
<1>f. \A q \in Senders : \A i \in 1 .. Len(queue[q]) :
          queue[q][i] \in Message /\ queue[q][i].root \in Firmware
  <2>1. \A q \in Senders : \A i \in 1 .. Len(queue[q]) : queue[q][i] \in Message
    BY <1>a, ElementOfSeq
  <2>2. \A m \in Message : m.root \in Firmware
    BY DEF Message, AddFirmwareMessage, AddUpdateMessage, AddFileMessage,
           AddAnalysisMessage, RemoveFileMessage, CancelMessage
  <2> QED BY <2>1, <2>2
<1>g. Later(round[fw], round'[fw]) \/ Idle(fw)
  OBVIOUS
<1>h. \A g \in Firmware : Idle(g) \/ Later(round[g], round'[g])
  <2>1. \A g \in Firmware : round[g].requests \in Nat
    BY <1>a DEF TypeOK
  <2> QED BY <1>g, <2>1 DEF Later
<1>i. \A q \in Senders : \A i \in 1 .. Len(queue[q]) :
          Later(round[queue[q][i].root], round'[queue[q][i].root])
  BY <1>f, <1>h, IdleFacts
<1>2. MessagesTrue'
  <2> SUFFICES ASSUME NEW q \in Senders, NEW i \in 1 .. Len(queue'[q])
               PROVE  Truthful(q, queue'[q][i], budget', round'[queue'[q][i].root])
    BY DEF MessagesTrue
  <2>1. CASE i \in 1 .. Len(queue[q])
    <3>1. /\ Truthful(q, queue[q][i], budget, round[queue[q][i].root])
          /\ queue'[q][i] = queue[q][i]
      BY <2>1 DEF StatusInv, MessagesTrue
    <3>2. Later(round[queue[q][i].root], round'[queue[q][i].root])
      BY <1>i, <2>1
    <3>3. \A m, r, s : Truthful(q, m, budget, r) /\ Later(r, s) => Truthful(q, m, budget', s)
      BY <1>b DEF Truthful, Later
    <3> QED BY <3>1, <3>2, <3>3
  <2>2. CASE i \in Len(queue[q]) + 1 .. Len(queue'[q])
    <3>1. queue'[q][i].root = fw /\ Truthful(q, queue'[q][i], budget', round'[fw])
      BY <2>2
    <3> QED BY <3>1
  <2> QED BY <1>e, <2>1, <2>2
<1>3. StatusTrue'
  <2>1. \A g, s, r, t : Complete(g, s, r.analysed) /\ Later(r, t) => Complete(g, s, t.analysed)
    BY DEF Complete, Later
  <2>2. \A g \in currently_running : Later(round[g], round'[g])
    BY <1>a, <1>h, IdleFacts DEF TypeOK
  <2> SUFFICES ASSUME NEW g \in currently_running
               PROVE  /\ NoUpdate' => Consistent(status[g])
                      /\ ~round'[g].early => Complete(g, status[g], round'[g].analysed)
    BY DEF StatusTrue
  <2>3. ~round'[g].early => ~round[g].early
    BY <2>2 DEF Later
  <2> QED BY <1>c, <2>1, <2>2, <2>3 DEF StatusInv, StatusTrue
<1>4. UpdateTrue'
  <2> SUFFICES ASSUME update' # Nobody
               PROVE  /\ budget'.updates < MaxUpdates
                      /\ ~round'[update'.root].early => update'.files = Reachable[update'.root]
    BY DEF UpdateTrue
  <2>1. CASE update' = update
    <3>1. update.root \in Firmware
      BY <1>a, <2>1 DEF TypeOK
    <3>2. Later(round[update.root], round'[update.root])
      BY <1>h, <3>1, IdleFacts
    <3> QED BY <1>b, <2>1, <3>2 DEF StatusInv, UpdateTrue, Later
  <2> QED BY <2>1
<1>5. UpdatePairs'
  <2>a. "update" \in Senders
    BY DEF Senders
  <2>b. ASSUME NEW g \in Firmware, Later(round[g], round'[g]), Ready(g) PROVE Ready(g)'
    <3>1. round[g].requests \in Nat /\ round'[g].requests \in Nat
      BY <1>a DEF TypeOK, TypeInv
    <3> QED BY <2>b, <3>1 DEF Later, Waiting, Ready
  <2> SUFFICES ASSUME NEW i \in 1 .. Len(queue'["update"]),
                      queue'["update"][i].type = "add_update"
               PROVE  \/ i = 1 /\ Ready(queue["update"][i].root)'
                      \/ /\ i > 1
                         /\ queue'["update"][i - 1].type = "add_firmware"
                         /\ queue'["update"][i - 1].root = queue'["update"][i].root
    BY Zenon DEF UpdatePairs
  <2> SUFFICES ASSUME NEW g, g = queue'["update"][i].root
               PROVE  \/ i = 1 /\ Ready(g)'
                      \/ /\ i > 1
                         /\ queue'["update"][i - 1].type = "add_firmware"
                         /\ queue'["update"][i - 1].root = g
    BY DEF Ready, Waiting
  <2>1. CASE i \in 1 .. Len(queue["update"])
    <3>1. queue'["update"][i] = queue["update"][i] /\ g = queue["update"][i].root
      BY <2>a, <2>1
    <3>2. i > 1 => queue'["update"][i - 1] = queue["update"][i - 1]
      BY <1>d, <2>a, <2>1
    <3>3. \/ i = 1 /\ Ready(g)
          \/ /\ i > 1
             /\ queue["update"][i - 1].type = "add_firmware"
             /\ queue["update"][i - 1].root = g
      BY <2>1, <3>1 DEF StatusInv, UpdatePairs
    <3>4. g \in Firmware /\ Later(round[g], round'[g])
      BY <1>f, <1>i, <2>a, <2>1, <3>1
    <3> QED BY <2>b, <3>1, <3>2, <3>3, <3>4
  <2>2. CASE i \in Len(queue["update"]) + 1 .. Len(queue'["update"])
    BY <2>a, <2>2
  <2> QED BY <1>e, <2>a, <2>1, <2>2
<1>j. \A q \in Senders : \A i \in 1 .. Len(queue'[q]) : queue'[q][i].root # fw =>
          i \in 1 .. Len(queue[q]) /\ queue'[q][i] = queue[q][i]
  BY <1>e
<1>k. Nobody.root \notin Firmware
  BY StatusConstants DEF Nobody
<1>6. ASSUME NEW g \in Firmware PROVE Sole(g)'
  <2>1. CASE g # fw
    <3> SUFFICES ASSUME round'[g].requests <= 1, UpdateWaits(g)' PROVE Alone(g)'
      BY DEF Sole
    <3>1. "update" \in Senders
      BY DEF Senders
    <3>2. UpdateWaits(g)
      BY <1>j, <1>k, <2>1, <3>1 DEF UpdateWaits
    <3>3. Alone(g)
      BY <2>1, <3>2 DEF StatusInv, Sole
    <3>4. \A f \in Files : \A s \in Stages : tasks'[<<g, f, s>>] = 0
      <4>1. \A f \in Files : \A s \in Stages : tasks[<<g, f, s>>] = 0
        BY <3>3 DEF Alone
      <4>2. \A f \in Files : \A s \in Stages : tasks'[<<g, f, s>>] = tasks[<<g, f, s>>]
        BY <2>1
      <4> QED BY <4>1, <4>2
    <3>5. \A q \in Senders : \A i \in 1 .. Len(queue'[q]) : queue'[q][i].root = g =>
              queue'[q][i].type # "add_file" /\ queue'[q][i].type # "cancel"
      BY <1>j, <2>1, <3>3 DEF Alone
    <3> QED BY <3>4, <3>5 DEF Alone
  <2> QED BY <2>1
<1>7. ASSUME NEW g \in Firmware PROVE IdleUntilRequested(g)'
  <2>1. CASE g = fw
    <3>1. round[fw].requests \in Nat /\ round'[fw].requests \in Nat
      BY <1>a DEF TypeOK, TypeInv
    <3>2. round'[fw].requests # 0
      BY <3>1, IdleFacts DEF Later
    <3> QED BY <2>1, <3>2 DEF IdleUntilRequested
  <2>2. CASE g # fw
    <3> SUFFICES ASSUME round'[g].requests = 0 PROVE Idle(g)'
      BY DEF IdleUntilRequested
    <3>1. Idle(g)
      BY <2>2 DEF StatusInv, IdleUntilRequested
    <3>2. \A q \in Senders : DOMAIN queue[q] = 1 .. Len(queue[q]) /\ DOMAIN queue'[q] = 1 .. Len(queue'[q])
      BY <1>a, LenProperties
    <3>3. \A q \in Senders : \A i \in DOMAIN queue'[q] : queue'[q][i].root # g
      BY <1>j, <2>2, <3>1, <3>2 DEF Idle, Underway
    <3>4. update'.root # g
      BY <1>k, <2>2, <3>1 DEF Idle, Underway
    <3>5. \A f \in Files : /\ ~(analysing'[<<g, f>>] > 0)
                           /\ \A s \in Stages : ~(tasks'[<<g, f, s>>] > 0)
      BY <2>2, <3>1 DEF Idle, Underway
    <3>6. g \notin currently_running' /\ extracted'[g] = NoEntry
      BY <2>2, <3>1 DEF Idle
    <3> QED BY <3>3, <3>4, <3>5, <3>6 DEF Idle, Underway
  <2> QED BY <2>1, <2>2
<1> QED BY <1>2, <1>3, <1>4, <1>5, <1>6, <1>7 DEF StatusInv

\* a step about one firmware, apart from its messages
OnlyAbout(fw) ==
    /\ UNCHANGED workerVars
    /\ TypeInv'
    /\ budget'.updates <= budget.updates
    /\ \A g \in Firmware \ {fw} :
          /\ round'[g] = round[g] /\ extracted'[g] = extracted[g]
          /\ \A f \in Files : /\ analysing'[<<g, f>>] = analysing[<<g, f>>]
                              /\ \A s \in Stages : tasks'[<<g, f, s>>] = tasks[<<g, f, s>>]
    /\ Idle(fw) => round'[fw].requests = 1
    /\ ~Idle(fw) => Later(round[fw], round'[fw])
    /\ \/ update' = update \/ update' = Nobody
       \/ /\ update'.root = fw /\ budget'.updates < MaxUpdates
          /\ ~round'[fw].early => update'.files = Reachable[fw]
    /\ TasksInside'

\* no message is sent
LEMMA SendNothing ==
    ASSUME StatusInv, NEW fw \in Firmware, OnlyAbout(fw), queue' = queue, Sole(fw)'
    PROVE  StatusInv'
<1>1. \A q \in Senders : Len(queue[q]) \in Nat
  BY LenProperties DEF StatusInv, TypeInv
<1>2. \A q \in Senders :
          /\ Len(queue[q]) <= Len(queue'[q])
          /\ \A i \in 1 .. Len(queue[q]) : queue'[q][i] = queue[q][i]
          /\ \A i \in Len(queue[q]) + 1 .. Len(queue'[q]) :
                /\ queue'[q][i].root = fw
                /\ Truthful(q, queue'[q][i], budget', round'[fw])
                /\ queue'[q][i].type = "add_update" =>
                      /\ i > 1
                      /\ queue'[q][i - 1].type = "add_firmware"
                      /\ queue'[q][i - 1].root = queue'[q][i].root
  BY <1>1
<1> QED BY <1>2, SendKeeps DEF OnlyAbout

\* one message is sent, other than the second one of add_update
LEMMA SendOne ==
    ASSUME StatusInv, NEW fw \in Firmware, OnlyAbout(fw), Sole(fw)',
           NEW p \in Senders, NEW m \in Message, Put(p, m), m.type # "add_update", m.root = fw,
           Truthful(p, m, budget', round'[fw])
    PROVE  StatusInv'
<1>a. queue \in [Senders -> Seq(Message)]
  BY DEF StatusInv, TypeInv
<1>b. /\ queue' \in [Senders -> Seq(Message)]
      /\ \A q \in Senders \ {p} : queue'[q] = queue[q]
      /\ Len(queue[p]) \in Nat /\ Len(queue'[p]) = Len(queue[p]) + 1
      /\ \A i \in 1 .. Len(queue[p]) : queue'[p][i] = queue[p][i]
      /\ queue'[p][Len(queue[p]) + 1] = m
  BY <1>a, PutFacts
<1>1. ASSUME NEW q \in Senders
      PROVE  /\ Len(queue[q]) <= Len(queue'[q])
             /\ \A i \in 1 .. Len(queue[q]) : queue'[q][i] = queue[q][i]
             /\ \A i \in Len(queue[q]) + 1 .. Len(queue'[q]) :
                   /\ queue'[q][i].root = fw
                   /\ Truthful(q, queue'[q][i], budget', round'[fw])
                   /\ queue'[q][i].type = "add_update" =>
                         /\ i > 1
                         /\ queue'[q][i - 1].type = "add_firmware"
                         /\ queue'[q][i - 1].root = queue'[q][i].root
  <2>1. CASE q = p
    <3>1. \A i \in Len(queue[p]) + 1 .. Len(queue'[p]) : queue'[p][i] = m
      BY <1>b
    <3> QED BY <1>b, <2>1, <3>1
  <2>2. CASE q # p
    <3>1. Len(queue[q]) \in Nat /\ queue'[q] = queue[q]
      BY <1>a, <1>b, <2>2, LenProperties
    <3> QED BY <3>1
  <2> QED BY <2>1, <2>2
<1> QED BY <1>1, <1>b, SendKeeps DEF OnlyAbout

\* a firmware whose unpacking goes on is not idle, and no update waits alone for it
LEMMA TaskFacts ==
    ASSUME StatusInv, NEW fw \in Firmware, NEW f \in Files, NEW s \in Stages,
           tasks[<<fw, f, s>>] > 0
    PROVE  /\ f \in AllFiles(fw)
           /\ ~Idle(fw)
           /\ tasks[<<fw, f, s>>] - 1 \in Nat
           /\ UpdateWaits(fw) => round[fw].requests > 1
<1>1. tasks[<<fw, f, s>>] \in Nat /\ round[fw].requests \in Nat
  BY DEF StatusInv, TypeInv, TypeOK, Tasks
<1>2. ~Idle(fw)
  BY DEF Idle, Underway
<1>3. f \in AllFiles(fw)
  BY DEF StatusInv, TasksInside
<1>4. ~Alone(fw)
  BY <1>1 DEF Alone
<1> QED BY <1>1, <1>2, <1>3, <1>4 DEF StatusInv, Sole

\* a task of work_thread goes on to its next stage
LEMMA MoveFacts ==
    ASSUME StatusInv, NEW fw \in Firmware, NEW f \in Files, NEW from \in Stages,
           NEW to \in Stages, from # to, MoveTask(fw, f, from, to)
    PROVE  /\ tasks' \in [Tasks -> Nat]
           /\ TasksInside'
           /\ \A g \in Firmware \ {fw} : \A h \in Files : \A s \in Stages :
                 tasks'[<<g, h, s>>] = tasks[<<g, h, s>>]
<1> DEFINE a == <<fw, f, from>>
           b == <<fw, f, to>>
<1>1. /\ tasks \in [Tasks -> Nat] /\ a \in Tasks /\ b \in Tasks /\ a # b
      /\ tasks[a] \in Nat /\ tasks[b] \in Nat /\ tasks[a] > 0
      /\ tasks' = [tasks EXCEPT ![a] = @ - 1, ![b] = @ + 1]
  BY DEF StatusInv, TypeInv, TypeOK, Tasks, MoveTask
<1> HIDE DEF a, b
<1>2. /\ tasks' \in [Tasks -> Nat]
      /\ \A t \in Tasks : t # a /\ t # b => tasks'[t] = tasks[t]
  BY <1>1
<1>3. \A g \in Firmware : \A h \in Files : \A s \in Stages :
          <<g, h, s>> \in Tasks /\ (g # fw \/ h # f => <<g, h, s>> # a /\ <<g, h, s>> # b)
  BY DEF Tasks, a, b
<1>4. \A g \in Firmware : \A h \in Files : \A s \in Stages :
          g # fw \/ h # f => tasks'[<<g, h, s>>] = tasks[<<g, h, s>>]
  BY <1>2, <1>3
<1>5. f \in AllFiles(fw)
  BY TaskFacts DEF MoveTask
<1>6. TasksInside'
  <2> SUFFICES ASSUME NEW g \in Firmware, NEW h \in Files, NEW s \in Stages,
                      tasks'[<<g, h, s>>] > 0
               PROVE  h \in AllFiles(g)
    BY DEF TasksInside
  <2> QED BY <1>4, <1>5 DEF StatusInv, TasksInside
<1> QED BY <1>2, <1>4, <1>6

\* a step of the unpacking that neither sends a message nor is a request
LEMMA UnpackingKeeps ==
    ASSUME StatusInv, NEW fw \in Firmware, NEW f \in Files, NEW s \in Stages,
           tasks[<<fw, f, s>>] > 0, UNCHANGED <<workerVars, queue, stored, update, analysing>>,
           tasks' \in [Tasks -> Nat], TasksInside',
           \A g \in Firmware \ {fw} : \A h \in Files : \A st \in Stages :
              tasks'[<<g, h, st>>] = tasks[<<g, h, st>>],
           extracted' \in [Firmware -> [remaining: SUBSET Files, done: SUBSET Files]],
           \A g \in Firmware \ {fw} : extracted'[g] = extracted[g],
           budget' \in Budget, budget'.updates = budget.updates,
           round' = round \/ Lost(fw, f)
    PROVE  StatusInv'
<1>a. /\ TypeOK /\ budget \in Budget /\ budget.updates \in Nat
      /\ \A g \in Firmware : round[g].requests \in Nat
  <2>1. TypeOK /\ budget \in Budget
    BY DEF StatusInv, TypeInv
  <2> QED BY <2>1, StatusConstants DEF TypeOK, Budget
<1>1. /\ round' \in [Firmware -> [requests: Nat, early: BOOLEAN, analysed: SUBSET Files,
                                  lost: SUBSET Files]]
      /\ \A g \in Firmware : /\ round'[g].requests = round[g].requests
                             /\ round'[g].early = round[g].early
                             /\ round'[g].analysed = round[g].analysed
      /\ \A g \in Firmware \ {fw} : round'[g] = round[g]
  <2>1. CASE round' = round
    BY <1>a, <2>1 DEF TypeOK
  <2>2. CASE Lost(fw, f)
    <3>1. {f} \in SUBSET Files /\ round' = [round EXCEPT ![fw].lost = @ \cup {f}]
      BY <2>2 DEF Lost
    <3> QED BY <3>1, LostFacts
  <2> QED BY <2>1, <2>2
<1>2. ~Idle(fw) /\ (UpdateWaits(fw) => round[fw].requests > 1)
  BY TaskFacts
<1>3. TypeInv'
  BY <1>a, <1>1 DEF StatusInv, TypeInv, TypeOK, workerVars, recently
<1>4. Sole(fw)'
  <2>1. UpdateWaits(fw)' => UpdateWaits(fw)
    BY DEF UpdateWaits
  <2>2. round[fw].requests \in Nat /\ round'[fw].requests = round[fw].requests
    BY <1>a, <1>1
  <2> QED BY <1>2, <2>1, <2>2 DEF Sole
<1>5. Later(round[fw], round'[fw])
  BY <1>a, <1>1 DEF Later
<1>6. budget'.updates <= budget.updates
  BY <1>a
<1>7. OnlyAbout(fw)
  BY <1>1, <1>2, <1>3, <1>5, <1>6 DEF OnlyAbout
<1> QED BY <1>4, <1>7, SendNothing

\* the unpacking adds files of the firmware, and reports what it has stored
LEMMA UnpackingStep ==
    ASSUME StatusInv, NEW fw \in Firmware, Unpacking(fw)
    PROVE  StatusInv'
<1>a. /\ TypeInv /\ TypeOK /\ budget \in Budget /\ TasksInside /\ tasks \in [Tasks -> Nat]
      /\ extracted \in [Firmware -> [remaining: SUBSET Files, done: SUBSET Files]]
      /\ stored \subseteq Firmware \X Files /\ analysing \in [Firmware \X Files -> Nat]
  BY DEF StatusInv, TypeInv, TypeOK
<1>b. /\ fw \in Files /\ budget.updates \in Nat /\ fw \in AllFiles(fw)
      /\ \A f \in Files : Content[f] \in SUBSET Files
  BY <1>a, StatusConstants DEF Budget, AllFiles
<1>c. /\ "queued" \in Stages /\ "started" \in Stages /\ "posted" \in Stages /\ "failed" \in Stages
  BY DEF Stages
<1>1. CASE AddTask(fw)
  <2> DEFINE a == <<fw, fw, "queued">>
  <2>1. /\ tasks' = [tasks EXCEPT ![a] = @ + 1] /\ a \in Tasks
        /\ Requested(fw, FALSE) /\ budget.uploads[fw] > 0 /\ budget.requests > 0
        /\ UNCHANGED <<workerVars, queue, extracted, stored, update, analysing>>
    BY <1>1, <1>b, <1>c DEF AddTask, Tasks
  <2>2. budget' \in Budget /\ budget'.updates <= budget.updates
    <3>1. budget.uploads \in [Firmware -> Nat] /\ budget.requests \in Nat
      BY <1>a DEF Budget
    <3>2. [budget.uploads EXCEPT ![fw] = @ - 1] \in [Firmware -> Nat] /\ budget.requests - 1 \in Nat
      BY <2>1, <3>1
    <3>3. budget' = [budget EXCEPT !.uploads = [budget.uploads EXCEPT ![fw] = @ - 1],
                                   !.requests = budget.requests - 1]
      BY <1>1, <1>a DEF AddTask, Budget
    <3>4. budget' \in Budget /\ budget'.updates = budget.updates
      BY <1>a, <3>2, <3>3 DEF Budget
    <3> QED BY <1>b, <3>4
  <2>3. \A g \in Firmware : \A h \in Files : \A s \in Stages :
            <<g, h, s>> \in Tasks /\ (g # fw \/ h # fw => <<g, h, s>> # a)
    BY DEF Tasks
  <2> HIDE DEF a
  <2>4. tasks' \in [Tasks -> Nat] /\ \A t \in Tasks : t # a => tasks'[t] = tasks[t]
    BY <1>a, <2>1
  <2>5. \A g \in Firmware : \A h \in Files : \A s \in Stages :
            g # fw \/ h # fw => tasks'[<<g, h, s>>] = tasks[<<g, h, s>>]
    BY <2>3, <2>4
  <2>6. TasksInside'
    <3> SUFFICES ASSUME NEW g \in Firmware, NEW h \in Files, NEW s \in Stages,
                        tasks'[<<g, h, s>>] > 0
                 PROVE  h \in AllFiles(g)
      BY DEF TasksInside
    <3> QED BY <1>a, <1>b, <2>5 DEF TasksInside
  <2>7. /\ round' \in [Firmware -> [requests: Nat, early: BOOLEAN, analysed: SUBSET Files,
                                    lost: SUBSET Files]]
        /\ \A g \in Firmware \ {fw} : round'[g] = round[g]
        /\ Idle(fw) => round'[fw].requests = 1
        /\ ~Idle(fw) => Later(round[fw], round'[fw]) /\ round'[fw].requests > 1
    BY <2>1, RequestedFacts
  <2>8. TypeInv'
    BY <1>a, <2>1, <2>2, <2>4, <2>7 DEF TypeInv, TypeOK, workerVars, recently
  <2>9. Sole(fw)'
    <3>1. UpdateWaits(fw)' => UpdateWaits(fw)
      BY <2>1 DEF UpdateWaits
    <3>2. Idle(fw) => ~UpdateWaits(fw)
      BY IdleFacts
    <3>3. round'[fw].requests \in Nat
      BY <2>7
    <3> QED BY <2>7, <3>1, <3>2, <3>3 DEF Sole
  <2>10. OnlyAbout(fw)
    BY <2>1, <2>2, <2>5, <2>6, <2>7, <2>8 DEF OnlyAbout
  <2> QED BY <2>1, <2>9, <2>10, SendNothing
<1>2. CASE StartFirmware(fw)
  <2>1. /\ MoveTask(fw, fw, "queued", "started") /\ tasks[<<fw, fw, "queued">>] > 0
        /\ UNCHANGED <<workerVars, queue, stored, update, analysing, round, budget>>
    BY <1>2 DEF StartFirmware, MoveTask
  <2>2. /\ tasks' \in [Tasks -> Nat] /\ TasksInside'
        /\ \A g \in Firmware \ {fw} : \A h \in Files : \A s \in Stages :
              tasks'[<<g, h, s>>] = tasks[<<g, h, s>>]
    BY <1>b, <1>c, <2>1, MoveFacts
  <2>3. /\ extracted' \in [Firmware -> [remaining: SUBSET Files, done: SUBSET Files]]
        /\ \A g \in Firmware \ {fw} : extracted'[g] = extracted[g]
    <3>1. [remaining |-> {fw}, done |-> {}] \in [remaining: SUBSET Files, done: SUBSET Files]
      BY <1>b
    <3> QED BY <1>2, <1>a, <3>1 DEF StartFirmware
  <2> QED BY <1>a, <1>b, <1>c, <2>1, <2>2, <2>3, UnpackingKeeps
<1>3. ASSUME NEW f \in Files, StartFile(fw, f) PROVE StatusInv'
  <2>1. /\ UNCHANGED <<workerVars, queue, extracted, stored, update, analysing, budget>>
        /\ tasks[<<fw, f, "queued">>] > 0
    BY <1>3 DEF StartFile, MoveTask
  <2>2. /\ tasks' \in [Tasks -> Nat] /\ TasksInside'
        /\ \A g \in Firmware \ {fw} : \A h \in Files : \A s \in Stages :
              tasks'[<<g, h, s>>] = tasks[<<g, h, s>>]
    <3>1. CASE MoveTask(fw, f, "queued", "started")
      BY <1>b, <1>c, <3>1, MoveFacts
    <3>2. CASE tasks' = [tasks EXCEPT ![<<fw, f, "queued">>] = @ - 1]
      <4> DEFINE a == <<fw, f, "queued">>
      <4>1. a \in Tasks /\ tasks[a] - 1 \in Nat
        BY <1>c, <2>1, TaskFacts DEF Tasks
      <4>2. \A g \in Firmware : \A h \in Files : \A s \in Stages :
                <<g, h, s>> \in Tasks /\ (g # fw \/ h # f => <<g, h, s>> # a)
        BY DEF Tasks
      <4>3. f \in AllFiles(fw)
        BY <1>c, <2>1, TaskFacts
      <4> HIDE DEF a
      <4>4. tasks' \in [Tasks -> Nat] /\ \A t \in Tasks : t # a => tasks'[t] = tasks[t]
        BY <1>a, <3>2, <4>1 DEF a
      <4>5. \A g \in Firmware : \A h \in Files : \A s \in Stages :
                g # fw \/ h # f => tasks'[<<g, h, s>>] = tasks[<<g, h, s>>]
        BY <4>2, <4>4
      <4>6. TasksInside'
        <5> SUFFICES ASSUME NEW g \in Firmware, NEW h \in Files, NEW s \in Stages,
                            tasks'[<<g, h, s>>] > 0
                     PROVE  h \in AllFiles(g)
          BY DEF TasksInside
        <5> QED BY <1>a, <4>3, <4>5 DEF TasksInside
      <4> QED BY <4>4, <4>5, <4>6
    <3> QED BY <1>3, <3>1, <3>2 DEF StartFile
  <2>3. round' = round \/ Lost(fw, f)
    BY <1>3 DEF StartFile
  <2>4. \A g \in Firmware \ {fw} : extracted'[g] = extracted[g]
    BY <2>1
  <2> QED BY <1>a, <1>c, <2>1, <2>2, <2>3, <2>4, UnpackingKeeps
<1>4. ASSUME NEW f \in Files, FailToStore(fw, f) PROVE StatusInv'
  <2>1. /\ MoveTask(fw, f, "started", "failed") /\ tasks[<<fw, f, "started">>] > 0
        /\ UNCHANGED <<workerVars, queue, extracted, stored, update, analysing>>
        /\ Lost(fw, f) /\ budget.failures > 0
        /\ budget' = [budget EXCEPT !.failures = @ - 1]
    BY <1>4 DEF FailToStore, MoveTask
  <2>2. /\ tasks' \in [Tasks -> Nat] /\ TasksInside'
        /\ \A g \in Firmware \ {fw} : \A h \in Files : \A s \in Stages :
              tasks'[<<g, h, s>>] = tasks[<<g, h, s>>]
    BY <1>c, <2>1, MoveFacts
  <2>3. budget' \in Budget /\ budget'.updates = budget.updates
    <3>1. budget.failures - 1 \in Nat
      BY <1>a, <2>1 DEF Budget
    <3> QED BY <1>a, <2>1, <3>1 DEF Budget
  <2>4. \A g \in Firmware \ {fw} : extracted'[g] = extracted[g]
    BY <2>1
  <2> QED BY <1>a, <1>c, <2>1, <2>2, <2>3, <2>4, UnpackingKeeps
<1>5. ASSUME NEW f \in Files, NEW stage \in Stages, UpdateCurrentlyUnpacked(fw, f, stage)
      PROVE  StatusInv'
  <2> DEFINE e == extracted[fw]
             found == IF e # NoEntry /\ stage = "posted" THEN Content[f] ELSE {}
             new == found \ (e.remaining \cup e.done \cup {f})
             remaining == (e.remaining \cup new) \ {f}
             a == <<fw, f, stage>>
             next == IF remaining = {} THEN NoEntry
                     ELSE [remaining |-> remaining, done |-> e.done \cup {f}]
  <2>1. /\ tasks[<<fw, f, stage>>] > 0
        /\ UNCHANGED <<workerVars, queue, stored, update, analysing, round, budget>>
    BY <1>5 DEF UpdateCurrentlyUnpacked
  <2>2. f \in AllFiles(fw) /\ tasks[<<fw, f, stage>>] - 1 \in Nat
    BY <2>1, TaskFacts
  <2>3. Content[f] \subseteq AllFiles(fw)
    BY <2>2, StatusConstants DEF AllFiles
  <2>4. new \in SUBSET Files /\ new \subseteq AllFiles(fw)
    BY <1>b, <2>3
  <2>5. tasks' = [t \in Tasks |->
                    IF t = a THEN tasks[t] - 1
                    ELSE IF t \in {<<fw, g, "queued">> : g \in new} THEN tasks[t] + 1 ELSE tasks[t]]
    BY <1>5 DEF UpdateCurrentlyUnpacked
  <2>6. /\ extracted' \in [Firmware -> [remaining: SUBSET Files, done: SUBSET Files]]
        /\ \A g \in Firmware \ {fw} : extracted'[g] = extracted[g]
    <3>1. extracted' = extracted \/ extracted' = [extracted EXCEPT ![fw] = next]
      BY <1>5 DEF UpdateCurrentlyUnpacked
    <3>2. next \in [remaining: SUBSET Files, done: SUBSET Files]
      <4>1. e.remaining \in SUBSET Files /\ e.done \in SUBSET Files
        BY <1>a
      <4>2. remaining \in SUBSET Files /\ e.done \cup {f} \in SUBSET Files
        BY <2>4, <4>1
      <4>3. NoEntry \in [remaining: SUBSET Files, done: SUBSET Files]
        BY DEF NoEntry
      <4> HIDE DEF remaining, e
      <4> QED BY <4>2, <4>3
    <3> HIDE DEF next
    <3> QED BY <1>a, <3>1, <3>2
  <2>7. \A g \in Firmware : \A h \in Files : \A s \in Stages :
            /\ <<g, h, s>> \in Tasks
            /\ <<g, h, s>> = a => g = fw /\ h = f
            /\ <<g, h, s>> \in {<<fw, k, "queued">> : k \in new} => g = fw /\ h \in new
    BY DEF Tasks
  <2> HIDE DEF new, a
  <2>8. tasks' \in [Tasks -> Nat]
    <3>1. tasks[a] - 1 \in Nat
      BY <2>2 DEF a
    <3>2. \A t \in Tasks : tasks[t] \in Nat /\ tasks[t] + 1 \in Nat
      BY <1>a
    <3> QED BY <2>5, <3>1, <3>2
  <2>9. \A g \in Firmware : \A h \in Files : \A s \in Stages :
            tasks'[<<g, h, s>>] = tasks[<<g, h, s>>] \/ (g = fw /\ h \in AllFiles(fw))
    BY <2>2, <2>4, <2>5, <2>7
  <2>10. TasksInside'
    <3> SUFFICES ASSUME NEW g \in Firmware, NEW h \in Files, NEW s \in Stages,
                        tasks'[<<g, h, s>>] > 0
                 PROVE  h \in AllFiles(g)
      BY DEF TasksInside
    <3> QED BY <1>a, <2>9 DEF TasksInside
  <2>11. \A g \in Firmware \ {fw} : \A h \in Files : \A s \in Stages :
            tasks'[<<g, h, s>>] = tasks[<<g, h, s>>]
    BY <2>9
  <2> QED BY <1>a, <2>1, <2>6, <2>8, <2>10, <2>11, UnpackingKeeps
<1>6. ASSUME NEW f \in Files, NEW m \in Message, Post(fw, f, m), m.root = fw, m.type # "add_update",
             \A r : f \in AllFiles(fw) => Truthful("unpacking", m, budget, r)
      PROVE  StatusInv'
  <2>1. /\ MoveTask(fw, f, "started", "posted") /\ tasks[<<fw, f, "started">>] > 0
        /\ stored' = stored \cup {<<fw, f>>} /\ Put("unpacking", m)
        /\ analysing' = [analysing EXCEPT ![<<fw, f>>] = @ + 1]
        /\ UNCHANGED <<workerVars, extracted, update, round, budget>>
    BY <1>6 DEF Post, MoveTask
  <2>2. /\ tasks' \in [Tasks -> Nat] /\ TasksInside'
        /\ \A g \in Firmware \ {fw} : \A h \in Files : \A s \in Stages :
              tasks'[<<g, h, s>>] = tasks[<<g, h, s>>]
    BY <1>c, <2>1, MoveFacts
  <2>3. /\ f \in AllFiles(fw) /\ ~Idle(fw) /\ (UpdateWaits(fw) => round[fw].requests > 1)
    BY <1>c, <2>1, TaskFacts
  <2>4. /\ analysing' \in [Firmware \X Files -> Nat]
        /\ \A g \in Firmware \ {fw} : \A h \in Files : analysing'[<<g, h>>] = analysing[<<g, h>>]
    BY <1>a, <2>1
  <2>5. stored' \subseteq Firmware \X Files
    BY <1>a, <2>1
  <2>6. "unpacking" \in Senders /\ queue \in [Senders -> Seq(Message)]
    BY <1>a DEF Senders, TypeInv
  <2>7. queue' \in [Senders -> Seq(Message)] /\ queue'["update"] = queue["update"]
    <3>1. "update" \in Senders \ {"unpacking"}
      BY DEF Senders
    <3> QED BY <2>1, <2>6, <3>1, PutFacts
  <2>8. TypeInv'
    BY <1>a, <2>1, <2>2, <2>4, <2>5, <2>7 DEF TypeInv, TypeOK, workerVars, recently
  <2>9. round[fw].requests \in Nat
    BY <1>a DEF TypeOK
  <2>10. Sole(fw)'
    <3>1. UpdateWaits(fw)' => UpdateWaits(fw)
      BY <2>1, <2>7 DEF UpdateWaits
    <3> QED BY <2>1, <2>3, <2>9, <3>1 DEF Sole
  <2>11. Later(round[fw], round'[fw])
    BY <2>1, <2>9 DEF Later
  <2>12. OnlyAbout(fw)
    BY <1>b, <2>1, <2>2, <2>3, <2>4, <2>8, <2>11 DEF OnlyAbout
  <2>13. Truthful("unpacking", m, budget', round'[fw])
    BY <1>6, <2>1, <2>3
  <2> QED BY <1>6, <2>1, <2>6, <2>10, <2>12, <2>13, SendOne
<1>7. CASE AddFirmware(fw)
  <2> DEFINE m == [type |-> "add_firmware", root |-> fw, files |-> Content[fw]]
  <2>1. m \in Message /\ m.root = fw /\ m.type # "add_update"
    BY <1>b DEF Message, AddFirmwareMessage
  <2>2. \A r : Truthful("unpacking", m, budget, r)
    BY DEF Truthful
  <2>3. Post(fw, fw, m)
    BY <1>7 DEF AddFirmware
  <2> HIDE DEF m
  <2> QED BY <1>6, <1>b, <2>1, <2>2, <2>3
<1>8. ASSUME NEW f \in Files, AddFile(fw, f) PROVE StatusInv'
  <2> DEFINE m == [type |-> "add_file", uid |-> f, root |-> fw, files |-> Content[f]]
  <2>1. m \in Message /\ m.root = fw /\ m.type # "add_update"
    BY <1>b DEF Message, AddFileMessage
  <2>2. f # fw /\ Post(fw, f, m)
    BY <1>8 DEF AddFile
  <2>3. \A r : f \in AllFiles(fw) => Truthful("unpacking", m, budget, r)
    BY <2>2 DEF Truthful, AllFiles
  <2> HIDE DEF m
  <2> QED BY <1>6, <2>1, <2>2, <2>3
<1> QED BY <1>1, <1>2, <1>3, <1>4, <1>5, <1>7, <1>8 DEF Unpacking

\* the analysis of a file ends or reports a result: an update of the firmware stays
\* alone
LEMMA AnalysisKeeps ==
    ASSUME StatusInv, NEW fw \in Firmware, NEW f \in Files, analysing[<<fw, f>>] > 0,
           UNCHANGED <<workerVars, unpackingVars, update>>,
           analysing' \in [Firmware \X Files -> Nat],
           \A g \in Firmware \ {fw} : \A h \in Files : analysing'[<<g, h>>] = analysing[<<g, h>>],
           budget' \in Budget, budget'.updates = budget.updates,
           round' \in [Firmware -> [requests: Nat, early: BOOLEAN, analysed: SUBSET Files,
                                    lost: SUBSET Files]],
           \A g \in Firmware \ {fw} : round'[g] = round[g],
           round'[fw].requests = round[fw].requests, Later(round[fw], round'[fw]),
           NEW p \in Senders \ {"update"}, NEW m \in Message, m.root = fw, m.type # "add_update",
           m.type # "add_file", m.type # "cancel", Truthful(p, m, budget', round'[fw]),
           Put(p, m) \/ queue' = queue
    PROVE  StatusInv'
<1>a. /\ TypeInv /\ TypeOK /\ budget.updates \in Nat /\ queue \in [Senders -> Seq(Message)]
      /\ TasksInside
  <2>1. TypeInv /\ TypeOK /\ TasksInside
    BY DEF StatusInv, TypeInv
  <2> QED BY <2>1, StatusConstants DEF Budget, TypeInv
<1>b. ~Idle(fw)
  BY DEF Idle, Underway
<1>c. /\ queue' \in [Senders -> Seq(Message)] /\ queue'["update"] = queue["update"]
      /\ \A q \in Senders : \A i \in 1 .. Len(queue'[q]) :
            queue'[q][i] = m \/ (i \in 1 .. Len(queue[q]) /\ queue'[q][i] = queue[q][i])
  <2>1. CASE queue' = queue
    BY <1>a, <2>1
  <2>2. CASE Put(p, m)
    <3>1. /\ queue' \in [Senders -> Seq(Message)]
          /\ \A q \in Senders \ {p} : queue'[q] = queue[q]
          /\ Len(queue[p]) \in Nat /\ Len(queue'[p]) = Len(queue[p]) + 1
          /\ \A i \in 1 .. Len(queue[p]) : queue'[p][i] = queue[p][i]
          /\ queue'[p][Len(queue[p]) + 1] = m
      BY <1>a, <2>2, PutFacts
    <3>2. "update" \in Senders \ {p}
      BY DEF Senders
    <3>3. \A i \in 1 .. Len(queue'[p]) : i \in 1 .. Len(queue[p]) \/ i = Len(queue[p]) + 1
      BY <3>1
    <3>4. ASSUME NEW q \in Senders, NEW i \in 1 .. Len(queue'[q])
          PROVE  queue'[q][i] = m \/ (i \in 1 .. Len(queue[q]) /\ queue'[q][i] = queue[q][i])
      <4>1. CASE q = p
        BY <3>1, <3>3, <4>1
      <4>2. CASE q # p
        BY <3>1, <4>2
      <4> QED BY <4>1, <4>2
    <3> QED BY <3>1, <3>2, <3>4
  <2> QED BY <2>1, <2>2
<1>1. TypeInv'
  BY <1>a, <1>c DEF TypeInv, TypeOK, workerVars, recently, unpackingVars
<1>2. TasksInside'
  BY <1>a DEF TasksInside, unpackingVars
<1>3. OnlyAbout(fw)
  <2>1. budget'.updates <= budget.updates
    BY <1>a
  <2> QED BY <1>b, <1>1, <1>2, <2>1 DEF OnlyAbout, unpackingVars
<1>4. Sole(fw)'
  <2> SUFFICES ASSUME round'[fw].requests <= 1, UpdateWaits(fw)' PROVE Alone(fw)'
    BY DEF Sole
  <2>1. UpdateWaits(fw)
    BY <1>c DEF UpdateWaits
  <2>2. Alone(fw)
    BY <2>1 DEF StatusInv, Sole
  <2>3. \A h \in Files : \A s \in Stages : tasks'[<<fw, h, s>>] = 0
    BY <2>2 DEF Alone, unpackingVars
  <2>4. \A q \in Senders : \A i \in 1 .. Len(queue'[q]) : queue'[q][i].root = fw =>
            queue'[q][i].type # "add_file" /\ queue'[q][i].type # "cancel"
    <3> SUFFICES ASSUME NEW q \in Senders, NEW i \in 1 .. Len(queue'[q]), queue'[q][i].root = fw
                 PROVE  queue'[q][i].type # "add_file" /\ queue'[q][i].type # "cancel"
      OBVIOUS
    <3>1. CASE queue'[q][i] = m
      BY <3>1
    <3>2. CASE i \in 1 .. Len(queue[q]) /\ queue'[q][i] = queue[q][i]
      BY <2>2, <3>2 DEF Alone
    <3> QED BY <1>c, <3>1, <3>2
  <2> QED BY <2>3, <2>4 DEF Alone
<1>5. CASE Put(p, m)
  BY <1>3, <1>4, <1>5, SendOne
<1>6. CASE queue' = queue
  BY <1>3, <1>4, <1>6, SendNothing
<1> QED BY <1>5, <1>6

\* the analysis scheduler and the listeners
LEMMA AnalysisStep ==
    ASSUME StatusInv, NEW fw \in Firmware, Analysis(fw)
    PROVE  StatusInv'
<1>a. /\ TypeInv /\ TypeOK /\ budget \in Budget /\ TasksInside /\ tasks \in [Tasks -> Nat]
      /\ extracted \in [Firmware -> [remaining: SUBSET Files, done: SUBSET Files]]
      /\ analysing \in [Firmware \X Files -> Nat] /\ queue \in [Senders -> Seq(Message)]
      /\ round \in [Firmware -> [requests: Nat, early: BOOLEAN, analysed: SUBSET Files,
                                 lost: SUBSET Files]]
  BY DEF StatusInv, TypeInv, TypeOK
<1>b. /\ fw \in Files /\ budget.updates \in 0 .. MaxUpdates /\ MaxUpdates \in Nat
      /\ budget.updates \in Nat /\ round[fw].requests \in Nat
  BY <1>a, StatusConstants DEF Budget
<1>c. \A w \in Workers : w \in Senders \ {"update"}
  BY StatusConstants DEF Senders
<1>d. "cancel" \in Senders \ {"update"} /\ "update" \in Senders
  BY DEF Senders
<1>1. ASSUME NEW w \in Workers, NEW f \in Files, NEW plugin \in Plugins, AddAnalysis(w, fw, f, plugin)
      PROVE  StatusInv'
  <2> DEFINE m == [type |-> "add_analysis", root |-> fw, plugin |-> plugin]
  <2>1. /\ analysing[<<fw, f>>] > 0 /\ budget.reports > 0
        /\ budget' = [budget EXCEPT !.reports = @ - 1] /\ Put(w, m)
        /\ UNCHANGED <<workerVars, unpackingVars, update, analysing, round>>
    BY <1>1 DEF AddAnalysis
  <2>2. budget' \in Budget /\ budget'.updates = budget.updates
    <3>1. budget.reports - 1 \in Nat
      BY <1>a, <2>1 DEF Budget
    <3> QED BY <1>a, <2>1, <3>1 DEF Budget
  <2>3. /\ m \in Message /\ m.root = fw /\ m.type # "add_update" /\ m.type # "add_file"
        /\ m.type # "cancel" /\ Truthful(w, m, budget', round'[fw])
    BY DEF Message, AddAnalysisMessage, Truthful
  <2>4. Later(round[fw], round'[fw])
    BY <1>b, <2>1 DEF Later
  <2> HIDE DEF m
  <2> QED BY <1>a, <1>c, <2>1, <2>2, <2>3, <2>4, AnalysisKeeps
<1>2. ASSUME NEW w \in Workers, NEW f \in Files, RemoveObject(w, fw, f) PROVE StatusInv'
  <2> DEFINE m == [type |-> "remove_file", uid |-> f, root |-> fw]
             new == [round[fw] EXCEPT !.analysed = @ \cup {f}]
  <2>1. /\ analysing[<<fw, f>>] > 0 /\ analysing' = [analysing EXCEPT ![<<fw, f>>] = @ - 1]
        /\ round' = [round EXCEPT ![fw] = new] /\ Put(w, m)
        /\ UNCHANGED <<workerVars, unpackingVars, update, budget>>
    BY <1>2 DEF RemoveObject
  <2>2. /\ analysing' \in [Firmware \X Files -> Nat]
        /\ \A g \in Firmware \ {fw} : \A h \in Files : analysing'[<<g, h>>] = analysing[<<g, h>>]
    BY <1>a, <2>1
  <2>3. /\ new \in [requests: Nat, early: BOOLEAN, analysed: SUBSET Files, lost: SUBSET Files]
        /\ new.requests = round[fw].requests /\ new.early = round[fw].early
        /\ new.analysed = round[fw].analysed \cup {f}
    <3>1. round[fw].analysed \cup {f} \in SUBSET Files
      BY <1>a
    <3> QED BY <1>a, <3>1
  <2> HIDE DEF new
  <2>4. /\ round' \in [Firmware -> [requests: Nat, early: BOOLEAN, analysed: SUBSET Files,
                                    lost: SUBSET Files]]
        /\ \A g \in Firmware \ {fw} : round'[g] = round[g]
        /\ round'[fw] = new
    BY <1>a, <2>1, <2>3
  <2>5. Later(round[fw], round'[fw]) /\ f \in round'[fw].analysed
    BY <1>b, <2>3, <2>4 DEF Later
  <2>6. /\ m \in Message /\ m.root = fw /\ m.type # "add_update" /\ m.type # "add_file"
        /\ m.type # "cancel" /\ Truthful(w, m, budget', round'[fw])
    BY <2>5 DEF Message, RemoveFileMessage, Truthful
  <2>7. budget' \in Budget /\ budget'.updates = budget.updates /\ round'[fw].requests = round[fw].requests
    BY <1>a, <2>1, <2>3, <2>4
  <2>8. analysing[<<fw, f>>] > 0 /\ Put(w, m) /\ w \in Senders \ {"update"} /\ UNCHANGED <<workerVars, unpackingVars, update>>
    BY <1>c, <2>1
  <2> HIDE DEF m
  <2> QED BY <2>2, <2>4, <2>5, <2>6, <2>7, <2>8, AnalysisKeeps
<1>3. ASSUME NEW f \in Files, DropObject(fw, f) PROVE StatusInv'
  <2> DEFINE m == [type |-> "add_firmware", root |-> fw, files |-> Content[fw]]
  <2>1. /\ analysing[<<fw, f>>] > 0 /\ analysing' = [analysing EXCEPT ![<<fw, f>>] = @ - 1]
        /\ round' = [round EXCEPT ![fw].lost = @ \cup {f}]
        /\ UNCHANGED <<workerVars, queue, unpackingVars, update, budget>>
    BY <1>3 DEF DropObject, Lost
  <2>2. /\ analysing' \in [Firmware \X Files -> Nat]
        /\ \A g \in Firmware \ {fw} : \A h \in Files : analysing'[<<g, h>>] = analysing[<<g, h>>]
    BY <1>a, <2>1
  <2>3. {f} \in SUBSET Files
    OBVIOUS
  <2>4. /\ round' \in [Firmware -> [requests: Nat, early: BOOLEAN, analysed: SUBSET Files,
                                    lost: SUBSET Files]]
        /\ round'[fw].requests = round[fw].requests /\ round'[fw].early = round[fw].early
        /\ round'[fw].analysed = round[fw].analysed
        /\ \A g \in Firmware \ {fw} : round'[g] = round[g]
    BY <2>1, <2>3, LostFacts
  <2>5. Later(round[fw], round'[fw])
    BY <1>b, <2>4 DEF Later
  <2>6. /\ m \in Message /\ m.root = fw /\ m.type # "add_update" /\ m.type # "add_file"
        /\ m.type # "cancel" /\ Truthful("cancel", m, budget', round'[fw])
    BY <1>b, StatusConstants DEF Message, AddFirmwareMessage, Truthful
  <2>7. budget' \in Budget /\ budget'.updates = budget.updates
    BY <1>a, <2>1
  <2>8. analysing[<<fw, f>>] > 0 /\ queue' = queue /\ UNCHANGED <<workerVars, unpackingVars, update>>
    BY <2>1
  <2> HIDE DEF m
  <2> QED BY <1>d, <2>2, <2>4, <2>5, <2>6, <2>7, <2>8, AnalysisKeeps
<1>4. CASE UpdateAnalysis(fw)
  <2> DEFINE included == {f \in Files \ {fw} : <<fw, f>> \in stored}
             early == included # Reachable[fw]
             u == [root |-> fw, files |-> included]
  <2>1. /\ update = Nobody /\ budget.updates > 0 /\ budget.requests > 0
        /\ budget' = [budget EXCEPT !.updates = @ - 1, !.requests = @ - 1]
        /\ update' = u /\ Requested(fw, early)
        /\ UNCHANGED <<workerVars, queue, unpackingVars, analysing>>
    BY <1>4 DEF UpdateAnalysis
  <2>2. budget' \in Budget /\ budget'.updates = budget.updates - 1
    <3>1. budget.updates - 1 \in 0 .. MaxUpdates /\ budget.requests - 1 \in Nat
      BY <1>a, <1>b, <2>1 DEF Budget
    <3> QED BY <1>a, <2>1, <3>1 DEF Budget
  <2>3. u \in [root: Firmware, files: SUBSET Files] /\ u.root = fw /\ u.files = included
    OBVIOUS
  <2>4. early \in BOOLEAN /\ (~early => u.files = Reachable[fw])
    BY <2>3
  <2> HIDE DEF u, early
  <2>5. /\ round' \in [Firmware -> [requests: Nat, early: BOOLEAN, analysed: SUBSET Files,
                                    lost: SUBSET Files]]
        /\ \A g \in Firmware \ {fw} : round'[g] = round[g]
        /\ early => round'[fw].early
        /\ Idle(fw) => round'[fw].requests = 1
        /\ ~Idle(fw) => Later(round[fw], round'[fw]) /\ round'[fw].requests > 1
    BY <2>1, <2>4, RequestedFacts
  <2>6. TypeInv'
    <3>1. update' \in {Nobody} \cup [root: Firmware, files: SUBSET Files]
      BY <2>1, <2>3
    <3> QED BY <1>a, <2>1, <2>2, <2>5, <3>1 DEF TypeInv, TypeOK, workerVars, recently, unpackingVars
  <2>7. TasksInside'
    BY <1>a, <2>1 DEF TasksInside, unpackingVars
  <2>8. /\ update'.root = fw /\ budget'.updates < MaxUpdates /\ budget'.updates <= budget.updates
        /\ ~round'[fw].early => update'.files = Reachable[fw]
    BY <1>b, <2>1, <2>2, <2>3, <2>4, <2>5
  <2>9. OnlyAbout(fw)
    BY <2>1, <2>5, <2>6, <2>7, <2>8 DEF OnlyAbout, unpackingVars
  <2>10. Sole(fw)'
    <3>1. CASE Idle(fw)
      <4>1. Alone(fw)
        BY <3>1, IdleFacts
      <4>2. Alone(fw)'
        BY <2>1, <4>1 DEF Alone, unpackingVars
      <4> QED BY <4>2 DEF Sole
    <3>2. CASE ~Idle(fw)
      <4>1. round'[fw].requests > 1 /\ round'[fw].requests \in Nat
        BY <2>5, <3>2
      <4> QED BY <4>1 DEF Sole
    <3> QED BY <3>1, <3>2
  <2> QED BY <2>1, <2>9, <2>10, SendNothing
<1>5. CASE CancelAnalysis(fw)
  <2> DEFINE m == [type |-> "cancel", root |-> fw]
  <2>1. /\ budget.cancels > 0 /\ budget.requests > 0
        /\ budget' = [budget EXCEPT !.cancels = @ - 1, !.requests = @ - 1]
        /\ extracted' \in {extracted, [extracted EXCEPT ![fw] = NoEntry]}
        /\ Put("cancel", m) /\ Requested(fw, FALSE)
        /\ UNCHANGED <<workerVars, tasks, stored, update, analysing>>
    BY <1>5 DEF CancelAnalysis
  <2>2. budget' \in Budget /\ budget'.updates <= budget.updates
    <3>1. budget.cancels - 1 \in Nat /\ budget.requests - 1 \in Nat
      BY <1>a, <2>1 DEF Budget
    <3>2. budget' \in Budget /\ budget'.updates = budget.updates
      BY <1>a, <2>1, <3>1 DEF Budget
    <3> QED BY <1>b, <3>2
  <2>3. /\ extracted' \in [Firmware -> [remaining: SUBSET Files, done: SUBSET Files]]
        /\ \A g \in Firmware \ {fw} : extracted'[g] = extracted[g]
    <3>1. NoEntry \in [remaining: SUBSET Files, done: SUBSET Files]
      BY DEF NoEntry
    <3> QED BY <1>a, <2>1, <3>1
  <2>4. /\ round' \in [Firmware -> [requests: Nat, early: BOOLEAN, analysed: SUBSET Files,
                                    lost: SUBSET Files]]
        /\ \A g \in Firmware \ {fw} : round'[g] = round[g]
        /\ Idle(fw) => round'[fw].requests = 1
        /\ ~Idle(fw) => Later(round[fw], round'[fw]) /\ round'[fw].requests > 1
    BY <2>1, RequestedFacts
  <2>5. /\ m \in Message /\ m.root = fw /\ m.type # "add_update"
        /\ Truthful("cancel", m, budget', round'[fw])
    BY DEF Message, CancelMessage, Truthful
  <2> HIDE DEF m
  <2>6. queue' \in [Senders -> Seq(Message)] /\ queue'["update"] = queue["update"]
    <3>1. "update" \in Senders \ {"cancel"}
      BY DEF Senders
    <3> QED BY <1>a, <1>d, <2>1, <2>5, <3>1, PutFacts
  <2>7. TypeInv'
    BY <1>a, <2>1, <2>2, <2>3, <2>4, <2>6 DEF TypeInv, TypeOK, workerVars, recently
  <2>8. TasksInside'
    BY <1>a, <2>1 DEF TasksInside
  <2>9. OnlyAbout(fw)
    BY <2>1, <2>2, <2>3, <2>4, <2>7, <2>8 DEF OnlyAbout
  <2>10. Sole(fw)'
    <3>1. UpdateWaits(fw)' => UpdateWaits(fw)
      BY <2>1, <2>6 DEF UpdateWaits
    <3>2. Idle(fw) => ~UpdateWaits(fw)
      BY IdleFacts
    <3>3. round'[fw].requests \in Nat
      BY <2>4
    <3> QED BY <2>4, <3>1, <3>2, <3>3 DEF Sole
  <2> QED BY <1>d, <2>1, <2>5, <2>9, <2>10, SendOne
<1> QED BY <1>1, <1>2, <1>3, <1>4, <1>5 DEF Analysis

\* add_update sends the two messages of an update that has read the files
LEMMA AddUpdateStep ==
    ASSUME StatusInv, AddUpdate
    PROVE  StatusInv'
<1>a. /\ TypeInv /\ TypeOK /\ budget \in Budget /\ TasksInside /\ UpdateTrue
      /\ analysing \in [Firmware \X Files -> Nat] /\ queue \in [Senders -> Seq(Message)]
      /\ update # Nobody
  BY DEF StatusInv, TypeInv, TypeOK, AddUpdate, Updated
<1> PICK fw \in Firmware : fw = update.root
  BY <1>a DEF TypeOK
<1> DEFINE m == [type |-> "add_firmware", root |-> fw, files |-> Content[fw]]
           n == [type |-> "add_update", root |-> fw, files |-> update.files]
<1>b. /\ budget.updates \in Nat /\ round[fw].requests \in Nat
      /\ Content[fw] \in SUBSET Files /\ update.files \in SUBSET Files
  BY <1>a, StatusConstants DEF Budget, TypeOK
<1>1. /\ PutTwo("update", m, n) /\ update' = Nobody
      /\ analysing' = [x \in Firmware \X Files |->
                          IF x[1] = update.root /\ x[2] \in update.files \cup {update.root}
                          THEN analysing[x] + 1 ELSE analysing[x]]
      /\ UNCHANGED <<workerVars, unpackingVars, round, budget>>
  BY DEF AddUpdate, Updated
<1>2. /\ m \in Message /\ n \in Message /\ m.root = fw /\ n.root = fw
      /\ m.type = "add_firmware" /\ n.type = "add_update"
  BY <1>b DEF Message, AddFirmwareMessage, AddUpdateMessage
<1>3. /\ Truthful("update", m, budget', round'[fw]) /\ Truthful("update", n, budget', round'[fw])
  BY <1>a, <1>1 DEF Truthful, UpdateTrue
<1> HIDE DEF m, n
<1>4. "update" \in Senders
  BY DEF Senders
<1>5. /\ queue' \in [Senders -> Seq(Message)]
      /\ \A q \in Senders \ {"update"} : queue'[q] = queue[q]
      /\ Len(queue["update"]) \in Nat /\ Len(queue'["update"]) = Len(queue["update"]) + 2
      /\ \A i \in 1 .. Len(queue["update"]) : queue'["update"][i] = queue["update"][i]
      /\ queue'["update"][Len(queue["update"]) + 1] = m
      /\ queue'["update"][Len(queue["update"]) + 2] = n
  BY <1>a, <1>1, <1>2, <1>4, PutTwoFacts
<1>6. ASSUME NEW q \in Senders
      PROVE  /\ Len(queue[q]) <= Len(queue'[q])
             /\ \A i \in 1 .. Len(queue[q]) : queue'[q][i] = queue[q][i]
             /\ \A i \in Len(queue[q]) + 1 .. Len(queue'[q]) :
                   /\ queue'[q][i].root = fw
                   /\ Truthful(q, queue'[q][i], budget', round'[fw])
                   /\ queue'[q][i].type = "add_update" =>
                         /\ i > 1
                         /\ queue'[q][i - 1].type = "add_firmware"
                         /\ queue'[q][i - 1].root = queue'[q][i].root
  <2>1. CASE q = "update"
    <3>1. ASSUME NEW i \in Len(queue["update"]) + 1 .. Len(queue'["update"])
          PROVE  /\ queue'["update"][i].root = fw
                 /\ Truthful("update", queue'["update"][i], budget', round'[fw])
                 /\ queue'["update"][i].type = "add_update" =>
                       /\ i > 1
                       /\ queue'["update"][i - 1].type = "add_firmware"
                       /\ queue'["update"][i - 1].root = queue'["update"][i].root
      <4>1. CASE i = Len(queue["update"]) + 1
        BY <1>2, <1>3, <1>5, <4>1
      <4>2. CASE i = Len(queue["update"]) + 2
        <5>1. i - 1 = Len(queue["update"]) + 1 /\ i > 1
          BY <1>5, <4>2
        <5> QED BY <1>2, <1>3, <1>5, <4>2, <5>1
      <4> QED BY <1>5, <4>1, <4>2
    <3>2. Len(queue["update"]) <= Len(queue'["update"])
      BY <1>5
    <3> QED BY <1>5, <2>1, <3>1, <3>2
  <2>2. CASE q # "update"
    <3>1. Len(queue[q]) \in Nat /\ queue'[q] = queue[q]
      BY <1>a, <1>5, <2>2, LenProperties
    <3> QED BY <3>1
  <2> QED BY <2>1, <2>2
<1>7. /\ analysing' \in [Firmware \X Files -> Nat]
      /\ \A g \in Firmware \ {fw} : \A h \in Files : analysing'[<<g, h>>] = analysing[<<g, h>>]
  <2>1. \A x \in Firmware \X Files : analysing[x] \in Nat /\ analysing[x] + 1 \in Nat
    BY <1>a
  <2>2. \A g \in Firmware \ {fw} : \A h \in Files : <<g, h>>[1] # fw /\ <<g, h>> \in Firmware \X Files
    OBVIOUS
  <2>3. \A g \in Firmware \ {fw} : \A h \in Files : analysing'[<<g, h>>] = analysing[<<g, h>>]
    BY <1>1, <2>2
  <2> QED BY <1>1, <2>1, <2>3
<1>8. TypeInv'
  BY <1>a, <1>1, <1>5, <1>7 DEF TypeInv, TypeOK, workerVars, recently, unpackingVars
<1>9. TasksInside'
  BY <1>a, <1>1 DEF TasksInside, unpackingVars
<1>10. ~Idle(fw)
  BY DEF Idle, Underway
<1>11. Sole(fw)'
  <2> SUFFICES ASSUME round'[fw].requests <= 1 PROVE Alone(fw)'
    BY DEF Sole
  <2>1. Alone(fw)
    BY <1>1 DEF StatusInv, Sole, UpdateWaits
  <2>2. \A h \in Files : \A s \in Stages : tasks'[<<fw, h, s>>] = 0
    BY <1>1, <2>1 DEF Alone, unpackingVars
  <2>3. \A i \in 1 .. Len(queue'["update"]) :
            \/ queue'["update"][i] = m \/ queue'["update"][i] = n
            \/ i \in 1 .. Len(queue["update"]) /\ queue'["update"][i] = queue["update"][i]
    <3>1. \A i \in 1 .. Len(queue'["update"]) :
              \/ i = Len(queue["update"]) + 1 \/ i = Len(queue["update"]) + 2
              \/ i \in 1 .. Len(queue["update"])
      BY <1>5
    <3> QED BY <1>5, <3>1
  <2>4. \A q \in Senders : \A i \in 1 .. Len(queue'[q]) : queue'[q][i].root = fw =>
            queue'[q][i].type # "add_file" /\ queue'[q][i].type # "cancel"
    <3> SUFFICES ASSUME NEW q \in Senders, NEW i \in 1 .. Len(queue'[q]), queue'[q][i].root = fw
                 PROVE  queue'[q][i].type # "add_file" /\ queue'[q][i].type # "cancel"
      OBVIOUS
    <3>1. CASE q = "update"
      BY <1>2, <1>4, <2>1, <2>3, <3>1 DEF Alone
    <3>2. CASE q # "update"
      BY <1>5, <2>1, <3>2 DEF Alone
    <3> QED BY <3>1, <3>2
  <2> QED BY <2>2, <2>4 DEF Alone
<1>12. Later(round[fw], round'[fw]) /\ budget'.updates <= budget.updates
  BY <1>b, <1>1 DEF Later
<1>13. OnlyAbout(fw)
  BY <1>1, <1>7, <1>8, <1>9, <1>10, <1>12 DEF OnlyAbout, unpackingVars
<1> QED BY <1>6, <1>11, <1>13, SendKeeps DEF OnlyAbout

\* the history says the same as before, but for the ends that nobody noticed
SameRounds ==
    /\ round' \in [Firmware -> [requests: Nat, early: BOOLEAN, analysed: SUBSET Files,
                                lost: SUBSET Files]]
    /\ \A g \in Firmware : /\ round'[g].requests = round[g].requests
                           /\ round'[g].early = round[g].early
                           /\ round'[g].analysed = round[g].analysed

\* the status worker takes a message and may change the status it is about
LEMMA ReceiveKeeps ==
    ASSUME StatusInv, NEW p \in Senders, NEW type, Receive(p, type), SameRounds,
           currently_running' \subseteq Firmware, status' \in [Firmware -> FwStatus],
           recently_finished' \subseteq Firmware, recently_canceled' \subseteq Firmware,
           worker' \in {"running", "dead"}, StatusTrue',
           \A g \in currently_running' : g \in currently_running \/ g = Head(queue[p]).root,
           \A g \in Firmware : type # "add_update" /\ Waiting(g) /\ Alone(g) => Waiting(g)',
           \A g \in Firmware : type = "add_firmware" /\ g = Head(queue[p]).root => Ready(g)'
    PROVE  StatusInv'
<1>a. TypeInv /\ TypeOK /\ budget \in Budget /\ queue \in [Senders -> Seq(Message)]
  BY DEF StatusInv, TypeInv
<1>b. /\ queue[p] # <<>> /\ queue' = [queue EXCEPT ![p] = Tail(@)]
      /\ Head(queue[p]).type = type
      /\ UNCHANGED <<tasks, extracted, stored, update, analysing, budget>>
  BY DEF Receive, unpackingVars
<1>c. /\ queue' \in [Senders -> Seq(Message)]
      /\ \A q \in Senders \ {p} : queue'[q] = queue[q]
      /\ Len(queue[p]) \in Nat /\ Len(queue[p]) > 0
      /\ Head(queue[p]) = queue[p][1]
      /\ Len(queue'[p]) = Len(queue[p]) - 1
      /\ \A i \in 1 .. Len(queue'[p]) : queue'[p][i] = queue[p][i + 1]
  BY <1>a, <1>b, ReceiveFacts
<1>d. \A q \in Senders : \A i \in 1 .. Len(queue'[q]) :
          \E j \in 1 .. Len(queue[q]) : queue'[q][i] = queue[q][j]
  <2> SUFFICES ASSUME NEW q \in Senders, NEW i \in 1 .. Len(queue'[q])
               PROVE  \E j \in 1 .. Len(queue[q]) : queue'[q][i] = queue[q][j]
    OBVIOUS
  <2>1. CASE q = p
    <3>1. i + 1 \in 1 .. Len(queue[p]) /\ queue'[q][i] = queue[p][i + 1]
      BY <1>c, <2>1
    <3> QED BY <2>1, <3>1
  <2>2. CASE q # p
    BY <1>c, <2>2
  <2> QED BY <2>1, <2>2
<1>e. \A q \in Senders : \A i \in 1 .. Len(queue[q]) :
          queue[q][i] \in Message /\ queue[q][i].root \in Firmware
  <2>1. \A q \in Senders : \A i \in 1 .. Len(queue[q]) : queue[q][i] \in Message
    BY <1>a, ElementOfSeq
  <2>2. \A m \in Message : m.root \in Firmware
    BY DEF Message, AddFirmwareMessage, AddUpdateMessage, AddFileMessage,
           AddAnalysisMessage, RemoveFileMessage, CancelMessage
  <2> QED BY <2>1, <2>2
<1>f. "update" \in Senders
  BY DEF Senders
<1>1. TypeInv'
  BY <1>a, <1>b, <1>c DEF TypeInv, TypeOK, SameRounds
<1>2. MessagesTrue'
  <2> SUFFICES ASSUME NEW q \in Senders, NEW i \in 1 .. Len(queue'[q])
               PROVE  Truthful(q, queue'[q][i], budget, round'[queue'[q][i].root])
    BY <1>b DEF MessagesTrue
  <2> PICK j \in 1 .. Len(queue[q]) : queue'[q][i] = queue[q][j]
    BY <1>d
  <2>1. Truthful(q, queue[q][j], budget, round[queue[q][j].root])
    BY DEF StatusInv, MessagesTrue
  <2>2. queue[q][j].root \in Firmware
    BY <1>e
  <2> QED BY <2>1, <2>2 DEF Truthful, SameRounds
<1>3. TasksInside'
  BY <1>b DEF StatusInv, TasksInside
<1>4. UpdateTrue'
  <2>1. update # Nobody => update.root \in Firmware
    BY <1>a DEF TypeOK
  <2> QED BY <1>b, <2>1 DEF StatusInv, UpdateTrue, SameRounds
<1>5. UpdatePairs'
  <2>b. \A j \in 1 .. Len(queue["update"]) : queue["update"][j].type = "add_update" =>
            \/ j = 1 /\ Ready(queue["update"][j].root)
            \/ /\ j > 1
               /\ queue["update"][j - 1].type = "add_firmware"
               /\ queue["update"][j - 1].root = queue["update"][j].root
    BY DEF StatusInv, UpdatePairs
  <2> SUFFICES ASSUME NEW i \in 1 .. Len(queue'["update"]),
                      queue'["update"][i].type = "add_update"
               PROVE  \/ i = 1 /\ Ready(queue["update"][i].root)'
                      \/ /\ i > 1
                         /\ queue'["update"][i - 1].type = "add_firmware"
                         /\ queue'["update"][i - 1].root = queue'["update"][i].root
    BY Zenon DEF UpdatePairs
  <2> SUFFICES ASSUME NEW g, g = queue'["update"][i].root
               PROVE  \/ i = 1 /\ Ready(g)'
                      \/ /\ i > 1
                         /\ queue'["update"][i - 1].type = "add_firmware"
                         /\ queue'["update"][i - 1].root = g
    BY DEF Ready, Waiting
  <2>1. CASE p # "update"
    <3>1. queue'["update"] = queue["update"]
      BY <1>c, <1>f, <2>1
    <3>2. g \in Firmware
      BY <1>e, <1>f, <3>1
    <3>3. ASSUME Ready(g) PROVE Ready(g)'
      <4>1. type # "add_update"
        <5>1. 1 \in 1 .. Len(queue[p])
          BY <1>c
        <5> QED BY <1>b, <1>c, <2>1, <5>1 DEF StatusInv, MessagesTrue, Truthful
      <4>2. UpdateWaits(g)
        BY <3>1 DEF UpdateWaits
      <4>3. round[g].requests \in Nat
        BY <1>a, <3>2 DEF TypeOK
      <4>4. round[g].requests > 1 \/ Alone(g)
        BY <3>2, <4>2, <4>3 DEF StatusInv, Sole
      <4>5. Waiting(g) => round[g].requests > 1 \/ Waiting(g)'
        BY <3>2, <4>1, <4>4
      <4> QED BY <3>2, <3>3, <4>5 DEF Ready, SameRounds
    <3> QED BY <2>b, <3>1, <3>3
  <2>2. CASE p = "update"
    <3>1. /\ i + 1 \in 1 .. Len(queue["update"]) /\ queue'["update"][i] = queue["update"][i + 1]
          /\ i \in Nat /\ i >= 1
      BY <1>c, <2>2
    <3>2. queue["update"][i].type = "add_firmware" /\ queue["update"][i].root = g
      <4>1. (i + 1) - 1 = i /\ i + 1 # 1
        BY <3>1
      <4> QED BY <2>b, <3>1, <4>1
    <3>3. CASE i = 1
      <4>1. type = "add_firmware" /\ g = Head(queue[p]).root
        BY <1>b, <1>c, <2>2, <3>2, <3>3
      <4>2. g \in Firmware
        BY <1>e, <1>f, <3>1
      <4> QED BY <3>3, <4>1, <4>2
    <3>4. CASE i > 1
      <4>1. i - 1 \in 1 .. Len(queue'["update"]) /\ (i - 1) + 1 = i
        BY <3>1, <3>4
      <4>2. queue'["update"][i - 1] = queue["update"][i]
        BY <1>c, <2>2, <4>1
      <4> QED BY <3>1, <3>2, <3>4, <4>2
    <3> QED BY <3>1, <3>3, <3>4
  <2> QED BY <2>1, <2>2
<1>6. ASSUME NEW g \in Firmware PROVE Sole(g)'
  <2> SUFFICES ASSUME round'[g].requests <= 1, UpdateWaits(g)' PROVE Alone(g)'
    BY DEF Sole
  <2>1. UpdateWaits(g)
    <3>1. CASE update'.root = g
      BY <1>b, <3>1 DEF UpdateWaits
    <3>2. CASE \E i \in 1 .. Len(queue'["update"]) :
                  queue'["update"][i].type = "add_update" /\ queue'["update"][i].root = g
      <4>1. \E j \in 1 .. Len(queue["update"]) :
                  queue["update"][j].type = "add_update" /\ queue["update"][j].root = g
        BY <1>d, <1>f, <3>2
      <4> QED BY <4>1 DEF UpdateWaits
    <3> QED BY <3>1, <3>2 DEF UpdateWaits
  <2>2. Alone(g)
    BY <2>1 DEF StatusInv, Sole, SameRounds
  <2>3. \A h \in Files : \A s \in Stages : tasks'[<<g, h, s>>] = 0
    BY <1>b, <2>2 DEF Alone
  <2>4. \A q \in Senders : \A i \in 1 .. Len(queue'[q]) : queue'[q][i].root = g =>
            queue'[q][i].type # "add_file" /\ queue'[q][i].type # "cancel"
    BY <1>d, <2>2 DEF Alone
  <2> QED BY <2>3, <2>4 DEF Alone
<1>7. ASSUME NEW g \in Firmware PROVE IdleUntilRequested(g)'
  <2> SUFFICES ASSUME round'[g].requests = 0 PROVE Idle(g)'
    BY DEF IdleUntilRequested
  <2>1. Idle(g)
    BY DEF StatusInv, IdleUntilRequested, SameRounds
  <2>2. \A q \in Senders : \A i \in 1 .. Len(queue[q]) : queue[q][i].root # g
    BY <2>1, IdleFacts
  <2>3. g \notin currently_running'
    <3>1. Head(queue[p]).root # g
      BY <1>c, <2>2
    <3> QED BY <2>1, <3>1 DEF Idle
  <2>4. \A q \in Senders : DOMAIN queue'[q] = 1 .. Len(queue'[q])
    BY <1>c, LenProperties
  <2>5. \A q \in Senders : \A i \in DOMAIN queue'[q] : queue'[q][i].root # g
    BY <1>d, <2>2, <2>4
  <2> QED BY <1>b, <2>1, <2>3, <2>5 DEF Idle, Underway
<1> QED BY <1>1, <1>2, <1>3, <1>4, <1>5, <1>6, <1>7 DEF StatusInv

\* the status of a firmware is replaced, and this firmware is running afterwards
LEMMA StatusBecomes ==
    ASSUME StatusInv, SameRounds, NEW fw \in Firmware, NEW s \in FwStatus,
           currently_running' = currently_running \cup {fw},
           status' = [status EXCEPT ![fw] = s], UNCHANGED <<recently, worker, budget>>,
           NoUpdate => Consistent(s), ~round[fw].early => Complete(fw, s, round[fw].analysed)
    PROVE  /\ currently_running' \subseteq Firmware /\ status' \in [Firmware -> FwStatus]
           /\ recently_finished' \subseteq Firmware /\ recently_canceled' \subseteq Firmware
           /\ worker' \in {"running", "dead"}
           /\ StatusTrue'
<1>a. /\ TypeOK /\ StatusTrue
      /\ status \in [Firmware -> FwStatus] /\ currently_running \subseteq Firmware
  BY DEF StatusInv, TypeInv, TypeOK
<1>1. StatusTrue'
  <2> SUFFICES ASSUME NEW g \in currently_running \cup {fw}
               PROVE  /\ NoUpdate => Consistent(status'[g])
                      /\ ~round'[g].early => Complete(g, status'[g], round'[g].analysed)
    BY DEF StatusTrue, NoUpdate
  <2>1. g \in Firmware /\ round'[g].early = round[g].early /\ round'[g].analysed = round[g].analysed
    BY <1>a DEF SameRounds
  <2>2. CASE g = fw
    BY <1>a, <2>1, <2>2
  <2>3. CASE g # fw
    BY <1>a, <2>1, <2>3 DEF StatusTrue
  <2> QED BY <2>2, <2>3
<1> QED BY <1>a, <1>1 DEF TypeOK, recently

\* a firmware leaves the status, because it is finished or cancelled
LEMMA StatusLeaves ==
    ASSUME StatusInv, SameRounds, NEW fw \in Firmware,
           currently_running' = currently_running \ {fw},
           status' = [status EXCEPT ![fw] = NoStatus], UNCHANGED <<worker, budget>>
    PROVE  /\ currently_running' \subseteq Firmware /\ status' \in [Firmware -> FwStatus]
           /\ worker' \in {"running", "dead"}
           /\ StatusTrue'
<1>a. /\ TypeOK /\ StatusTrue
      /\ status \in [Firmware -> FwStatus] /\ currently_running \subseteq Firmware
  BY DEF StatusInv, TypeInv, TypeOK
<1>b. NoStatus \in FwStatus
  BY DEF NoStatus, FwStatus
<1>1. StatusTrue'
  <2> SUFFICES ASSUME NEW g \in currently_running \ {fw}
               PROVE  /\ NoUpdate => Consistent(status'[g])
                      /\ ~round'[g].early => Complete(g, status'[g], round'[g].analysed)
    BY DEF StatusTrue, NoUpdate
  <2>1. g \in Firmware /\ round'[g].early = round[g].early /\ round'[g].analysed = round[g].analysed
    BY <1>a DEF SameRounds
  <2> QED BY <1>a, <2>1 DEF StatusTrue
<1> QED BY <1>a, <1>b, <1>1 DEF TypeOK

\* the message that the worker takes
LEMMA MessageFacts ==
    ASSUME StatusInv, NEW p \in Senders, queue[p] # <<>>
    PROVE  /\ Head(queue[p]) \in Message /\ Head(queue[p]).root \in Firmware
           /\ Head(queue[p]) = queue[p][1] /\ 1 \in 1 .. Len(queue[p])
           /\ Truthful(p, Head(queue[p]), budget, round[Head(queue[p]).root])
<1>1. /\ Head(queue[p]) = queue[p][1] /\ Head(queue[p]) \in Message
      /\ 1 \in 1 .. Len(queue[p])
  <2>1. queue[p] \in Seq(Message)
    BY DEF StatusInv, TypeInv
  <2> QED BY <2>1, HeadTailProperties, LenProperties, EmptySeq
<1>2. Truthful(p, Head(queue[p]), budget, round[Head(queue[p]).root])
  BY <1>1 DEF StatusInv, MessagesTrue
<1>3. \A m \in Message : m.root \in Firmware
  BY DEF Message, AddFirmwareMessage, AddUpdateMessage, AddFileMessage,
          AddAnalysisMessage, RemoveFileMessage, CancelMessage
<1> QED BY <1>1, <1>2, <1>3

\* the status worker handles a message
LEMMA WorkerStep ==
    ASSUME StatusInv, NEW p \in Senders, Worker(p)
    PROVE  StatusInv'
<1>a. /\ TypeInv /\ TypeOK /\ StatusTrue /\ budget \in Budget
      /\ status \in [Firmware -> FwStatus] /\ currently_running \subseteq Firmware
      /\ recently_finished \subseteq Firmware /\ recently_canceled \subseteq Firmware
      /\ worker \in {"running", "dead"}
      /\ round \in [Firmware -> [requests: Nat, early: BOOLEAN, analysed: SUBSET Files,
                                 lost: SUBSET Files]]
  BY DEF StatusInv, TypeInv, TypeOK
<1>b. queue[p] # <<>> /\ UNCHANGED budget
  BY DEF Worker, OnAddFirmware, OnAddUpdate, OnAddFile, OnAddAnalysis, OnRemoveFile,
         OnCancel, Receive
<1>c. /\ Head(queue[p]) = queue[p][1] /\ Head(queue[p]) \in Message
      /\ 1 \in 1 .. Len(queue[p]) /\ Head(queue[p]).root \in Firmware
      /\ Truthful(p, Head(queue[p]), budget, round[Head(queue[p]).root])
  BY <1>b, MessageFacts
<1> PICK m \in Message : m = Head(queue[p])
  BY <1>c
<1> PICK fw \in Firmware : fw = m.root
  BY <1>c
<1>d. Truthful(p, m, budget, round[fw])
  BY <1>c
<1>e. round' = round => SameRounds
  BY <1>a DEF SameRounds
<1>f. ASSUME NEW more \in SUBSET Files, round' = [round EXCEPT ![fw].lost = @ \cup more]
      PROVE  SameRounds
  BY <1>f, LostFacts DEF SameRounds
\* if no status changes, nothing changes
<1>g. ASSUME NEW type, Receive(p, type), type # "add_firmware", SameRounds,
             UNCHANGED <<currently_running, status, recently>>, worker' \in {"running", "dead"}
      PROVE  StatusInv'
  <2>1. StatusTrue'
    <3> SUFFICES ASSUME NEW g \in currently_running
                 PROVE  /\ NoUpdate => Consistent(status[g])
                        /\ ~round'[g].early => Complete(g, status[g], round'[g].analysed)
      BY <1>b, <1>g DEF StatusTrue, NoUpdate
    <3>1. g \in Firmware
      BY <1>a
    <3>2. round'[g].early = round[g].early /\ round'[g].analysed = round[g].analysed
      BY <1>g, <3>1 DEF SameRounds
    <3> QED BY <1>a, <3>2 DEF StatusTrue
  <2>2. \A g \in Firmware : Waiting(g) => Waiting(g)'
    BY <1>g DEF Waiting
  <2> QED BY <1>a, <1>g, <2>1, <2>2, ReceiveKeeps DEF recently
\* the status of the firmware changes, if it is running
<1>h. ASSUME NEW type, Receive(p, type), NEW s \in FwStatus, fw \in currently_running,
             type # "add_firmware", SameRounds, status' = [status EXCEPT ![fw] = s],
             UNCHANGED <<currently_running, recently, worker>>,
             NoUpdate => Consistent(s), ~round[fw].early => Complete(fw, s, round[fw].analysed),
             \/ type = "add_update" \/ s.files_to_unpack = status[fw].files_to_unpack
             \/ m.type = "add_file"
      PROVE  StatusInv'
  <2>1. currently_running' = currently_running \cup {fw}
    BY <1>h
  <2>2. /\ currently_running' \subseteq Firmware /\ status' \in [Firmware -> FwStatus]
        /\ recently_finished' \subseteq Firmware /\ recently_canceled' \subseteq Firmware
        /\ worker' \in {"running", "dead"} /\ StatusTrue'
    BY <1>b, <1>h, <2>1, StatusBecomes
  <2>3. ASSUME NEW g \in Firmware, type # "add_update", Waiting(g), Alone(g) PROVE Waiting(g)'
    <3>1. CASE g = fw
      <4>1. m.type # "add_file"
        BY <1>c, <2>3, <3>1 DEF Alone
      <4>2. status'[fw].files_to_unpack = status[fw].files_to_unpack
        BY <1>a, <1>h, <2>3, <4>1
      <4> QED BY <1>h, <2>3, <3>1, <4>2 DEF Waiting
    <3>2. CASE g # fw
      <4>1. status'[g] = status[g]
        BY <1>a, <1>h, <3>2
      <4> QED BY <1>h, <2>3, <4>1 DEF Waiting
    <3> QED BY <3>1, <3>2
  <2> QED BY <1>h, <2>2, <2>3, ReceiveKeeps
\* the firmware leaves the status
<1>i. ASSUME NEW type, Receive(p, type), type # "add_firmware", type # "add_update", SameRounds,
             currently_running' = currently_running \ {fw},
             status' = [status EXCEPT ![fw] = NoStatus], UNCHANGED worker,
             recently_finished' \subseteq Firmware, recently_canceled' \subseteq Firmware,
             ~(Waiting(fw) /\ Alone(fw))
      PROVE  StatusInv'
  <2>1. /\ currently_running' \subseteq Firmware /\ status' \in [Firmware -> FwStatus]
        /\ worker' \in {"running", "dead"} /\ StatusTrue'
    BY <1>b, <1>i, StatusLeaves
  <2>2. ASSUME NEW g \in Firmware, Waiting(g), Alone(g) PROVE Waiting(g)'
    <3>1. g # fw
      BY <1>i, <2>2
    <3>2. status'[g] = status[g] /\ g \in currently_running'
      BY <1>a, <1>i, <2>2, <3>1 DEF Waiting
    <3> QED BY <2>2, <3>2 DEF Waiting
  <2> QED BY <1>i, <2>1, <2>2, ReceiveKeeps
<1>1. CASE OnAddFirmware(p)
  <2>1. /\ Receive(p, "add_firmware") /\ m.type = "add_firmware"
        /\ currently_running' = currently_running \cup {fw}
        /\ status' = [status EXCEPT ![fw] = NewStatus(fw, m.files)]
        /\ UNCHANGED <<recently, worker, round>>
    BY <1>1 DEF OnAddFirmware, Receive
  <2>2. m.files = Content[fw]
    BY <1>d, <2>1 DEF Truthful
  <2> PICK s \in FwStatus : s = NewStatus(fw, Content[fw])
    BY NewStatusFacts
  <2>3. Consistent(s) /\ Complete(fw, s, round[fw].analysed) /\ s.files_to_unpack = Content[fw]
    BY NewStatusFacts DEF NewStatus
  <2>4. /\ currently_running' \subseteq Firmware /\ status' \in [Firmware -> FwStatus]
        /\ recently_finished' \subseteq Firmware /\ recently_canceled' \subseteq Firmware
        /\ worker' \in {"running", "dead"} /\ StatusTrue' /\ SameRounds
    BY <1>b, <1>e, <2>1, <2>2, <2>3, StatusBecomes
  <2>5. status'[fw] = s /\ \A g \in Firmware \ {fw} : status'[g] = status[g]
    BY <1>a, <2>1, <2>2
  <2>6. fw \in currently_running' /\ Content[fw] \subseteq status'[fw].files_to_unpack
    BY <2>1, <2>3, <2>5
  <2>7. ASSUME NEW g \in Firmware, Waiting(g) PROVE Waiting(g)'
    <3>1. CASE g = fw
      BY <2>6, <2>7, <3>1 DEF Waiting
    <3>2. CASE g # fw
      <4>1. status'[g] = status[g] /\ g \in currently_running'
        BY <2>1, <2>5, <2>7, <3>2 DEF Waiting
      <4> QED BY <2>7, <4>1 DEF Waiting
    <3> QED BY <3>1, <3>2
  <2>8. Ready(fw)'
    BY <2>6 DEF Ready, Waiting
  <2>9. \A g \in currently_running' : g \in currently_running \/ g = fw
    BY <2>1
  <2> QED BY <2>1, <2>4, <2>7, <2>8, <2>9, ReceiveKeeps
<1>2. CASE OnAddUpdate(p)
  <2>1. Receive(p, "add_update") /\ m.type = "add_update" /\ UNCHANGED <<currently_running, recently>>
    BY <1>2 DEF OnAddUpdate, Receive
  <2> PICK included \in SUBSET Files : included = m.files
    BY <2>1 DEF Message, AddFirmwareMessage, AddUpdateMessage, AddFileMessage,
          AddAnalysisMessage, RemoveFileMessage, CancelMessage
  <2>2. ~NoUpdate /\ (~round[fw].early => included = Reachable[fw])
    <3>1. budget.updates < MaxUpdates /\ (~round[fw].early => included = Reachable[fw])
      BY <1>d, <2>1 DEF Truthful
    <3>2. budget.updates \in Nat
      BY <1>a, StatusConstants DEF Budget
    <3> QED BY <3>1, <3>2, StatusConstants DEF NoUpdate
  <2>3. CASE fw \in currently_running
    <3> PICK s \in FwStatus : s = ForUpdate(status[fw], fw, included)
      BY <1>a, ForUpdateFacts
    <3>1. ~round[fw].early => Complete(fw, s, round[fw].analysed)
      BY <1>a, <2>2, <2>3, ForUpdateFacts DEF StatusTrue
    <3>2. status' = [status EXCEPT ![fw] = s] /\ UNCHANGED worker
      BY <1>2, <2>3 DEF OnAddUpdate
    <3>3. SameRounds
      <4> DEFINE more == status[fw].completed_files
      <4>1. more \in SUBSET Files
        BY <1>a DEF FwStatus
      <4>2. round' = [round EXCEPT ![fw].lost = @ \cup more]
        BY <1>2, <2>3 DEF OnAddUpdate
      <4> HIDE DEF more
      <4> QED BY <1>f, <4>1, <4>2
    <3> QED BY <1>h, <2>1, <2>2, <2>3, <3>1, <3>2, <3>3
  <2>4. CASE fw \notin currently_running
    <3>1. worker' = "dead" /\ UNCHANGED <<status, round>>
      BY <1>2, <2>4 DEF OnAddUpdate
    <3> QED BY <1>e, <1>g, <2>1, <3>1
  <2> QED BY <2>3, <2>4
<1>3. CASE OnAddFile(p)
  <2>1. /\ Receive(p, "add_file") /\ m.type = "add_file"
        /\ UNCHANGED <<currently_running, recently, worker, round>>
    BY <1>3 DEF OnAddFile, Receive
  <2> PICK uid \in Files : uid = m.uid
    BY <2>1 DEF Message, AddFirmwareMessage, AddUpdateMessage, AddFileMessage,
          AddAnalysisMessage, RemoveFileMessage, CancelMessage
  <2>2. m.files = Content[uid] /\ uid \in Reachable[fw]
    BY <1>d, <2>1 DEF Truthful
  <2>3. CASE fw \in currently_running
    <3> PICK s \in FwStatus : s = WithFile(status[fw], uid, Content[uid])
      BY <1>a, WithFileFacts
    <3>1. /\ NoUpdate => Consistent(s)
          /\ ~round[fw].early => Complete(fw, s, round[fw].analysed)
      BY <1>a, <2>2, <2>3, WithFileFacts DEF StatusTrue
    <3>2. status' = [status EXCEPT ![fw] = s]
      BY <1>3, <2>2, <2>3 DEF OnAddFile
    <3> QED BY <1>e, <1>h, <2>1, <2>3, <3>1, <3>2
  <2>4. CASE fw \notin currently_running
    BY <1>3, <1>a, <1>e, <1>g, <2>1, <2>4 DEF OnAddFile
  <2> QED BY <2>3, <2>4
<1>4. CASE OnAddAnalysis(p)
  <2>1. /\ Receive(p, "add_analysis") /\ m.type = "add_analysis"
        /\ UNCHANGED <<currently_running, recently, worker, round>>
    BY <1>4 DEF OnAddAnalysis, Receive
  <2> PICK plugin \in Plugins : plugin = m.plugin
    BY <2>1 DEF Message, AddFirmwareMessage, AddUpdateMessage, AddFileMessage,
          AddAnalysisMessage, RemoveFileMessage, CancelMessage
  <2>2. CASE fw \in currently_running
    <3> PICK old \in FwStatus : old = status[fw]
      BY <1>a
    <3> DEFINE s == [old EXCEPT !.plugins[plugin] = @ + 1]
    <3>1. [old.plugins EXCEPT ![plugin] = @ + 1] \in [Plugins -> Nat]
      BY DEF FwStatus
    <3>2. s = [old EXCEPT !.plugins = [old.plugins EXCEPT ![plugin] = @ + 1]]
      BY DEF FwStatus
    <3>3. /\ s \in FwStatus
          /\ s.files_to_unpack = old.files_to_unpack
          /\ s.files_to_analyze = old.files_to_analyze
          /\ s.completed_files = old.completed_files
          /\ s.analyzed = old.analyzed /\ s.unpacked = old.unpacked /\ s.total = old.total
      BY <3>1, <3>2 DEF FwStatus
    <3>4. status' = [status EXCEPT ![fw] = s]
      BY <1>4, <1>a, <2>2 DEF OnAddAnalysis
    <3> HIDE DEF s
    <3>5. Consistent(old) => Consistent(s)
      BY <3>3 DEF Consistent
    <3>6. Complete(fw, old, round[fw].analysed) => Complete(fw, s, round[fw].analysed)
      BY <3>3 DEF Complete, Known
    <3> QED BY <1>a, <1>e, <1>h, <2>1, <2>2, <3>3, <3>4, <3>5, <3>6 DEF StatusTrue
  <2>3. CASE fw \notin currently_running
    BY <1>4, <1>a, <1>e, <1>g, <2>1, <2>3 DEF OnAddAnalysis
  <2> QED BY <2>2, <2>3
<1>5. CASE OnRemoveFile(p)
  <2>1. /\ Receive(p, "remove_file") /\ m.type = "remove_file"
        /\ UNCHANGED <<recently_canceled, worker>>
    BY <1>5 DEF OnRemoveFile, Receive
  <2> PICK uid \in Files : uid = m.uid
    BY <2>1 DEF Message, AddFirmwareMessage, AddUpdateMessage, AddFileMessage,
          AddAnalysisMessage, RemoveFileMessage, CancelMessage
  <2>2. uid \in round[fw].analysed
    BY <1>d, <2>1 DEF Truthful
  <2>3. CASE fw \in currently_running /\ uid \in status[fw].files_to_analyze
    <3> PICK old \in FwStatus : old = status[fw]
      BY <1>a
    <3> PICK s \in FwStatus : s = WithoutFile(old, uid)
      BY <2>2, <2>3, WithoutFileFacts
    <3>1. /\ NoUpdate => Consistent(s)
          /\ ~round[fw].early => Complete(fw, s, round[fw].analysed)
      BY <1>a, <2>2, <2>3, WithoutFileFacts DEF StatusTrue
    <3>2. s.files_to_unpack = old.files_to_unpack
      BY DEF WithoutFile, FwStatus
    <3>3. CASE IsFinished(s)
      <4>1. /\ recently_finished' = recently_finished \cup {fw}
            /\ currently_running' = currently_running \ {fw}
            /\ status' = [status EXCEPT ![fw] = NoStatus] /\ UNCHANGED round
        BY <1>5, <2>3, <3>3 DEF OnRemoveFile
      <4>2. recently_finished' \subseteq Firmware /\ recently_canceled' \subseteq Firmware
        BY <1>a, <2>1, <4>1
      <4>3. ~Waiting(fw)
        BY <3>2, <3>3 DEF Waiting, IsFinished
      <4> QED BY <1>e, <1>i, <2>1, <4>1, <4>2, <4>3
    <3>4. CASE ~IsFinished(s)
      <4>1. /\ status' = [status EXCEPT ![fw] = s]
            /\ UNCHANGED <<currently_running, recently_finished, round>>
        BY <1>5, <2>3, <3>4 DEF OnRemoveFile
      <4> QED BY <1>e, <1>h, <2>1, <2>3, <3>1, <3>2, <4>1 DEF recently
    <3> QED BY <3>3, <3>4
  <2>4. CASE ~(fw \in currently_running /\ uid \in status[fw].files_to_analyze)
    <3>1. /\ UNCHANGED <<currently_running, status, recently_finished>>
          /\ round' = [round EXCEPT ![fw].lost = @ \cup {uid}]
      BY <1>5, <2>4 DEF OnRemoveFile, Lost
    <3>2. {uid} \in SUBSET Files
      OBVIOUS
    <3>3. SameRounds
      BY <1>f, <3>1, <3>2
    <3> QED BY <1>a, <1>g, <2>1, <3>1, <3>3 DEF recently
  <2> QED BY <2>3, <2>4
<1>6. CASE OnCancel(p)
  <2>1. /\ Receive(p, "cancel") /\ m.type = "cancel"
        /\ UNCHANGED <<recently_finished, worker, round>>
    BY <1>6 DEF OnCancel, Receive
  <2>2. CASE fw \in currently_running
    <3>1. /\ recently_canceled' = recently_canceled \cup {fw}
          /\ currently_running' = currently_running \ {fw}
          /\ status' = [status EXCEPT ![fw] = NoStatus]
      BY <1>6, <2>2 DEF OnCancel
    <3>2. recently_finished' \subseteq Firmware /\ recently_canceled' \subseteq Firmware
      BY <1>a, <2>1, <3>1
    <3>3. ~Alone(fw)
      BY <1>c, <2>1 DEF Alone
    <3> QED BY <1>e, <1>i, <2>1, <3>1, <3>2, <3>3
  <2>3. CASE fw \notin currently_running
    BY <1>6, <1>a, <1>e, <1>g, <2>1, <2>3 DEF OnCancel, recently
  <2> QED BY <2>2, <2>3
<1> QED BY <1>1, <1>2, <1>3, <1>4, <1>5, <1>6 DEF Worker

\* no message is on its way and nothing has a status at the start
LEMMA StatusInit == Init => StatusInv
<1> SUFFICES ASSUME Init PROVE StatusInv
  OBVIOUS
<1>1. TypeInv
  <2>1. NoStatus \in FwStatus
    BY DEF NoStatus, FwStatus
  <2>2. budget \in Budget
    BY StatusConstants DEF Init, Budget
  <2>3. <<>> \in Seq(Message)
    BY EmptySeq
  <2>4. /\ NoEntry \in [remaining: SUBSET Files, done: SUBSET Files]
        /\ NoRound \in [requests: Nat, early: BOOLEAN, analysed: SUBSET Files, lost: SUBSET Files]
    BY DEF NoEntry, NoRound
  <2> QED BY <2>1, <2>2, <2>3, <2>4 DEF Init, TypeInv, TypeOK
<1>2. \A p \in Senders : Len(queue[p]) = 0 /\ DOMAIN queue[p] = {}
  BY DEF Init
<1>3. MessagesTrue
  BY <1>2 DEF MessagesTrue
<1>4. UpdatePairs
  <2>1. "update" \in Senders
    BY DEF Senders
  <2> QED BY <1>2, <2>1 DEF UpdatePairs
<1>5. \A fw \in Firmware : \A f \in Files : \A s \in Stages : tasks[<<fw, f, s>>] = 0
  BY DEF Init, Tasks
<1>6. \A fw \in Firmware : Alone(fw)
  BY <1>2, <1>5 DEF Alone
<1>7. ASSUME NEW fw \in Firmware PROVE Idle(fw)
  <2>1. \A f \in Files : analysing[<<fw, f>>] = 0
    BY DEF Init
  <2>2. update.root # fw
    BY StatusConstants DEF Init, Nobody
  <2>3. fw \notin currently_running /\ extracted[fw] = NoEntry
    BY DEF Init
  <2>4. \A f \in Files : ~(analysing[<<fw, f>>] > 0) /\ \A s \in Stages : ~(tasks[<<fw, f, s>>] > 0)
    BY <1>5, <2>1
  <2>5. \A p \in Senders : \A i \in DOMAIN queue[p] : queue[p][i].root # fw
    BY <1>2
  <2> QED BY <2>2, <2>3, <2>4, <2>5 DEF Idle, Underway
<1>8. TasksInside /\ UpdateTrue /\ StatusTrue
  BY <1>5 DEF Init, TasksInside, UpdateTrue, StatusTrue
<1> QED BY <1>1, <1>3, <1>4, <1>6, <1>7, <1>8 DEF StatusInv, Sole, IdleUntilRequested

\* every step preserves the invariant
LEMMA StatusStep == StatusInv /\ [Next]_vars => StatusInv'
<1> SUFFICES ASSUME StatusInv, [Next]_vars PROVE StatusInv'
  OBVIOUS
<1>1. ASSUME UNCHANGED <<queue, currently_running, status, worker, unpackingVars, update,
                         analysing, round, budget>>,
             recently_finished' \subseteq recently_finished,
             recently_canceled' \subseteq recently_canceled
      PROVE  StatusInv'
  <2>1. TypeInv'
    BY <1>1 DEF StatusInv, TypeInv, TypeOK, unpackingVars
  <2>2. MessagesTrue' /\ TasksInside' /\ UpdateTrue' /\ StatusTrue'
    BY <1>1 DEF StatusInv, MessagesTrue, TasksInside, UpdateTrue, StatusTrue, NoUpdate, unpackingVars
  <2>3. UpdatePairs'
    BY <1>1 DEF StatusInv, UpdatePairs, Ready, Waiting
  <2>4. \A fw \in Firmware : Sole(fw)'
    BY <1>1 DEF StatusInv, Sole, UpdateWaits, Alone, unpackingVars
  <2>5. \A fw \in Firmware : IdleUntilRequested(fw)'
    BY <1>1 DEF StatusInv, IdleUntilRequested, Idle, Underway, unpackingVars
  <2> QED BY <2>1, <2>2, <2>3, <2>4, <2>5 DEF StatusInv
<1>2. ASSUME NEW fw \in Firmware, ClearRecentlyFinished(fw) PROVE StatusInv'
  BY <1>1, <1>2 DEF ClearRecentlyFinished
<1>3. CASE UNCHANGED vars
  BY <1>1, <1>3 DEF vars
<1> QED BY <1>2, <1>3, UnpackingStep, AnalysisStep, AddUpdateStep, WorkerStep DEF Next

\* the invariant holds in every reachable state
LEMMA StatusInvariant == Spec => []StatusInv
BY StatusInit, StatusStep, PTL DEF Spec

\* a process that sends leaves the status to its worker
LEMMA SendersLeaveStatus ==
    ASSUME [Next]_vars
    PROVE  UNCHANGED <<currently_running, worker>> \/ \E p \in Senders : Worker(p)
<1>1. ASSUME NEW fw \in Firmware, Unpacking(fw) PROVE UNCHANGED <<currently_running, worker>>
  BY <1>1 DEF Unpacking, AddTask, StartFirmware, AddFirmware, StartFile, AddFile, FailToStore,
              UpdateCurrentlyUnpacked, Post, workerVars
<1>2. ASSUME NEW fw \in Firmware, Analysis(fw) PROVE UNCHANGED <<currently_running, worker>>
  BY <1>2 DEF Analysis, UpdateAnalysis, CancelAnalysis, DropObject, RemoveObject, AddAnalysis,
              workerVars
<1>3. ASSUME AddUpdate PROVE UNCHANGED <<currently_running, worker>>
  BY <1>3 DEF AddUpdate, Updated, workerVars
<1>4. ASSUME NEW fw \in Firmware, ClearRecentlyFinished(fw)
      PROVE  UNCHANGED <<currently_running, worker>>
  BY <1>4 DEF ClearRecentlyFinished
<1>5. UNCHANGED vars => UNCHANGED <<currently_running, worker>>
  BY DEF vars
<1> QED BY <1>1, <1>2, <1>3, <1>4, <1>5 DEF Next

\* What the status page shows is consistent, in whatever order the messages of the
\* processes arrive: each file of a firmware is in one stage, and the counters are
\* those of the sets, as long as no re-analysis interferes.
THEOREM ConsistentDisplay == Spec => []DisplayIsConsistent
<1>1. StatusInv => DisplayIsConsistent
  <2> SUFFICES ASSUME StatusInv PROVE DisplayIsConsistent
    OBVIOUS
  <2>1. TypeOK
    BY DEF StatusInv, TypeInv
  <2>2. StagesAreDisjoint
    BY DEF StatusInv, StatusTrue, Consistent, StagesAreDisjoint
  <2>3. CountersMatchFiles
    BY DEF StatusInv, StatusTrue, Consistent, CountersMatchFiles
  <2> QED BY <2>1, <2>2, <2>3 DEF DisplayIsConsistent
<1> QED BY <1>1, StatusInvariant, PTL

\* the step of FinishedMeansAnalysed
Ends ==
    \A fw \in currently_running \ currently_running' :
        queue'["cancel"] = queue["cancel"] /\ ~round[fw].early =>
            Reachable[fw] \cup {fw} \subseteq round[fw].analysed

\* "Analysis of firmware ... completed" is true, however often the firmware is
\* uploaded, re-analysed and cancelled: each file in it has been analysed since the
\* request, unless an update did not find all of them in the database.
THEOREM FinishedIsTrue == Spec => FinishedMeansAnalysed
<1>1. StatusInv /\ [Next]_vars => Ends
  <2> SUFFICES ASSUME StatusInv, [Next]_vars, NEW g \in currently_running \ currently_running',
                      queue'["cancel"] = queue["cancel"], ~round[g].early
               PROVE  Reachable[g] \cup {g} \subseteq round[g].analysed
    BY DEF Ends
  <2> PICK p \in Senders : Worker(p)
    BY SendersLeaveStatus
  <2>1. currently_running' # currently_running
    OBVIOUS
  <2>2. OnRemoveFile(p) \/ OnCancel(p)
    <3>1. OnAddFirmware(p) => currently_running \subseteq currently_running'
      BY DEF OnAddFirmware
    <3> QED BY <2>1, <3>1 DEF Worker, OnAddUpdate, OnAddFile, OnAddAnalysis
  <2>3. queue[p] # <<>> /\ queue' = [queue EXCEPT ![p] = Tail(@)]
    BY <2>2 DEF OnRemoveFile, OnCancel, Receive
  <2>4. /\ Head(queue[p]) \in Message /\ Head(queue[p]).root \in Firmware
        /\ Truthful(p, Head(queue[p]), budget, round[Head(queue[p]).root])
    BY <2>3, MessageFacts
  <2>5. queue \in [Senders -> Seq(Message)] /\ status \in [Firmware -> FwStatus] /\ StatusTrue
    BY DEF StatusInv, TypeInv, TypeOK
  <2>6. p # "cancel"
    <3>1. Len(queue'[p]) = Len(queue[p]) - 1 /\ Len(queue[p]) \in Nat
      BY <2>3, <2>5, ReceiveFacts
    <3> QED BY <3>1
  <2>7. OnRemoveFile(p) /\ Head(queue[p]).type = "remove_file"
    <3>1. OnCancel(p) => Head(queue[p]).type = "cancel"
      BY DEF OnCancel, Receive
    <3>2. OnRemoveFile(p) => Head(queue[p]).type = "remove_file"
      BY DEF OnRemoveFile, Receive
    <3> QED BY <2>2, <2>4, <2>6, <3>1, <3>2 DEF Truthful
  <2> PICK m \in Message : m = Head(queue[p])
    BY <2>4
  <2> PICK uid \in Files : uid = m.uid
    BY <2>7 DEF Message, AddFirmwareMessage, AddUpdateMessage, AddFileMessage,
          AddAnalysisMessage, RemoveFileMessage, CancelMessage
  <2>8. /\ m.root \in currently_running /\ uid \in status[m.root].files_to_analyze
        /\ IsFinished(WithoutFile(status[m.root], uid))
        /\ currently_running' = currently_running \ {m.root}
    BY <2>1, <2>7 DEF OnRemoveFile
  <2>9. g = m.root /\ g \in Firmware
    BY <2>4, <2>8
  <2>10. uid \in round[g].analysed /\ Complete(g, status[g], round[g].analysed)
    BY <2>4, <2>5, <2>7, <2>9 DEF Truthful, StatusTrue
  <2>11. status[g] \in FwStatus /\ uid \in status[g].files_to_analyze
    BY <2>5, <2>8, <2>9
  <2>12. IsFinished(WithoutFile(status[g], uid)) =>
            \A f \in AllFiles(g) : f \in round[g].analysed
    BY <2>9, <2>10, <2>11, WithoutFileFacts
  <2> QED BY <2>8, <2>9, <2>12 DEF AllFiles
<1>2. FinishedMeansAnalysed <=> [][Ends]_vars
  BY DEF FinishedMeansAnalysed, Ends
<1> QED BY <1>1, <1>2, StatusInvariant, PTL DEF Spec

\* the step of WorkerDiesOnlyByOverlap
Dies ==
    worker # worker' =>
        LET fw == Head(queue["update"]).root IN round[fw].requests > 1 \/ Content[fw] = {}

\* The status worker dies of a missing key only if another request for the same
\* firmware overlapped with the update, or if the firmware has no files.
THEOREM DeadWorkerIsExplained == Spec => WorkerDiesOnlyByOverlap
<1>1. StatusInv /\ [Next]_vars => Dies
  <2> SUFFICES ASSUME StatusInv, [Next]_vars, worker # worker'
               PROVE  LET fw == Head(queue["update"]).root
                      IN  round[fw].requests > 1 \/ Content[fw] = {}
    BY DEF Dies
  <2> PICK p \in Senders : Worker(p)
    BY SendersLeaveStatus
  <2>1. OnAddUpdate(p)
    BY DEF Worker, OnAddFirmware, OnAddFile, OnAddAnalysis, OnRemoveFile, OnCancel
  <2>2. /\ queue[p] # <<>> /\ Head(queue[p]).type = "add_update"
        /\ Head(queue[p]).root \notin currently_running
    BY <2>1 DEF OnAddUpdate, Receive
  <2>3. /\ Head(queue[p]) = queue[p][1] /\ 1 \in 1 .. Len(queue[p])
        /\ Truthful(p, Head(queue[p]), budget, round[Head(queue[p]).root])
    BY <2>2, MessageFacts
  <2>4. p = "update"
    BY <2>2, <2>3 DEF Truthful
  <2>5. Ready(Head(queue["update"]).root)
    BY <2>2, <2>3, <2>4 DEF StatusInv, UpdatePairs
  <2> QED BY <2>2, <2>4, <2>5 DEF Ready, Waiting
<1>2. WorkerDiesOnlyByOverlap <=> [][Dies]_vars
  BY DEF WorkerDiesOnlyByOverlap, Dies
<1> QED BY <1>1, <1>2, StatusInvariant, PTL DEF Spec
=============================================================================
