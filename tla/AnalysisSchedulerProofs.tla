------------------------ MODULE AnalysisSchedulerProofs ------------------------
(***************************************************************************)
(* Theorems about the lists that schedule_analysis_tasks makes and about   *)
(* the jobs that are worked through along them.  The two components meet   *)
(* in Schedules: the analysis scheduler takes any list of that set, and    *)
(* the task scheduler is shown to return one.                              *)
(***************************************************************************)
EXTENDS AnalysisScheduler, AnalysisTaskScheduler, FiniteSetTheorems, SequenceTheorems, TLAPS

-----------------------------------------------------------------------------
(* schedule_analysis_tasks, for every set of plugins, every graph of       *)
(* dependencies, every request and every outcome of the shuffles.          *)

\* what must be in the result, or remain because of its dependencies
Wanted == requested \cup (IF mandatory = 1 THEN Mandatory ELSE {})

\* The inductive invariant: the list is ordered and without duplicates, what is
\* still to be scheduled is not in it, and nothing gets lost on the way.
Ordered ==
    /\ DependenciesRunFirst
    /\ NoPluginTwice
    /\ remaining \cap Elements(scheduled) = {}

Kept ==
    /\ phase = "dependencies" => scheduled = <<>> /\ requested \subseteq todo
    /\ phase \in {"shuffle", "file_type", "done"} =>
          Wanted \subseteq Elements(scheduled) \cup remaining
    /\ phase \in {"file_type", "done"} => Met = {}

TaskIInv == TaskTypeOK /\ Ordered /\ Kept /\ FileTypeFirst

-----------------------------------------------------------------------------
\* A shuffled wave is a sequence that holds each plugin of the wave exactly once
\* (it maps onto the wave, so by counting it is one to one).
LEMMA ShuffledFacts ==
    ASSUME NEW set \in SUBSET Plugins, NEW wave \in Shuffled(set)
    PROVE  /\ wave \in Seq(Plugins)
           /\ Elements(wave) = set
           /\ \A i, k \in 1..Len(wave) : wave[i] = wave[k] => i = k
<1> DEFINE n == Cardinality(set)
<1>1. IsFiniteSet(set) /\ n \in Nat
  BY FS_Subset, FS_CardinalityType, PluginsAssumption, GraphsAssumption
<1>2. /\ wave \in [1..n -> set]
      /\ \A x \in set : \E i \in DOMAIN wave : wave[i] = x
  BY DEF Shuffled
<1>3. wave \in Seq(Plugins) /\ Len(wave) = n
  BY <1>1, <1>2
<1>4. Elements(wave) = set
  BY <1>1, <1>2, <1>3 DEF Elements
<1>5. wave \in Surjection(1..n, set)
  BY <1>2 DEF Surjection
<1>6. IsFiniteSet(1..n) /\ Cardinality(1..n) = n
  BY <1>1, FS_Interval
<1>7. wave \in Injection(1..n, set)
  BY <1>5, <1>6, FS_SurjSameCardinalityImpliesInj
<1>8. \A i, k \in 1..n : wave[i] = wave[k] => i = k
  BY <1>7 DEF Injection, IsInjective
<1> QED BY <1>3, <1>4, <1>8

\* remove-and-append: what MoveToEnd does to a sequence.
LEMMA MoveToEndFacts ==
    ASSUME NEW s \in Seq(Plugins), NEW i \in 1..Len(s)
    PROVE  LET t == MoveToEnd(s, i) IN
           /\ t \in Seq(Plugins) /\ Len(t) = Len(s)
           /\ \A k \in 1..Len(s) :
                t[k] = IF k < i THEN s[k] ELSE IF k < Len(s) THEN s[k + 1] ELSE s[i]
           /\ \A k \in 1..Len(s) :
                s[k] = IF k < i THEN t[k] ELSE IF k > i THEN t[k - 1] ELSE t[Len(s)]
           /\ Elements(t) = Elements(s)
<1> DEFINE t == MoveToEnd(s, i)
<1>1. Len(s) \in Nat /\ \A k \in 1..Len(s) : s[k] \in Plugins
  OBVIOUS
<1>2. \A k \in 1..Len(s) :
         t[k] = IF k < i THEN s[k] ELSE IF k < Len(s) THEN s[k + 1] ELSE s[i]
  BY <1>1 DEF MoveToEnd
<1>3. t \in [1..Len(s) -> Plugins]
  BY <1>1 DEF MoveToEnd
<1>4. t \in Seq(Plugins) /\ Len(t) = Len(s)
  BY <1>1, <1>3
<1>5. ASSUME NEW k \in 1..Len(s)
      PROVE  s[k] = IF k < i THEN t[k] ELSE IF k > i THEN t[k - 1] ELSE t[Len(s)]
  <2>1. CASE k < i
    BY <2>1, <1>2
  <2>2. CASE k > i
    <3>1. k - 1 \in 1..Len(s) /\ ~(k - 1 < i) /\ k - 1 < Len(s) /\ (k - 1) + 1 = k
      BY <2>2, <1>1
    <3> QED BY <2>2, <3>1, <1>2
  <2>3. CASE k = i
    BY <2>3, <1>1, <1>2
  <2> QED BY <2>1, <2>2, <2>3, <1>1
<1>6. Elements(t) \subseteq Elements(s)
  <2>1. ASSUME NEW k \in 1..Len(s) PROVE \E m \in 1..Len(s) : t[k] = s[m]
    <3>1. CASE k < i
      BY <1>2, <3>1
    <3>2. CASE ~(k < i) /\ k < Len(s)
      <4>1. k + 1 \in 1..Len(s)
        BY <1>1, <3>2
      <4> QED BY <1>2, <3>2, <4>1
    <3>3. CASE ~(k < i) /\ ~(k < Len(s))
      BY <1>2, <3>3
    <3> QED BY <3>1, <3>2, <3>3
  <2> HIDE DEF t
  <2>2. /\ Elements(t) = {t[k] : k \in 1..Len(s)}
        /\ Elements(s) = {s[k] : k \in 1..Len(s)}
    BY <1>4 DEF Elements
  <2> QED BY <2>1, <2>2, Zenon
<1>7. Elements(s) \subseteq Elements(t)
  <2>1. ASSUME NEW k \in 1..Len(s) PROVE \E m \in 1..Len(s) : s[k] = t[m]
    <3>1. CASE k < i
      BY <1>5, <3>1
    <3>2. CASE k > i
      <4>1. k - 1 \in 1..Len(s) /\ ~(k < i)
        BY <1>1, <3>2
      <4> QED BY <1>5, <3>2, <4>1
    <3>3. CASE ~(k < i) /\ ~(k > i)
      <4>1. Len(s) \in 1..Len(s)
        BY <1>1
      <4> QED BY <1>5, <3>3, <4>1
    <3> QED BY <3>1, <3>2, <3>3
  <2> HIDE DEF t
  <2>2. /\ Elements(t) = {t[k] : k \in 1..Len(s)}
        /\ Elements(s) = {s[k] : k \in 1..Len(s)}
    BY <1>4 DEF Elements
  <2> QED BY <2>1, <2>2, Zenon
<1> QED BY <1>2, <1>4, <1>5, <1>6, <1>7

-----------------------------------------------------------------------------
\* A wave in front of the list keeps it ordered.
LEMMA WaveKeepsOrder ==
    ASSUME TaskTypeOK, Ordered, NEW wave \in Shuffled(Met),
           scheduled' = wave \o scheduled, remaining' = remaining \ Met, deps' = deps
    PROVE  /\ Ordered'
           /\ scheduled' \in Seq(Plugins)
           /\ Elements(scheduled') = Met \cup Elements(scheduled)
<1> DEFINE n == Len(wave)
           l == Len(scheduled)
<1>1. /\ wave \in Seq(Plugins)
      /\ Elements(wave) = Met
      /\ \A i, k \in 1..n : wave[i] = wave[k] => i = k
  <2>1. Met \in SUBSET Plugins
    BY DEF Met, TaskTypeOK
  <2> QED BY <2>1, ShuffledFacts
<1>2. scheduled \in Seq(Plugins) /\ n \in Nat /\ l \in Nat
  BY <1>1 DEF TaskTypeOK
<1>3. /\ scheduled' \in Seq(Plugins)
      /\ Len(scheduled') = n + l
      /\ \A i \in 1..n + l : scheduled'[i] = IF i <= n THEN wave[i] ELSE scheduled[i - n]
  BY <1>1, <1>2, ConcatProperties
<1>4. \A k \in 1..l : n + k \in 1..n + l /\ scheduled'[n + k] = scheduled[k]
  BY <1>2, <1>3
<1>5. Elements(scheduled') = Met \cup Elements(scheduled)
  <2>1. \A i \in 1..n + l : scheduled'[i] \in Elements(wave) \cup Elements(scheduled)
    <3> TAKE i \in 1..n + l
    <3>1. CASE i <= n
      BY <3>1, <1>2, <1>3 DEF Elements
    <3>2. CASE i > n
      <4>1. i - n \in 1..l
        BY <3>2, <1>2
      <4>2. scheduled'[i] = scheduled[i - n]
        BY <3>2, <1>2, <1>3
      <4> QED BY <4>1, <4>2 DEF Elements
    <3> QED BY <3>1, <3>2, <1>2
  <2>2. \A i \in 1..n : scheduled'[i] = wave[i] /\ i \in 1..n + l
    BY <1>2, <1>3
  <2>3. Elements(scheduled') = {scheduled'[i] : i \in 1..n + l}
    BY <1>3 DEF Elements
  <2>4. \A x \in Elements(wave) : x \in Elements(scheduled')
    BY <2>2, <2>3 DEF Elements
  <2>5. \A x \in Elements(scheduled) : x \in Elements(scheduled')
    BY <1>4, <2>3 DEF Elements
  <2> QED BY <1>1, <2>1, <2>3, <2>4, <2>5
<1>6. DependenciesRunFirst'
  <2> SUFFICES ASSUME NEW i \in 1..Len(scheduled'), NEW d \in deps'[scheduled'[i]]
               PROVE  \E k \in i + 1..Len(scheduled') : scheduled'[k] = d
    BY DEF DependenciesRunFirst
  <2>0. i \in 1..n + l /\ d \in deps[scheduled'[i]] /\ Len(scheduled') = n + l
    BY <1>3
  <2>1. CASE i <= n
    <3>1. wave[i] \in Met
      BY <2>0, <2>1, <1>1, <1>2 DEF Elements
    <3>2. PICK k \in 1..l : scheduled[k] = d
      BY <3>1, <2>0, <2>1, <1>3 DEF Met, Elements
    <3>3. n + k \in i + 1..Len(scheduled')
      BY <2>0, <2>1, <1>2
    <3> QED BY <3>2, <3>3, <1>4
  <2>2. CASE i > n
    <3>1. i - n \in 1..l /\ scheduled'[i] = scheduled[i - n]
      BY <2>0, <2>2, <1>2, <1>3
    <3>2. PICK k \in (i - n) + 1..l : scheduled[k] = d
      BY <2>0, <3>1 DEF Ordered, DependenciesRunFirst
    <3>3. k \in 1..l /\ n + k \in i + 1..Len(scheduled')
      BY <2>0, <2>2, <1>2
    <3> QED BY <3>2, <3>3, <1>4
  <2> QED BY <2>0, <2>1, <2>2, <1>2
<1>7. NoPluginTwice'
  <2> SUFFICES ASSUME NEW i \in 1..n + l, NEW k \in 1..n + l, i <= k,
                      scheduled'[i] = scheduled'[k]
               PROVE  i = k
    BY <1>2, <1>3 DEF NoPluginTwice
  <2>1. CASE k <= n
    BY <2>1, <1>1, <1>2, <1>3
  <2>2. CASE i > n
    <3>1. /\ i - n \in 1..l /\ k - n \in 1..l
          /\ scheduled[i - n] = scheduled[k - n]
      BY <2>2, <1>2, <1>3
    <3>2. i - n = k - n
      BY <3>1 DEF Ordered, NoPluginTwice
    <3> QED BY <3>2, <1>2
  <2>3. CASE i <= n /\ k > n
    <3>1. k - n \in 1..l /\ i \in 1..n
      BY <2>3, <1>2
    <3>2. wave[i] = scheduled[k - n]
      BY <2>3, <1>2, <1>3
    <3>3. wave[i] \in Met /\ scheduled[k - n] \in Elements(scheduled)
      BY <3>1, <1>1 DEF Elements
    <3>4. Met \subseteq remaining
      BY DEF Met
    <3> QED BY <3>2, <3>3, <3>4 DEF Ordered
  <2> QED BY <2>1, <2>2, <2>3, <1>2
<1>8. remaining' \cap Elements(scheduled') = {}
  BY <1>5 DEF Ordered
<1>9. (remaining \cap Elements(scheduled) = {})'
  BY <1>8 DEF Elements
<1> QED BY <1>3, <1>5, <1>6, <1>7, <1>9 DEF Ordered

\* Moving file_type to the end keeps the list ordered, since it has no
\* dependencies itself.
LEMMA MoveKeepsOrder ==
    ASSUME TaskTypeOK, Ordered, NEW i \in 1..Len(scheduled), scheduled[i] = FileType,
           scheduled' = MoveToEnd(scheduled, i), remaining' = remaining, deps' = deps
    PROVE  /\ Ordered'
           /\ scheduled' \in Seq(Plugins)
           /\ Elements(scheduled') = Elements(scheduled)
           /\ scheduled'[Len(scheduled')] = FileType
<1> DEFINE l == Len(scheduled)
           t == scheduled'
<1>1. scheduled \in Seq(Plugins) /\ l \in Nat /\ deps[FileType] = {}
  BY PluginsAssumption, GraphsAssumption DEF TaskTypeOK
<1>2. /\ t \in Seq(Plugins) /\ Len(t) = l
      /\ \A k \in 1..l :
           t[k] = IF k < i THEN scheduled[k] ELSE IF k < l THEN scheduled[k + 1]
                  ELSE scheduled[i]
      /\ \A k \in 1..l :
           scheduled[k] = IF k < i THEN t[k] ELSE IF k > i THEN t[k - 1] ELSE t[l]
      /\ Elements(t) = Elements(scheduled)
  <2> DEFINE moved == MoveToEnd(scheduled, i)
  <2>1. /\ moved \in Seq(Plugins) /\ Len(moved) = l
        /\ \A k \in 1..l :
             moved[k] = IF k < i THEN scheduled[k] ELSE IF k < l THEN scheduled[k + 1]
                        ELSE scheduled[i]
        /\ \A k \in 1..l :
             scheduled[k] = IF k < i THEN moved[k] ELSE IF k > i THEN moved[k - 1] ELSE moved[l]
        /\ Elements(moved) = Elements(scheduled)
    BY <1>1, MoveToEndFacts, Zenon
  <2>2. t = moved
    OBVIOUS
  <2> HIDE DEF moved
  <2> QED BY <2>1, <2>2
<1>3. t[l] = FileType
  BY <1>1, <1>2
<1>4. DependenciesRunFirst'
  <2> SUFFICES ASSUME NEW k \in 1..l, NEW d \in deps[t[k]]
               PROVE  \E m \in k + 1..l : t[m] = d
    BY <1>2 DEF DependenciesRunFirst
  <2>1. k # l
    BY <1>1, <1>3
  <2>2. PICK j \in 1..l : t[k] = scheduled[j] /\ ((j = k /\ k < i) \/ (j = k + 1 /\ k >= i))
    <3>1. CASE k < i
      BY <3>1, <1>2
    <3>2. CASE k >= i
      <4>1. k + 1 \in 1..l /\ t[k] = scheduled[k + 1]
        BY <3>2, <2>1, <1>1, <1>2
      <4> QED BY <3>2, <4>1
    <3> QED BY <3>1, <3>2, <1>1
  <2>3. PICK m \in j + 1..l : scheduled[m] = d
    BY <2>2 DEF Ordered, DependenciesRunFirst
  <2>4. CASE m < i
    BY <2>2, <2>3, <2>4, <1>1, <1>2
  <2>5. CASE m > i
    <3>1. m - 1 \in k + 1..l /\ t[m - 1] = d
      BY <2>2, <2>3, <2>5, <1>1, <1>2
    <3> QED BY <3>1
  <2>6. CASE m = i
    BY <2>1, <2>3, <2>6, <1>1, <1>2
  <2> QED BY <2>3, <2>4, <2>5, <2>6, <1>1
<1>5. NoPluginTwice'
  <2> DEFINE From(k) == IF k < i THEN k ELSE IF k < l THEN k + 1 ELSE i
  <2>1. \A k \in 1..l : From(k) \in 1..l /\ t[k] = scheduled[From(k)]
    BY <1>1, <1>2
  <2>2. \A k, m \in 1..l : From(k) = From(m) => k = m
    BY <1>1
  <2>3. \A k, m \in 1..l : t[k] = t[m] => From(k) = From(m)
    BY <2>1 DEF Ordered, NoPluginTwice
  <2> QED BY <2>2, <2>3, <1>2 DEF NoPluginTwice
<1>6. (remaining \cap Elements(scheduled) = {})'
  BY <1>2 DEF Ordered, Elements
<1> QED BY <1>2, <1>3, <1>4, <1>5, <1>6 DEF Ordered

-----------------------------------------------------------------------------
\* Before the first pass the list is empty and nothing has been dropped.
LEMMA TaskInitIInv == TaskInit => TaskIInv
<1> SUFFICES ASSUME TaskInit PROVE TaskIInv
  OBVIOUS
<1>1. scheduled = <<>> /\ Len(scheduled) = 0 /\ Elements(scheduled) = {}
  BY DEF TaskInit, Elements
<1>2. TaskTypeOK
  BY PluginsAssumption, GraphsAssumption DEF TaskInit, TaskTypeOK
<1>3. Ordered
  BY <1>1 DEF Ordered, DependenciesRunFirst, NoPluginTwice
<1>4. Kept /\ FileTypeFirst
  BY DEF TaskInit, Kept, FileTypeFirst
<1> QED BY <1>2, <1>3, <1>4 DEF TaskIInv

\* Every pass of the loop, the move of file_type and the end keep the invariant.
LEMMA TaskNextIInv == TaskIInv /\ [TaskNext]_taskVars => TaskIInv'
<1> SUFFICES ASSUME TaskIInv, [TaskNext]_taskVars PROVE TaskIInv'
  OBVIOUS
<1> USE PluginsAssumption, GraphsAssumption DEF TaskIInv
<1>1. CASE AddDependencies
  <2>1. TaskTypeOK'
    BY <1>1 DEF AddDependencies, TaskTypeOK, CumulativeRemaining, arguments
  <2>2. Ordered'
    BY <1>1 DEF AddDependencies, Ordered, DependenciesRunFirst, NoPluginTwice, Elements, arguments
  <2>3. Kept' /\ FileTypeFirst'
    BY <1>1 DEF AddDependencies, Kept, FileTypeFirst, arguments
  <2> QED BY <2>1, <2>2, <2>3
<1>2. CASE DependenciesFail \/ ShuffleFails
  <2>1. TaskTypeOK'
    BY <1>2 DEF DependenciesFail, ShuffleFails, Fail, TaskTypeOK, arguments
  <2>2. Ordered'
    <3>1. scheduled' = scheduled /\ remaining' = remaining /\ deps' = deps
      BY <1>2 DEF DependenciesFail, ShuffleFails, Fail, arguments
    <3>2. DependenciesRunFirst'
      BY <3>1 DEF Ordered, DependenciesRunFirst
    <3>3. NoPluginTwice'
      BY <3>1 DEF Ordered, NoPluginTwice
    <3>4. (remaining \cap Elements(scheduled) = {})'
      BY <3>1 DEF Ordered, Elements
    <3> QED BY <3>2, <3>3, <3>4 DEF Ordered
  <2>3. Kept' /\ FileTypeFirst'
    BY <1>2 DEF DependenciesFail, ShuffleFails, Fail, Kept, FileTypeFirst, arguments
  <2> QED BY <2>1, <2>2, <2>3
<1>3. CASE AddMandatory
  <2>1. TaskTypeOK'
    BY <1>3 DEF AddMandatory, TaskTypeOK, arguments
  <2>2. scheduled' = <<>> /\ scheduled = <<>> /\ Len(scheduled') = 0 /\ Elements(scheduled)' = {}
    BY <1>3 DEF AddMandatory, Kept, Elements
  <2>3. Ordered'
    BY <2>2 DEF Ordered, DependenciesRunFirst, NoPluginTwice
  <2>4. Wanted' \subseteq remaining'
    BY <1>3 DEF AddMandatory, Wanted, Kept, arguments
  <2>5. Kept' /\ FileTypeFirst'
    BY <1>3, <2>4 DEF AddMandatory, Kept, FileTypeFirst
  <2> QED BY <2>1, <2>3, <2>5
<1>4. CASE ShuffleWave
  <2>1. PICK wave \in Shuffled(Met) : scheduled' = wave \o scheduled
    BY <1>4 DEF ShuffleWave
  <2>2. /\ Ordered'
        /\ scheduled' \in Seq(Plugins)
        /\ Elements(scheduled') = Met \cup Elements(scheduled)
    BY <1>4, <2>1, WaveKeepsOrder DEF ShuffleWave, arguments
  <2>3. TaskTypeOK'
    BY <1>4, <2>2 DEF ShuffleWave, TaskTypeOK, arguments
  <2>4. Elements(scheduled)' = Met \cup Elements(scheduled)
    BY <2>2 DEF Elements
  <2>5. Wanted' = Wanted /\ Wanted \subseteq Elements(scheduled) \cup remaining
    BY <1>4 DEF ShuffleWave, Wanted, Kept, arguments
  <2>6. Kept' /\ FileTypeFirst'
    BY <1>4, <2>4, <2>5 DEF ShuffleWave, Kept, FileTypeFirst
  <2> QED BY <2>2, <2>3, <2>6
<1>5. CASE ShuffleEnds
  <2>1. TaskTypeOK'
    BY <1>5 DEF ShuffleEnds, TaskTypeOK, arguments
  <2>2. Ordered'
    BY <1>5 DEF ShuffleEnds, Ordered, DependenciesRunFirst, NoPluginTwice, Elements, arguments
  <2>3. Met' = {}
    BY <1>5 DEF ShuffleEnds, Met, Elements, arguments
  <2>4. Kept' /\ FileTypeFirst'
    BY <1>5, <2>3 DEF ShuffleEnds, Kept, Wanted, Elements, FileTypeFirst, arguments
  <2> QED BY <2>1, <2>2, <2>4
<1>6. CASE MoveFileType
  <2>1. /\ Ordered'
        /\ scheduled' \in Seq(Plugins)
        /\ Elements(scheduled') = Elements(scheduled)
        /\ FileType \in Elements(scheduled) => scheduled'[Len(scheduled')] = FileType
    <3>1. CASE FileType \notin Elements(scheduled) /\ scheduled' = scheduled
      BY <1>6, <3>1 DEF MoveFileType, TaskTypeOK, Ordered, DependenciesRunFirst,
                        NoPluginTwice, Elements, arguments
    <3>2. CASE \E i \in 1..Len(scheduled) :
                  scheduled[i] = FileType /\ scheduled' = MoveToEnd(scheduled, i)
      BY <1>6, <3>2, MoveKeepsOrder DEF MoveFileType, arguments
    <3> QED BY <1>6, <3>1, <3>2 DEF MoveFileType
  <2>2. TaskTypeOK'
    BY <1>6, <2>1 DEF MoveFileType, TaskTypeOK, arguments
  <2>3. Elements(scheduled)' = Elements(scheduled)
    BY <2>1 DEF Elements
  <2>4. Met' = {}
    BY <1>6, <2>3 DEF MoveFileType, Met, Kept, arguments
  <2>5. Kept'
    BY <1>6, <2>3, <2>4 DEF MoveFileType, Kept, Wanted, arguments
  <2>6. FileTypeFirst'
    BY <2>1, <2>3 DEF FileTypeFirst
  <2> QED BY <2>1, <2>2, <2>5, <2>6
<1>7. CASE UNCHANGED taskVars
  <2>1. TaskTypeOK' /\ Kept' /\ FileTypeFirst'
    BY <1>7 DEF taskVars, TaskTypeOK, Kept, Wanted, Met, Elements, FileTypeFirst
  <2>2. Ordered'
    BY <1>7 DEF taskVars, Ordered, DependenciesRunFirst, NoPluginTwice, Elements
  <2> QED BY <2>1, <2>2
<1> QED BY <1>1, <1>2, <1>3, <1>4, <1>5, <1>6, <1>7 DEF TaskNext

\* So it holds in every reachable state.
LEMMA TaskIInvHolds == TaskSpec => []TaskIInv
  BY TaskInitIInv, TaskNextIInv, PTL DEF TaskSpec

-----------------------------------------------------------------------------
\* schedule_analysis_tasks never puts a plugin where it would be analysed before
\* one of its dependencies.
THEOREM DependenciesFirst == TaskSpec => []DependenciesRunFirst
<1>1. TaskIInv => DependenciesRunFirst
  BY DEF TaskIInv, Ordered
<1> QED BY <1>1, TaskIInvHolds, PTL

\* schedule_analysis_tasks schedules no plugin twice.
THEOREM EachPluginOnce == TaskSpec => []NoPluginTwice
<1>1. TaskIInv => NoPluginTwice
  BY DEF TaskIInv, Ordered
<1> QED BY <1>1, TaskIInvHolds, PTL

\* The result of schedule_analysis_tasks holds everything that was requested, with
\* the mandatory plugins, but for plugins whose dependencies are left out too.
THEOREM NothingForgotten == TaskSpec => []NothingIsForgotten
<1>1. TaskIInv => NothingIsForgotten
  BY DEF TaskIInv, Kept, Wanted, Met, NothingIsForgotten
<1> QED BY <1>1, TaskIInvHolds, PTL

\* file_type is at the end of the result of schedule_analysis_tasks, where the
\* analysis starts, if it is in it.
THEOREM FileTypeAtEnd == TaskSpec => []FileTypeFirst
<1>1. TaskIInv => FileTypeFirst
  BY DEF TaskIInv
<1> QED BY <1>1, TaskIInvHolds, PTL

\* What schedule_analysis_tasks returns can be run from its end, whatever the
\* plugins, their dependencies, the request and the shuffles are.
THEOREM ScheduleCorrect == TaskSpec => []ScheduleIsSound
<1>1. /\ DependenciesRunFirst
      /\ NoPluginTwice
      /\ NothingIsForgotten
      /\ FileTypeFirst
      => ScheduleIsSound
  BY DEF ScheduleIsSound
<1> QED
  BY <1>1, DependenciesFirst, EachPluginOnce, NothingForgotten, FileTypeAtEnd, PTL

-----------------------------------------------------------------------------
(* The jobs of the analysis scheduler.  What the invariant says of a job   *)
(* is put in terms of four things: the plugins still in its list, the one  *)
(* it is with, the results in the file object and the rows of its file.    *)

Rows == [Plugins -> Record]
Results == [Plugins -> Kinds \cup {"old"}]
Skipped == {"blacklisted", "missing", "invalid", "failed"}

\* UpToDate, of the rows of a file
Fresh(rows, p) ==
    /\ rows[p].kind \notin {"none", "failed"}
    /\ rows[p].current = 1
    /\ \A d \in Deps[p] : rows[d].kind # "none" /\ rows[p].date >= rows[d].date

\* SkipsAreRevised, of the rows of a file
Revised(rows) ==
    \A p \in Plugins : rows[p].kind = "missing" /\ Fresh(rows, p) =>
        \E d \in Deps[p] : rows[d].kind # "ok" \/ ~Fresh(rows, d)

\* Of a job whose list was made by schedule_analysis_tasks: where an analysis is in the
\* list or with its plugin (flight), its dependents are in the list; what is done was
\* done after its dependencies, or failed with them, and has left a row.
PlanOK(plan, list, flight, results, rows) ==
    LET done == plan \ (list \cup flight) IN
    /\ list \cup flight \subseteq plan /\ list \cap flight = {}
    /\ \A p \in flight : Deps[p] \subseteq done
    /\ \A p \in list : \A d \in Deps[p] \cap done : results[d] # "none"
    /\ \A p \in done : results[p] = "failed" \/ Deps[p] \subseteq done
    /\ \A p \in done : results[p] = "failed" \/ rows[p].kind # "none"

\* what is done is up to date, unless something failed
FreshOK(done, results, rows) ==
    (\A p \in done : results[p] # "failed") => \A p \in done : Fresh(rows, p)

\* what the file object says was skipped or failed has such a row, or a row that is
\* not up to date
SkipOK(results, rows) ==
    \A d \in Plugins : results[d] \in Skipped => rows[d].kind # "ok" \/ ~Fresh(rows, d)

Stored(rows, p, kind, date) ==
    [rows EXCEPT ![p] = [kind |-> kind, date |-> date, current |-> 1]]

\* The constants of the scheduler, by what the proofs use of them.
LEMMA DepsType == \A p \in Plugins : Deps[p] \subseteq Plugins
BY SchedulerConstants

\* A row that is stored with a later date than all others makes its dependents out of
\* date, and nothing else.
LEMMA StoredFacts ==
    ASSUME NEW rows \in Rows, NEW x \in Plugins, NEW kind \in Kinds \ {"none"},
           NEW date \in Nat, \A p \in Plugins : rows[p].date < date
    PROVE  LET new == Stored(rows, x, kind, date) IN
           /\ new \in Rows
           /\ new[x].kind = kind /\ new[x].date = date /\ new[x].current = 1
           /\ \A p \in Plugins \ {x} : new[p] = rows[p]
           /\ \A p \in Plugins : rows[p].kind # "none" => new[p].kind # "none"
           /\ \A p \in Plugins \ {x} : Fresh(new, p) <=> Fresh(rows, p) /\ x \notin Deps[p]
<1> DEFINE new == Stored(rows, x, kind, date)
<1>1. new \in Rows
  BY DEF Stored, Rows, Record
<1>2. new[x] = [kind |-> kind, date |-> date, current |-> 1]
  BY DEF Stored, Rows
<1>3. \A p \in Plugins \ {x} : new[p] = rows[p]
  BY DEF Stored, Rows
<1>4. new[x].kind = kind /\ new[x].date = date /\ new[x].current = 1
  BY <1>2
<1>5. ASSUME NEW p \in Plugins \ {x} PROVE Fresh(new, p) <=> Fresh(rows, p) /\ x \notin Deps[p]
  <2>1. new[p] = rows[p] /\ rows[p].date \in Nat /\ rows[p].date < date
    BY <1>3 DEF Rows, Record
  <2>2. CASE x \in Deps[p]
    <3>1. ~(new[p].date >= new[x].date)
      BY <2>1, <1>4
    <3> QED BY <2>2, <3>1 DEF Fresh
  <2>3. CASE x \notin Deps[p]
    <3>1. \A d \in Deps[p] : new[d] = rows[d]
      BY <2>3, <1>3, DepsType
    <3> HIDE DEF new
    <3> QED BY <2>1, <2>3, <3>1 DEF Fresh
  <2> QED BY <2>2, <2>3
<1>6. \A p \in Plugins : rows[p].kind # "none" => new[p].kind # "none"
  BY <1>3, <1>4
<1> HIDE DEF new
<1> QED BY <1>1, <1>3, <1>4, <1>5, <1>6 DEF new

\* A stored row keeps what the file object says in line with the rows, if the file
\* object says the same of it; the dependents of a failed plugin get no rows.
LEMMA StoredSkipOK ==
    ASSUME NEW rows \in Rows, NEW x \in Plugins, NEW kind \in Kinds \ {"none"},
           NEW date \in Nat, \A p \in Plugins : rows[p].date < date,
           NEW results, NEW after,
           SkipOK(results, rows),
           \A p \in Plugins \ {x} : after[p] = results[p] \/ x \in Deps[p],
           after[x] = kind
    PROVE  SkipOK(after, Stored(rows, x, kind, date))
<1> DEFINE new == Stored(rows, x, kind, date)
<1>1. /\ new[x].kind = kind
      /\ \A p \in Plugins \ {x} : new[p] = rows[p]
      /\ \A p \in Plugins \ {x} : Fresh(new, p) => Fresh(rows, p) /\ x \notin Deps[p]
  BY StoredFacts
<1> HIDE DEF new
<1>2. SUFFICES ASSUME NEW d \in Plugins, after[d] \in Skipped
               PROVE  new[d].kind # "ok" \/ ~Fresh(new, d)
  BY DEF SkipOK, new
<1>3. CASE d = x
  BY <1>1, <1>2, <1>3 DEF Skipped
<1>4. CASE d # x
  BY <1>1, <1>2, <1>4 DEF SkipOK
<1> QED BY <1>3, <1>4

\* A stored row keeps the rows revisable, if one for missing dependencies is stored when
\* a dependency has no result or is not up to date.
LEMMA StoredRevised ==
    ASSUME NEW rows \in Rows, NEW x \in Plugins, NEW kind \in Kinds \ {"none"},
           NEW date \in Nat, \A p \in Plugins : rows[p].date < date,
           Revised(rows),
           kind = "missing" => \E d \in Deps[x] : rows[d].kind # "ok" \/ ~Fresh(rows, d)
    PROVE  Revised(Stored(rows, x, kind, date))
<1> DEFINE new == Stored(rows, x, kind, date)
<1>1. /\ new[x].kind = kind
      /\ \A p \in Plugins \ {x} : new[p] = rows[p]
      /\ \A p \in Plugins \ {x} : Fresh(new, p) => Fresh(rows, p) /\ x \notin Deps[p]
  BY StoredFacts
<1> HIDE DEF new
<1>2. SUFFICES ASSUME NEW p \in Plugins, new[p].kind = "missing", Fresh(new, p)
               PROVE  \E d \in Deps[p] : new[d].kind # "ok" \/ ~Fresh(new, d)
  BY DEF Revised, new
<1>3. PICK d \in Deps[p] : rows[d].kind # "ok" \/ ~Fresh(rows, d)
  <2>1. CASE p = x
    BY <2>1, <1>1, <1>2
  <2>2. CASE p # x
    BY <2>2, <1>1, <1>2 DEF Revised
  <2> QED BY <2>1, <2>2
<1>4. d \in Plugins
  BY DepsType
<1>5. CASE d = x
  <2>1. p = x
    BY <1>1, <1>2, <1>5
  <2> QED BY <2>1, <1>5, <1>2
<1>6. CASE d # x
  BY <1>1, <1>3, <1>4, <1>6
<1> QED BY <1>5, <1>6

-----------------------------------------------------------------------------
(* Lists of plugins.                                                       *)

OnceEach(s) == \A i, k \in 1..Len(s) : s[i] = s[k] => i = k

DependenciesBehind(s) == \A i, k \in 1..Len(s) : s[k] \in Deps[s[i]] => i < k

\* A list without its last element, which is NextPlugin.
LEMMA RestFacts ==
    ASSUME NEW s \in Seq(Plugins), s # <<>>, OnceEach(s)
    PROVE  LET rest == SubSeq(s, 1, Len(s) - 1)
               last == s[Len(s)]
           IN  /\ rest \in Seq(Plugins) /\ OnceEach(rest)
               /\ last \in Elements(s) /\ last \in Plugins
               /\ Elements(rest) = Elements(s) \ {last}
               /\ DependenciesBehind(s) =>
                     DependenciesBehind(rest) /\ Deps[last] \cap Elements(s) = {}
<1> DEFINE rest == SubSeq(s, 1, Len(s) - 1)
           last == s[Len(s)]
<1>1. Len(s) \in Nat /\ Len(s) > 0 /\ Len(s) \in 1..Len(s) /\ DOMAIN s = 1..Len(s)
  BY EmptySeq
<1>2. /\ rest \in Seq(Plugins) /\ Len(rest) = Len(s) - 1
      /\ \A i \in 1..Len(s) - 1 : rest[i] = s[i]
  BY <1>1
<1>3. last \in Elements(s) /\ last \in Plugins
  BY <1>1 DEF Elements
<1>4. OnceEach(rest)
  BY <1>1, <1>2 DEF OnceEach
<1>5. Elements(rest) = Elements(s) \ {last}
  <2>1. ASSUME NEW i \in 1..Len(s) - 1 PROVE s[i] \in Elements(s) \ {last}
    BY <1>1 DEF Elements, OnceEach
  <2>2. ASSUME NEW i \in 1..Len(s), s[i] # last PROVE i \in 1..Len(s) - 1
    BY <2>2, <1>1
  <2>3. Elements(rest) = {s[i] : i \in 1..Len(s) - 1}
    <3> HIDE DEF rest
    <3> QED BY <1>2 DEF Elements
  <2>4. 1..Len(s) - 1 \subseteq 1..Len(s)
    BY <1>1
  <2>5. ASSUME NEW p \in Elements(s) \ {last} PROVE p \in Elements(rest)
    <3>1. PICK i \in 1..Len(s) : s[i] = p
      BY <2>5 DEF Elements
    <3>2. i \in 1..Len(s) - 1
      BY <3>1, <2>2, <2>5
    <3> HIDE DEF rest, last
    <3> QED BY <3>1, <3>2, <2>3
  <2> HIDE DEF rest, last
  <2> QED BY <2>1, <2>3, <2>5
<1>6. ASSUME DependenciesBehind(s)
      PROVE  DependenciesBehind(rest) /\ Deps[last] \cap Elements(s) = {}
  <2>1. DependenciesBehind(rest)
    BY <1>1, <1>2, <1>6 DEF DependenciesBehind
  <2>2. ASSUME NEW k \in 1..Len(s), s[k] \in Deps[last] PROVE FALSE
    BY <2>2, <1>1, <1>6 DEF DependenciesBehind
  <2> QED BY <2>1, <2>2 DEF Elements
<1> HIDE DEF rest, last
<1>7. /\ rest \in Seq(Plugins) /\ OnceEach(rest)
      /\ last \in Elements(s) /\ last \in Plugins
      /\ Elements(rest) = Elements(s) \ {last}
      /\ DependenciesBehind(s) =>
            DependenciesBehind(rest) /\ Deps[last] \cap Elements(s) = {}
  BY <1>2, <1>3, <1>4, <1>5, <1>6
<1> QED BY <1>7, Zenon DEF rest, last

\* Removing members keeps the order.
LEMMA WithoutFacts ==
    ASSUME NEW s \in Seq(Plugins), OnceEach(s), NEW set, NEW t \in Without(s, set)
    PROVE  /\ t \in Seq(Plugins) /\ OnceEach(t)
           /\ Elements(t) = Elements(s) \ set
           /\ DependenciesBehind(s) => DependenciesBehind(t)
<1>1. Elements(s) \in SUBSET Plugins
  BY DEF Elements
<1>2. /\ t \in Shuffled(Elements(s) \ set)
      /\ \A i, k \in 1..Len(t) : i < k =>
            \E m, n \in 1..Len(s) : m < n /\ s[m] = t[i] /\ s[n] = t[k]
  BY DEF Without
<1>3. /\ t \in Seq(Plugins) /\ OnceEach(t)
      /\ Elements(t) = Elements(s) \ set
  BY <1>1, <1>2, ShuffledFacts DEF OnceEach
<1>4. ASSUME DependenciesBehind(s), NEW i \in 1..Len(t), NEW k \in 1..Len(t),
             t[k] \in Deps[t[i]], ~(i < k)
      PROVE  FALSE
  <2>1. Len(s) \in Nat /\ Len(t) \in Nat
    BY <1>3
  <2>2. CASE i = k
    <3>1. t[i] \in Elements(s)
      BY <1>3 DEF Elements
    <3>2. PICK m \in 1..Len(s) : s[m] = t[i]
      BY <3>1 DEF Elements
    <3> QED BY <2>1, <2>2, <3>2, <1>4 DEF DependenciesBehind
  <2>3. CASE k < i
    <3>1. PICK m, n \in 1..Len(s) : m < n /\ s[m] = t[k] /\ s[n] = t[i]
      BY <2>3, <1>2
    <3>2. n < m
      BY <3>1, <1>4 DEF DependenciesBehind
    <3> QED BY <2>1, <3>1, <3>2
  <2> QED BY <2>1, <2>2, <2>3, <1>4
<1> QED BY <1>3, <1>4 DEF DependenciesBehind

\* The dependencies of what a job is to run are among it.
LEMMA PlanFacts ==
    ASSUME NEW j \in Jobs
    PROVE  Plan(j) \subseteq Plugins /\ Closed(Plan(j))
<1> DEFINE closure == Closure(Requested[j])
<1>1. closure \subseteq Plugins
  BY DEF Closure
<1>2. Closed(closure)
  <2>1. SUFFICES ASSUME NEW p \in closure, NEW d \in Deps[p], NEW t \in SUBSET Plugins,
                        Requested[j] \subseteq t, Closed(t)
                 PROVE  d \in t
    BY <1>1, DepsType DEF Closed, Closure
  <2>2. p \in t
    BY <2>1 DEF Closure
  <2> QED BY <2>1, <2>2 DEF Closed
<1>3. Mandatory \subseteq Plugins /\ Closed(Mandatory)
  BY PluginsAssumption, SchedulerConstants
<1> QED BY <1>1, <1>2, <1>3 DEF Plan, Closed

\* What schedule_analysis_tasks returns can be worked through from the end.
LEMMA SchedulesFacts ==
    ASSUME NEW set \in SUBSET Plugins, NEW s \in Schedules(set)
    PROVE  s \in Seq(Plugins) /\ OnceEach(s) /\ DependenciesBehind(s) /\ Elements(s) = set
<1>1. /\ s \in Shuffled(set)
      /\ \A i \in 1..Len(s) : \A d \in Deps[s[i]] : \E k \in i + 1..Len(s) : s[k] = d
  BY DEF Schedules
<1>2. s \in Seq(Plugins) /\ OnceEach(s) /\ Elements(s) = set
  BY <1>1, ShuffledFacts DEF OnceEach
<1>3. ASSUME NEW i \in 1..Len(s), NEW k \in 1..Len(s), s[k] \in Deps[s[i]]
      PROVE  i < k
  <2>1. PICK m \in i + 1..Len(s) : s[m] = s[k]
    BY <1>1, <1>3
  <2>2. Len(s) \in Nat /\ m \in 1..Len(s) /\ i < m
    BY <1>2
  <2> QED BY <2>1, <2>2, <1>2 DEF OnceEach
<1> QED BY <1>2, <1>3 DEF DependenciesBehind

-----------------------------------------------------------------------------
(* How the analyses of a job move from the list to what is done.           *)

\* the results in the file object are only added to, except for x
Adds(results, after, x) ==
    \A p \in Plugins \ {x} : results[p] # "none" => after[p] = results[p]

\* Rows only come.
Grows(rows, new) == \A p \in Plugins : rows[p].kind # "none" => new[p].kind # "none"

\* The last analysis of the list has its dependencies done.
LEMMA LastIsReady ==
    ASSUME NEW plan \in SUBSET Plugins, Closed(plan), NEW list, NEW results, NEW rows,
           PlanOK(plan, list, {}, results, rows),
           NEW x \in list, Deps[x] \cap list = {}
    PROVE  Deps[x] \subseteq plan \ list
BY DEF PlanOK, Closed

\* It is skipped: it is done at once.
LEMMA SkippedPlanOK ==
    ASSUME NEW plan \in SUBSET Plugins, Closed(plan), NEW list,
           NEW results, NEW after, NEW rows, NEW new,
           PlanOK(plan, list, {}, results, rows),
           NEW x \in list, Deps[x] \cap list = {},
           Adds(results, after, x), Grows(rows, new),
           new[x].kind # "none",
           after[x] # "none" \/ \A p \in list \ {x} : x \notin Deps[p]
    PROVE  PlanOK(plan, list \ {x}, {}, after, new)
<1> DEFINE done == plan \ list
<1>1. /\ list \subseteq plan
      /\ \A p \in list : \A d \in Deps[p] \cap done : results[d] # "none"
      /\ \A p \in done : results[p] = "failed" \/ Deps[p] \subseteq done
      /\ \A p \in done : results[p] = "failed" \/ rows[p].kind # "none"
  BY DEF PlanOK
<1>2. Deps[x] \subseteq done
  BY LastIsReady
<1>3. plan \ (list \ {x}) = done \cup {x} /\ x \notin done
  BY <1>1
<1>4. ASSUME NEW p \in list \ {x}, NEW d \in Deps[p] \cap (done \cup {x}) PROVE after[d] # "none"
  BY <1>1, <1>4 DEF Adds
<1>5. ASSUME NEW p \in done \cup {x} PROVE after[p] = "failed" \/ Deps[p] \subseteq done \cup {x}
  BY <1>1, <1>2 DEF Adds
<1>6. ASSUME NEW p \in done \cup {x} PROVE after[p] = "failed" \/ new[p].kind # "none"
  BY <1>1 DEF Adds, Grows
<1> HIDE DEF done
<1> QED BY <1>1, <1>3, <1>4, <1>5, <1>6 DEF PlanOK

\* It is queued with its plugin.
LEMMA QueuedPlanOK ==
    ASSUME NEW plan \in SUBSET Plugins, Closed(plan), NEW list,
           NEW results, NEW after, NEW rows,
           PlanOK(plan, list, {}, results, rows),
           NEW x \in list, Deps[x] \cap list = {},
           Adds(results, after, x)
    PROVE  PlanOK(plan, list \ {x}, {x}, after, rows)
<1> DEFINE done == plan \ list
<1>1. /\ list \subseteq plan
      /\ \A p \in list : \A d \in Deps[p] \cap done : results[d] # "none"
      /\ \A p \in done : results[p] = "failed" \/ Deps[p] \subseteq done
      /\ \A p \in done : results[p] = "failed" \/ rows[p].kind # "none"
  BY DEF PlanOK
<1>2. Deps[x] \subseteq done
  BY LastIsReady
<1>3. plan \ ((list \ {x}) \cup {x}) = done /\ x \notin done
  BY <1>1
<1>4. ASSUME NEW p \in list, NEW d \in Deps[p] \cap done PROVE after[d] # "none"
  BY <1>1, <1>3, <1>4 DEF Adds
<1>5. ASSUME NEW p \in done PROVE (after[p] = "failed" <=> results[p] = "failed") \/ results[p] = "none"
  BY <1>1, <1>3 DEF Adds
<1> HIDE DEF done
<1> QED BY <1>1, <1>2, <1>3, <1>4, <1>5 DEF PlanOK

\* It comes back with a result.
LEMMA CollectedPlanOK ==
    ASSUME NEW plan \in SUBSET Plugins, NEW list, NEW x, NEW results, NEW rows, NEW new,
           PlanOK(plan, list, {x}, results, rows),
           results[x] # "none", Grows(rows, new), new[x].kind # "none"
    PROVE  PlanOK(plan, list, {}, results, new)
<1> DEFINE done == plan \ (list \cup {x})
<1>1. /\ list \cup {x} \subseteq plan /\ x \notin list
      /\ Deps[x] \subseteq done
      /\ \A p \in list : \A d \in Deps[p] \cap done : results[d] # "none"
      /\ \A p \in done : results[p] = "failed" \/ Deps[p] \subseteq done
      /\ \A p \in done : results[p] = "failed" \/ rows[p].kind # "none"
  BY DEF PlanOK
<1>2. plan \ list = done \cup {x}
  BY <1>1
<1>3. ASSUME NEW p \in done \cup {x} PROVE results[p] = "failed" \/ new[p].kind # "none"
  BY <1>1 DEF Grows
<1> HIDE DEF done
<1> QED BY <1>1, <1>2, <1>3 DEF PlanOK

\* It comes back with an exception: its dependents are taken off the list.
LEMMA FailedPlanOK ==
    ASSUME NEW plan \in SUBSET Plugins, NEW list, NEW x, NEW results, NEW after,
           NEW rows, NEW new,
           PlanOK(plan, list, {x}, results, rows), Grows(rows, new),
           after = [q \in Plugins |-> IF q = x \/ q \in {p \in list : x \in Deps[p]}
                                      THEN "failed" ELSE results[q]]
    PROVE  PlanOK(plan, list \ {p \in list : x \in Deps[p]}, {}, after, new)
<1> DEFINE done == plan \ (list \cup {x})
           gone == {p \in list : x \in Deps[p]}
<1>1. /\ list \cup {x} \subseteq plan /\ x \notin list
      /\ Deps[x] \subseteq done
      /\ \A p \in list : \A d \in Deps[p] \cap done : results[d] # "none"
      /\ \A p \in done : results[p] = "failed" \/ Deps[p] \subseteq done
      /\ \A p \in done : results[p] = "failed" \/ rows[p].kind # "none"
  BY DEF PlanOK
<1>2. plan \ (list \ gone) = done \cup {x} \cup gone
  BY <1>1
<1>3. /\ \A q \in gone \cup {x} : after[q] = "failed"
      /\ \A q \in done : after[q] = results[q]
  BY <1>1
<1>4. list \ gone \subseteq list
  OBVIOUS
<1>5. ASSUME NEW p \in done \cup {x} \cup gone
      PROVE  after[p] = "failed" \/ new[p].kind # "none"
  BY <1>1, <1>3 DEF Grows
<1>6. ASSUME NEW p \in list, NEW d \in Deps[p] \cap (done \cup {x} \cup gone)
      PROVE  after[d] # "none"
  BY <1>1, <1>3
<1>7. ASSUME NEW p \in done \cup {x} \cup gone
      PROVE  after[p] = "failed" \/ Deps[p] \subseteq done \cup {x} \cup gone
  BY <1>1, <1>3
<1> HIDE DEF done, gone
<1>8. PlanOK(plan, list \ gone, {}, after, new)
  BY <1>1, <1>2, <1>4, <1>5, <1>6, <1>7 DEF PlanOK
<1> QED BY <1>8 DEF gone

\* What is done now is up to date if what was done before is.
LEMMA StoredFreshOK ==
    ASSUME NEW done \in SUBSET Plugins, NEW x \in Plugins, x \notin done,
           NEW results, NEW after, NEW rows \in Rows,
           NEW kind \in Kinds \ {"none", "failed"}, NEW date \in Nat,
           \A p \in Plugins : rows[p].date < date,
           Deps[x] \subseteq done,
           \A p \in done : results[p] = "failed" \/ Deps[p] \subseteq done,
           \A p \in done : results[p] = "failed" \/ rows[p].kind # "none",
           FreshOK(done, results, rows), Adds(results, after, x)
    PROVE  FreshOK(done \cup {x}, after, Stored(rows, x, kind, date))
<1> DEFINE new == Stored(rows, x, kind, date)
<1>1. /\ new[x].kind = kind /\ new[x].date = date /\ new[x].current = 1
      /\ \A p \in Plugins \ {x} : new[p] = rows[p]
      /\ \A p \in Plugins \ {x} : Fresh(rows, p) /\ x \notin Deps[p] => Fresh(new, p)
  BY StoredFacts
<1> HIDE DEF new
<1>2. SUFFICES ASSUME \A p \in done \cup {x} : after[p] # "failed"
               PROVE  \A p \in done \cup {x} : Fresh(new, p)
  BY DEF FreshOK, new
<1>3. \A p \in done : results[p] # "failed"
  BY <1>2 DEF Adds
<1>4. \A p \in done : Fresh(rows, p) /\ Deps[p] \subseteq done
  BY <1>3 DEF FreshOK
<1>5. \A p \in done : Fresh(new, p)
  BY <1>1, <1>4
<1>6. ASSUME NEW d \in Deps[x] PROVE new[d].kind # "none" /\ new[x].date >= new[d].date
  <2>1. d \in done /\ d \in Plugins /\ d # x
    OBVIOUS
  <2>2. new[d] = rows[d] /\ rows[d].date \in Nat /\ rows[d].date < date
    BY <2>1, <1>1 DEF Rows, Record
  <2> QED BY <2>1, <2>2, <1>1, <1>3
<1>7. Fresh(new, x)
  BY <1>1, <1>6 DEF Fresh
<1> QED BY <1>5, <1>7

-----------------------------------------------------------------------------
(* The inductive invariant of the jobs.                                    *)

\* the analyses of a job: to do, with the plugin, and done; and the rows of its file
Todo(j) == Elements(job[j].scheduled)
Flight(j) == IF job[j].place \in {"in_queue", "out_queue"} THEN {job[j].plugin} ELSE {}
Done(j) == Plan(j) \ (Todo(j) \cup Flight(j))
RowsOf(j) == db[Uid[j]]

\* a job that runs or has run along a list of schedule_analysis_tasks
Planned(j) == Entry[j] # "update" /\ job[j].place # "new"

\* what the place of a job says of the rest of it
PlaceInv(j) ==
    /\ job[j].place # "new" => j \in requests
    /\ job[j].place = "new" => \A p \in Plugins : job[j].processed[p] = "none"
    /\ job[j].place = "updating" => Entry[j] = "update"
    /\ job[j].exception = 1 => job[j].place = "out_queue"
    /\ job[j].place = "out_queue" /\ job[j].exception = 0 =>
          job[j].processed[job[j].plugin] = "ok"

\* the list can be worked through from its end
ListInv(j) ==
    /\ job[j].place = "process_queue" => job[j].scheduled # <<>>
    /\ job[j].place = "completed" => job[j].scheduled = <<>>
    /\ OnceEach(job[j].scheduled)
    /\ Entry[j] # "update" => DependenciesBehind(job[j].scheduled)

PlanInv(j) == Planned(j) => PlanOK(Plan(j), Todo(j), Flight(j), job[j].processed, RowsOf(j))

FreshInv(j) == Planned(j) /\ Alone(j) => FreshOK(Done(j), job[j].processed, RowsOf(j))

\* the file object and the rows agree on what was skipped, if no other job writes them
SkipInv(j) ==
    Alone(j) /\ job[j].place # "new" =>
        /\ SkipOK(job[j].processed, RowsOf(j))
        /\ Entry[j] = "update" =>
              \A p \in Plugins : job[j].processed[p] = "none" => RowsOf(j)[p].kind = "none"

\* a result that is to be stored is later than the rows that are there
DateInv(j) ==
    /\ \A p \in Plugins : RowsOf(j)[p].date < clock[Uid[j]]
    /\ job[j].place = "out_queue" /\ job[j].exception = 0 =>
          /\ job[j].date < clock[Uid[j]]
          /\ Alone(j) => \A p \in Plugins : RowsOf(j)[p].date < job[j].date

JobInv(j) ==
    PlaceInv(j) /\ ListInv(j) /\ PlanInv(j) /\ FreshInv(j) /\ SkipInv(j) /\ DateInv(j)

IInv == TypeOK /\ \A j \in Jobs : JobInv(j)

Places ==
    {"new", "updating", "process_queue", "in_queue", "out_queue", "completed", "dropped", "lost"}

\* The types, job by job.
LEMMA TypeFacts ==
    ASSUME TypeOK, NEW j \in Jobs
    PROVE  /\ job[j].place \in Places
           /\ job[j].scheduled \in Seq(Plugins)
           /\ job[j].plugin \in Plugins
           /\ job[j].processed \in Results
           /\ job[j].exception \in {0, 1}
           /\ job[j].date \in Nat
           /\ Uid[j] \in Uids
           /\ RowsOf(j) \in Rows
           /\ clock[Uid[j]] \in Nat
<1>1. Uid[j] \in Uids
  BY SchedulerConstants
<1> QED BY <1>1 DEF TypeOK, Places, Results, RowsOf, Rows

\* The rows of a file are looked up and written as Fresh, Revised and Stored say.
LEMMA RowFacts ==
    /\ \A j \in Jobs, p \in Plugins : UpToDate(Uid[j], p) <=> Fresh(RowsOf(j), p)
    /\ \A j \in Jobs : SkipsAreRevised(Uid[j]) <=> Revised(RowsOf(j))
<1>1. \A j \in Jobs, p \in Plugins : UpToDate(Uid[j], p) <=> Fresh(RowsOf(j), p)
  BY DEF UpToDate, Fresh, RowsOf
<1>2. ASSUME NEW j \in Jobs PROVE SkipsAreRevised(Uid[j]) <=> Revised(RowsOf(j))
  BY <1>1, DepsType DEF SkipsAreRevised, Revised, RowsOf
<1> QED BY <1>1, <1>2

\* add_analysis writes one row of one file.
LEMMA StoreFacts ==
    ASSUME TypeOK, NEW j \in Jobs, NEW p \in Plugins, NEW kind \in Kinds, NEW date \in Nat,
           Store(Uid[j], p, kind, date)
    PROVE  /\ db' \in [Uids -> Rows]
           /\ RowsOf(j)' = Stored(RowsOf(j), p, kind, date)
           /\ \A uid \in Uids \ {Uid[j]} : db'[uid] = db[uid]
<1>1. Uid[j] \in Uids /\ db \in [Uids -> Rows]
  BY SchedulerConstants DEF TypeOK, Rows
<1>2. db' = [db EXCEPT ![Uid[j]][p] = [kind |-> kind, date |-> date, current |-> 1]]
  BY DEF Store
<1>3. db' = [db EXCEPT ![Uid[j]] = Stored(db[Uid[j]], p, kind, date)]
  BY <1>1, <1>2 DEF Stored
<1>4. Stored(db[Uid[j]], p, kind, date) \in Rows
  BY <1>1 DEF Stored, Rows, Record
<1> QED BY <1>1, <1>3, <1>4 DEF RowsOf

\* Time goes on, for the file of the result.
LEMMA TickFacts ==
    ASSUME TypeOK, NEW j \in Jobs, Tick(Uid[j])
    PROVE  /\ clock' \in [Uids -> Nat]
           /\ clock'[Uid[j]] = clock[Uid[j]] + 1
           /\ \A uid \in Uids : clock[uid] <= clock'[uid]
<1>1. Uid[j] \in Uids /\ clock \in [Uids -> Nat]
  BY SchedulerConstants DEF TypeOK
<1> QED BY <1>1 DEF Tick

\* Where a job goes.
LEMMA PlaceFacts ==
    ASSUME NEW j \in Jobs, NEW list
    PROVE  /\ Place(j, list) \in {"completed", "process_queue", "dropped"}
           /\ Place(j, list) = "process_queue" => list # <<>>
           /\ Place(j, list) = "completed" => list = <<>>
BY DEF Place

\* An entry of the database in a file object says what the row says.
LEMMA LoadedFacts ==
    ASSUME NEW row \in Record
    PROVE  /\ Loaded(row) \in Kinds \cup {"old"}
           /\ Loaded(row) \in Skipped => row.kind = Loaded(row)
           /\ Loaded(row) = "none" <=> row.kind = "none"
BY DEF Loaded, Record, Kinds, Skipped

JobRecord ==
    [place: Places, scheduled: Seq(Plugins), plugin: Plugins, processed: Results,
     exception: {0, 1}, date: Nat]

\* what a step of job j leaves alone
StepOf(j) ==
    /\ j \in requests /\ requests' = requests
    /\ job' \in [Jobs -> JobRecord]
    /\ \A k \in Jobs \ {j} : job'[k] = job[k]
    /\ db' \in [Uids -> Rows]
    /\ \A uid \in Uids \ {Uid[j]} : db'[uid] = db[uid]
    /\ Grows(RowsOf(j), RowsOf(j)')
    /\ clock' \in [Uids -> Nat]
    /\ \A uid \in Uids : clock[uid] <= clock'[uid]

\* The types of what a step of a job changes.
LEMMA TypeOKJobs ==
    TypeOK => /\ job \in [Jobs -> JobRecord]
              /\ db \in [Uids -> Rows]
              /\ clock \in [Uids -> Nat]
BY DEF TypeOK, JobRecord, Places, Results, Rows

\* A step of one job keeps the invariant of the others.  One that is about the same
\* file is not alone on it: all it needs is that rows stay there.
LEMMA OthersKeep ==
    ASSUME IInv, NEW j \in Jobs, StepOf(j), DateInv(j)', NEW k \in Jobs \ {j}
    PROVE  JobInv(k)'
<1>1. /\ requests' = requests /\ j \in requests
      /\ job'[k] = job[k]
  BY DEF StepOf
<1>2. /\ Uid[k] \in Uids /\ RowsOf(k) \in Rows
      /\ clock[Uid[k]] \in Nat /\ clock'[Uid[k]] \in Nat /\ clock[Uid[k]] <= clock'[Uid[k]]
      /\ job[k].date \in Nat
  BY TypeFacts DEF IInv, StepOf
<1>3. JobInv(k)
  BY DEF IInv
<1>4. PlaceInv(k)'
  BY <1>1, <1>3 DEF JobInv, PlaceInv
<1>5. ListInv(k)'
  BY <1>1, <1>3 DEF JobInv, ListInv
<1>6. /\ Todo(k)' = Todo(k) /\ Flight(k)' = Flight(k) /\ Done(k)' = Done(k)
      /\ Planned(k)' <=> Planned(k)
      /\ Alone(k)' <=> Alone(k)
  BY <1>1 DEF Todo, Flight, Done, Planned, Alone
<1>7. CASE Uid[k] = Uid[j]
  <2>1. ~Alone(k)
    BY <1>1, <1>7 DEF Alone
  <2>2. Grows(RowsOf(k), RowsOf(k)')
    BY <1>7 DEF StepOf, RowsOf
  <2>3. PlanInv(k)'
    <3>1. SUFFICES ASSUME Planned(k)
                   PROVE  PlanOK(Plan(k), Todo(k), Flight(k), job[k].processed, RowsOf(k)')
      BY <1>1, <1>6 DEF PlanInv
    <3>2. PlanOK(Plan(k), Todo(k), Flight(k), job[k].processed, RowsOf(k)) /\ Plan(k) \subseteq Plugins
      BY <3>1, <1>3, PlanFacts DEF JobInv, PlanInv
    <3> QED BY <3>2, <2>2 DEF PlanOK, Grows
  <2>4. DateInv(k)'
    <3>1. \A p \in Plugins : RowsOf(k)'[p].date < clock'[Uid[k]]
      BY <1>7 DEF DateInv, RowsOf
    <3>2. job[k].place = "out_queue" /\ job[k].exception = 0 => job[k].date < clock'[Uid[k]]
      BY <1>2, <1>3 DEF JobInv, DateInv
    <3> QED BY <1>1, <1>6, <2>1, <3>1, <3>2 DEF DateInv
  <2>5. FreshInv(k)' /\ SkipInv(k)'
    BY <2>1, <1>6 DEF FreshInv, SkipInv
  <2> QED BY <1>4, <1>5, <2>3, <2>4, <2>5 DEF JobInv
<1>8. CASE Uid[k] # Uid[j]
  <2>1. RowsOf(k)' = RowsOf(k)
    BY <1>2, <1>8 DEF StepOf, RowsOf
  <2>2. PlanInv(k)' /\ FreshInv(k)' /\ SkipInv(k)'
    BY <2>1, <1>1, <1>3, <1>6 DEF JobInv, PlanInv, FreshInv, SkipInv
  <2>3. DateInv(k)'
    <3>1. \A p \in Plugins : RowsOf(k)[p].date < clock'[Uid[k]]
      <4>1. \A p \in Plugins : RowsOf(k)[p].date \in Nat
        BY <1>2 DEF Rows, Record
      <4> QED BY <4>1, <1>2, <1>3 DEF JobInv, DateInv
    <3>2. job[k].place = "out_queue" /\ job[k].exception = 0 => job[k].date < clock'[Uid[k]]
      BY <1>2, <1>3 DEF JobInv, DateInv
    <3> QED BY <1>1, <1>3, <1>6, <2>1, <3>1, <3>2 DEF JobInv, DateInv
  <2> QED BY <1>4, <1>5, <2>2, <2>3 DEF JobInv
<1> QED BY <1>7, <1>8

-----------------------------------------------------------------------------
(* The task runners.                                                       *)

\* A job in process_queue, before a runner takes its next analysis.
LEMMA RunnerFacts ==
    ASSUME IInv, NEW j \in Jobs, job[j].place = "process_queue"
    PROVE  /\ j \in requests /\ Flight(j) = {}
           /\ NextPlugin(j) \in Plugins /\ NextPlugin(j) \in Todo(j)
           /\ Rest(j) \in Seq(Plugins) /\ OnceEach(Rest(j))
           /\ Elements(Rest(j)) = Todo(j) \ {NextPlugin(j)}
           /\ Entry[j] # "update" =>
                 /\ DependenciesBehind(Rest(j)) /\ Deps[NextPlugin(j)] \cap Todo(j) = {}
                 /\ PlanOK(Plan(j), Todo(j), {}, job[j].processed, RowsOf(j))
<1>1. JobInv(j)
  BY DEF IInv
<1>2. job[j].scheduled \in Seq(Plugins) /\ job[j].scheduled # <<>> /\ OnceEach(job[j].scheduled)
  BY <1>1, TypeFacts DEF IInv, JobInv, ListInv
<1>3. j \in requests /\ Flight(j) = {}
  BY <1>1 DEF JobInv, PlaceInv, Flight
<1>4. Entry[j] # "update" =>
         /\ DependenciesBehind(job[j].scheduled)
         /\ PlanOK(Plan(j), Todo(j), {}, job[j].processed, RowsOf(j))
  BY <1>1, <1>3 DEF JobInv, ListInv, PlanInv, Planned
<1>5. /\ NextPlugin(j) \in Plugins /\ NextPlugin(j) \in Todo(j)
      /\ Rest(j) \in Seq(Plugins) /\ OnceEach(Rest(j))
      /\ Elements(Rest(j)) = Todo(j) \ {NextPlugin(j)}
      /\ DependenciesBehind(job[j].scheduled) =>
            DependenciesBehind(Rest(j)) /\ Deps[NextPlugin(j)] \cap Todo(j) = {}
  BY <1>2, RestFacts DEF NextPlugin, Rest, Todo
<1> QED BY <1>3, <1>4, <1>5

\* _get_file_type_from_object_or_db only adds a result, the one of the row.
LEMMA WithTypeFacts ==
    ASSUME TypeOK, NEW j \in Jobs, NEW p \in Plugins
    PROVE  /\ WithType(j, p) \in Results
           /\ \A q \in Plugins : job[j].processed[q] # "none" => WithType(j, p)[q] = job[j].processed[q]
           /\ \A q \in Plugins : WithType(j, p)[q] = job[j].processed[q]
                                 \/ WithType(j, p)[q] = Loaded(RowsOf(j)[q])
<1>1. job[j].processed \in Results /\ RowsOf(j) \in Rows /\ FileType \in Plugins
  BY TypeFacts, PluginsAssumption
<1>2. RowsOf(j)[FileType] \in Record
  BY <1>1 DEF Rows
<1>3. Loaded(RowsOf(j)[FileType]) \in Kinds \cup {"old"}
  BY <1>2, LoadedFacts
<1> QED BY <1>1, <1>3 DEF WithType, Results, RowsOf

\* A result that is taken over from the rows keeps the file object in line with them.
LEMMA LoadedSkipOK ==
    ASSUME NEW results, NEW after, NEW rows \in Rows, SkipOK(results, rows),
           \A q \in Plugins : after[q] = results[q] \/ after[q] = Loaded(rows[q])
    PROVE  SkipOK(after, rows)
<1>1. SUFFICES ASSUME NEW d \in Plugins, after[d] \in Skipped
               PROVE  rows[d].kind # "ok" \/ ~Fresh(rows, d)
  BY DEF SkipOK
<1>2. rows[d] \in Record
  BY DEF Rows
<1>3. CASE after[d] = results[d]
  BY <1>1, <1>3 DEF SkipOK
<1>4. CASE after[d] = Loaded(rows[d])
  BY <1>1, <1>2, <1>4, LoadedFacts DEF Skipped
<1> QED BY <1>3, <1>4

\* The change of a job that goes on with another list.
LEMMA JobUpdate ==
    ASSUME NEW j \in Jobs, job \in [Jobs -> JobRecord], NEW list \in Seq(Plugins),
           NEW place \in Places, NEW results \in Results,
           job' = [job EXCEPT ![j] = [job[j] EXCEPT !.scheduled = list, !.place = place,
                                                    !.processed = results]]
    PROVE  /\ job'[j].place = place /\ job'[j].scheduled = list
           /\ job'[j].processed = results /\ job'[j].exception = job[j].exception
           /\ \A k \in Jobs \ {j} : job'[k] = job[k]
           /\ job' \in [Jobs -> JobRecord]
<1>1. job[j] \in JobRecord
  OBVIOUS
<1>2. [job[j] EXCEPT !.scheduled = list, !.place = place, !.processed = results] \in JobRecord
  BY <1>1 DEF JobRecord
<1> QED BY <1>1, <1>2 DEF JobRecord

\* Skipping an analysis, for whatever reason but its being up to date: the reason is
\* stored as its result.
LEMMA SkipKeeps ==
    ASSUME IInv, NEW j \in Jobs, TaskRunner(j),
           NEW kind \in {"blacklisted", "missing", "invalid"}, Skip(j, kind)
    PROVE  StepOf(j) /\ JobInv(j)'
<1> DEFINE x == NextPlugin(j)
           now == clock[Uid[j]]
           after == [WithType(j, x) EXCEPT ![x] = kind]
<1>1. TypeOK /\ JobInv(j) /\ job[j].place = "process_queue" /\ requests' = requests
  BY DEF IInv, TaskRunner
<1>2. /\ j \in requests /\ Flight(j) = {}
      /\ x \in Plugins /\ x \in Todo(j)
      /\ Rest(j) \in Seq(Plugins) /\ OnceEach(Rest(j))
      /\ Elements(Rest(j)) = Todo(j) \ {x}
      /\ Entry[j] # "update" =>
            /\ DependenciesBehind(Rest(j)) /\ Deps[x] \cap Todo(j) = {}
            /\ PlanOK(Plan(j), Todo(j), {}, job[j].processed, RowsOf(j))
  BY <1>1, RunnerFacts
<1>3. /\ RowsOf(j) \in Rows /\ now \in Nat /\ kind \in Kinds \ {"none", "failed"}
      /\ job \in [Jobs -> JobRecord] /\ job[j].processed \in Results
      /\ \A p \in Plugins : RowsOf(j)[p].date < now
  BY <1>1, TypeFacts, TypeOKJobs DEF JobInv, DateInv, Kinds
<1>4. /\ after \in Results /\ after[x] = kind
      /\ \A p \in Plugins \ {x} : after[p] = job[j].processed[p] \/ after[p] = Loaded(RowsOf(j)[p])
      /\ Adds(job[j].processed, after, x)
  BY <1>1, <1>2, <1>3, WithTypeFacts DEF Results, Adds
<1>5. Place(j, Rest(j)) \in Places
  BY PlaceFacts DEF Places
<1> HIDE DEF x, after
<1>6. job' = [job EXCEPT ![j].scheduled = Rest(j), ![j].place = Place(j, Rest(j)),
                         ![j].processed = after]
  BY DEF Skip, x, after
<1>7. /\ job'[j].place = Place(j, Rest(j)) /\ job'[j].scheduled = Rest(j)
      /\ job'[j].processed = after /\ job'[j].exception = job[j].exception
      /\ \A k \in Jobs \ {j} : job'[k] = job[k]
      /\ job' \in [Jobs -> JobRecord]
  <2>1. job' = [job EXCEPT ![j] = [job[j] EXCEPT !.scheduled = Rest(j), !.place = Place(j, Rest(j)),
                                                 !.processed = after]]
    BY <1>3, <1>6
  <2> QED BY <2>1, <1>2, <1>3, <1>4, <1>5, JobUpdate
<1>8. /\ db' \in [Uids -> Rows]
      /\ RowsOf(j)' = Stored(RowsOf(j), x, kind, now)
      /\ \A uid \in Uids \ {Uid[j]} : db'[uid] = db[uid]
  BY <1>1, <1>2, <1>3, StoreFacts DEF Skip, x
<1>9. /\ clock' \in [Uids -> Nat]
      /\ clock'[Uid[j]] = now + 1
      /\ \A uid \in Uids : clock[uid] <= clock'[uid]
  BY <1>1, TickFacts DEF Skip
<1>10. /\ RowsOf(j)'[x].kind = kind /\ RowsOf(j)'[x].date = now
       /\ \A p \in Plugins \ {x} : RowsOf(j)'[p] = RowsOf(j)[p]
       /\ Grows(RowsOf(j), RowsOf(j)')
  BY <1>2, <1>3, <1>8, StoredFacts DEF Grows
<1>11. StepOf(j)
  BY <1>1, <1>2, <1>7, <1>8, <1>9, <1>10 DEF StepOf
<1>12. /\ Place(j, Rest(j)) \in {"completed", "process_queue", "dropped"}
       /\ Place(j, Rest(j)) = "process_queue" => Rest(j) # <<>>
       /\ Place(j, Rest(j)) = "completed" => Rest(j) = <<>>
       /\ Todo(j)' = Todo(j) \ {x} /\ Flight(j)' = {}
       /\ Alone(j)' <=> Alone(j)
  BY <1>1, <1>2, <1>7, PlaceFacts DEF Todo, Flight, Alone
<1>13. PlaceInv(j)'
  BY <1>1, <1>2, <1>7, <1>12 DEF PlaceInv, JobInv
<1>14. ListInv(j)'
  BY <1>2, <1>7, <1>12 DEF ListInv
<1>15. PlanInv(j)' /\ FreshInv(j)'
  <2>1. SUFFICES ASSUME Entry[j] # "update"
                 PROVE  PlanInv(j)' /\ FreshInv(j)'
    BY DEF PlanInv, FreshInv, Planned
  <2>2. /\ Plan(j) \subseteq Plugins /\ Closed(Plan(j))
        /\ PlanOK(Plan(j), Todo(j), {}, job[j].processed, RowsOf(j))
        /\ Deps[x] \cap Todo(j) = {}
    BY <2>1, <1>2, PlanFacts
  <2>3. after[x] # "none" /\ RowsOf(j)'[x].kind # "none"
    BY <1>4, <1>10
  <2>4. PlanOK(Plan(j), Todo(j) \ {x}, {}, after, RowsOf(j)')
    BY <2>2, <2>3, <1>2, <1>4, <1>10, SkippedPlanOK
  <2>5. PlanInv(j)'
    BY <2>4, <1>7, <1>12 DEF PlanInv
  <2>6. ASSUME Alone(j) PROVE FreshOK(Done(j)', after, RowsOf(j)')
    <3> DEFINE done == Plan(j) \ Todo(j)
    <3>1. FreshOK(done, job[j].processed, RowsOf(j))
      BY <2>1, <2>6, <1>1, <1>2 DEF JobInv, FreshInv, Planned, Done
    <3>2. Done(j)' = done \cup {x} /\ x \notin done /\ done \in SUBSET Plugins
      BY <2>2, <1>2, <1>12 DEF Done, PlanOK
    <3>3. Deps[x] \subseteq done
      BY <2>2, <1>2, LastIsReady
    <3>4. /\ \A p \in done : job[j].processed[p] = "failed" \/ Deps[p] \subseteq done
          /\ \A p \in done : job[j].processed[p] = "failed" \/ RowsOf(j)[p].kind # "none"
      BY <2>2 DEF PlanOK
    <3> HIDE DEF done
    <3>5. FreshOK(done \cup {x}, after, Stored(RowsOf(j), x, kind, now))
      BY <3>1, <3>2, <3>3, <3>4, <1>2, <1>3, <1>4, StoredFreshOK
    <3> QED BY <3>2, <3>5, <1>8
  <2> QED BY <2>5, <2>6, <1>7, <1>12 DEF FreshInv
<1>16. SkipInv(j)'
  <2>1. SUFFICES ASSUME Alone(j)
                 PROVE  /\ SkipOK(after, RowsOf(j)')
                        /\ Entry[j] = "update" =>
                              \A p \in Plugins : after[p] = "none" => RowsOf(j)'[p].kind = "none"
    BY <1>7, <1>12 DEF SkipInv
  <2>2. /\ SkipOK(job[j].processed, RowsOf(j))
        /\ Entry[j] = "update" =>
              \A p \in Plugins : job[j].processed[p] = "none" => RowsOf(j)[p].kind = "none"
    BY <2>1, <1>1 DEF JobInv, SkipInv
  <2>3. /\ WithType(j, x) \in Results
        /\ \A q \in Plugins : WithType(j, x)[q] = job[j].processed[q]
                              \/ WithType(j, x)[q] = Loaded(RowsOf(j)[q])
    BY <1>1, <1>2, WithTypeFacts
  <2>4. SkipOK(WithType(j, x), RowsOf(j))
    BY <2>2, <2>3, <1>3, LoadedSkipOK
  <2>5. \A p \in Plugins \ {x} : after[p] = WithType(j, x)[p]
    BY <2>3 DEF after, Results
  <2>6. SkipOK(after, RowsOf(j)')
    <3>1. SkipOK(after, Stored(RowsOf(j), x, kind, now))
      BY <2>4, <2>5, <1>2, <1>3, <1>4, StoredSkipOK
    <3> QED BY <3>1, <1>8
  <2>7. ASSUME Entry[j] = "update", NEW p \in Plugins, after[p] = "none"
        PROVE  RowsOf(j)'[p].kind = "none"
    <3>1. p # x
      BY <2>7, <1>4
    <3>2. RowsOf(j)[p] \in Record
      BY <1>3 DEF Rows
    <3>3. RowsOf(j)[p].kind = "none"
      BY <3>1, <3>2, <2>2, <2>7, <1>4, LoadedFacts
    <3> QED BY <3>1, <3>3, <1>10
  <2> QED BY <2>6, <2>7
<1>17. DateInv(j)'
  <2>1. ASSUME NEW p \in Plugins PROVE RowsOf(j)'[p].date < now + 1
    <3>1. RowsOf(j)[p].date \in Nat
      BY <1>3 DEF Rows, Record
    <3> QED BY <3>1, <1>3, <1>10
  <2> QED BY <2>1, <1>7, <1>9, <1>12 DEF DateInv
<1> QED BY <1>11, <1>13, <1>14, <1>15, <1>16, <1>17 DEF JobInv

\* Skipping an analysis that is up to date: its result is looked up if it is still needed.
LEMMA SkipCompletedKeeps ==
    ASSUME IInv, NEW j \in Jobs, SkipCompleted(j)
    PROVE  StepOf(j) /\ JobInv(j)' /\ UNCHANGED <<db, clock>>
<1> DEFINE x == NextPlugin(j)
           after == CompletedLoaded(j, x)
<1>1. /\ TypeOK /\ JobInv(j) /\ job[j].place = "process_queue"
      /\ requests' = requests /\ db' = db /\ clock' = clock
      /\ job' = [job EXCEPT ![j].scheduled = Rest(j), ![j].place = Place(j, Rest(j)),
                            ![j].processed = after]
      /\ ~NotUpToDate(j, x)
  BY DEF IInv, TaskRunner, SkipCompleted
<1>2. /\ j \in requests /\ Flight(j) = {}
      /\ x \in Plugins /\ x \in Todo(j)
      /\ Rest(j) \in Seq(Plugins) /\ OnceEach(Rest(j))
      /\ Elements(Rest(j)) = Todo(j) \ {x}
      /\ Entry[j] # "update" =>
            /\ DependenciesBehind(Rest(j)) /\ Deps[x] \cap Todo(j) = {}
            /\ PlanOK(Plan(j), Todo(j), {}, job[j].processed, RowsOf(j))
  BY <1>1, RunnerFacts
<1>3. /\ RowsOf(j) \in Rows
      /\ job \in [Jobs -> JobRecord] /\ job[j].processed \in Results
      /\ RowsOf(j)' = RowsOf(j)
      /\ db \in [Uids -> Rows] /\ clock \in [Uids -> Nat]
  BY <1>1, TypeFacts, TypeOKJobs DEF RowsOf
<1>4. Fresh(RowsOf(j), x)
  BY <1>1, <1>2, RowFacts DEF NotUpToDate
<1>5. Loaded(RowsOf(j)[x]) \in Kinds \cup {"old"} /\ Loaded(RowsOf(j)[x]) # "none"
  <2>1. RowsOf(j)[x] \in Record /\ RowsOf(j)[x].kind # "none"
    BY <1>2, <1>3, <1>4 DEF Rows, Fresh
  <2> QED BY <2>1, LoadedFacts
<1>6. /\ after \in Results
      /\ \A p \in Plugins \ {x} : after[p] = job[j].processed[p]
      /\ after[x] = job[j].processed[x] \/ after[x] = Loaded(RowsOf(j)[x])
      /\ after[x] # "none" \/ \A p \in Todo(j) \ {x} : x \notin Deps[p]
  BY <1>2, <1>3, <1>5 DEF CompletedLoaded, Results, RowsOf
<1>7. Place(j, Rest(j)) \in Places
  BY PlaceFacts DEF Places
<1> HIDE DEF x, after
<1>8. /\ job'[j].place = Place(j, Rest(j)) /\ job'[j].scheduled = Rest(j)
      /\ job'[j].processed = after /\ job'[j].exception = job[j].exception
      /\ \A k \in Jobs \ {j} : job'[k] = job[k]
      /\ job' \in [Jobs -> JobRecord]
  <2>1. job' = [job EXCEPT ![j] = [job[j] EXCEPT !.scheduled = Rest(j), !.place = Place(j, Rest(j)),
                                                 !.processed = after]]
    BY <1>1, <1>3
  <2> QED BY <2>1, <1>2, <1>3, <1>6, <1>7, JobUpdate
<1>9. Adds(job[j].processed, after, x) /\ Grows(RowsOf(j), RowsOf(j))
  BY <1>6 DEF Adds, Grows
<1>10. StepOf(j)
  BY <1>1, <1>2, <1>3, <1>8, <1>9 DEF StepOf
<1>11. /\ Place(j, Rest(j)) \in {"completed", "process_queue", "dropped"}
       /\ Place(j, Rest(j)) = "process_queue" => Rest(j) # <<>>
       /\ Place(j, Rest(j)) = "completed" => Rest(j) = <<>>
       /\ Todo(j)' = Todo(j) \ {x} /\ Flight(j)' = {}
       /\ Alone(j)' <=> Alone(j)
  BY <1>1, <1>2, <1>8, PlaceFacts DEF Todo, Flight, Alone
<1>12. PlaceInv(j)'
  BY <1>1, <1>2, <1>8, <1>11 DEF PlaceInv, JobInv
<1>13. ListInv(j)'
  BY <1>2, <1>8, <1>11 DEF ListInv
<1>14. PlanInv(j)' /\ FreshInv(j)'
  <2>1. SUFFICES ASSUME Entry[j] # "update"
                 PROVE  PlanInv(j)' /\ FreshInv(j)'
    BY DEF PlanInv, FreshInv, Planned
  <2>2. /\ Plan(j) \subseteq Plugins /\ Closed(Plan(j))
        /\ PlanOK(Plan(j), Todo(j), {}, job[j].processed, RowsOf(j))
        /\ Deps[x] \cap Todo(j) = {}
    BY <2>1, <1>2, PlanFacts
  <2>3. RowsOf(j)[x].kind # "none"
    BY <1>4 DEF Fresh
  <2>4. PlanOK(Plan(j), Todo(j) \ {x}, {}, after, RowsOf(j))
    BY <2>2, <2>3, <1>2, <1>6, <1>9, SkippedPlanOK
  <2>5. PlanInv(j)'
    BY <2>4, <1>3, <1>8, <1>11 DEF PlanInv
  <2>6. ASSUME Alone(j) PROVE FreshOK(Done(j)', after, RowsOf(j))
    <3>1. FreshOK(Plan(j) \ Todo(j), job[j].processed, RowsOf(j))
      BY <2>1, <2>6, <1>1, <1>2 DEF JobInv, FreshInv, Planned, Done
    <3>2. Done(j)' = (Plan(j) \ Todo(j)) \cup {x}
      BY <2>2, <1>2, <1>11 DEF Done, PlanOK
    <3>3. \A p \in Plan(j) \ Todo(j) : after[p] = job[j].processed[p]
      BY <2>2, <1>2, <1>6
    <3> QED BY <3>1, <3>2, <3>3, <1>4 DEF FreshOK
  <2> QED BY <2>5, <2>6, <1>3, <1>8, <1>11 DEF FreshInv
<1>15. SkipInv(j)'
  <2>1. SUFFICES ASSUME Alone(j)
                 PROVE  /\ SkipOK(after, RowsOf(j))
                        /\ Entry[j] = "update" =>
                              \A p \in Plugins : after[p] = "none" => RowsOf(j)[p].kind = "none"
    BY <1>3, <1>8, <1>11 DEF SkipInv
  <2>2. /\ SkipOK(job[j].processed, RowsOf(j))
        /\ Entry[j] = "update" =>
              \A p \in Plugins : job[j].processed[p] = "none" => RowsOf(j)[p].kind = "none"
    BY <2>1, <1>1 DEF JobInv, SkipInv
  <2>3. SkipOK(after, RowsOf(j))
    BY <2>2, <1>3, <1>6, LoadedSkipOK
  <2> QED BY <2>2, <2>3, <1>5, <1>6
<1>16. DateInv(j)'
  BY <1>1, <1>3, <1>8, <1>11 DEF DateInv, JobInv
<1> QED BY <1>1, <1>10, <1>12, <1>13, <1>14, <1>15, <1>16 DEF JobInv

\* A runner that dies loses the job.
LEMMA RunnerDiesKeeps ==
    ASSUME IInv, NEW j \in Jobs, RunnerDies(j)
    PROVE  StepOf(j) /\ JobInv(j)' /\ UNCHANGED <<db, clock>>
<1>1. /\ TypeOK /\ JobInv(j) /\ job[j].place = "process_queue"
      /\ requests' = requests /\ db' = db /\ clock' = clock
      /\ job' = [job EXCEPT ![j].place = "lost"]
  BY DEF IInv, TaskRunner, RunnerDies
<1>2. /\ job \in [Jobs -> JobRecord] /\ RowsOf(j)' = RowsOf(j)
      /\ db \in [Uids -> Rows] /\ clock \in [Uids -> Nat]
  BY <1>1, TypeFacts, TypeOKJobs DEF RowsOf
<1>3. /\ job'[j].place = "lost" /\ job'[j].scheduled = job[j].scheduled
      /\ job'[j].processed = job[j].processed /\ job'[j].exception = job[j].exception
      /\ \A k \in Jobs \ {j} : job'[k] = job[k]
      /\ job' \in [Jobs -> JobRecord]
  <2>1. job[j] \in JobRecord /\ "lost" \in Places
    BY <1>2 DEF Places
  <2>2. [job[j] EXCEPT !.place = "lost"] \in JobRecord
    BY <2>1 DEF JobRecord
  <2> QED BY <2>1, <2>2, <1>1, <1>2 DEF JobRecord
<1>4. j \in requests
  BY <1>1 DEF JobInv, PlaceInv
<1>5. StepOf(j)
  BY <1>1, <1>2, <1>3, <1>4 DEF StepOf, Grows
<1>6. /\ Todo(j)' = Todo(j) /\ Flight(j)' = Flight(j) /\ Done(j)' = Done(j)
      /\ Alone(j)' <=> Alone(j)
      /\ Planned(j)' <=> Planned(j)
  BY <1>1, <1>3 DEF Todo, Flight, Done, Alone, Planned
<1>7. PlaceInv(j)' /\ ListInv(j)'
  BY <1>1, <1>3, <1>4 DEF PlaceInv, ListInv, JobInv
<1>8. PlanInv(j)' /\ FreshInv(j)' /\ SkipInv(j)'
  BY <1>1, <1>2, <1>3, <1>6 DEF PlanInv, FreshInv, SkipInv, JobInv
<1>9. DateInv(j)'
  BY <1>1, <1>2, <1>3 DEF DateInv, JobInv
<1> QED BY <1>1, <1>5, <1>7, <1>8, <1>9 DEF JobInv

\* An analysis goes to its plugin.
LEMMA QueueAnalysisKeeps ==
    ASSUME IInv, NEW j \in Jobs, QueueAnalysis(j)
    PROVE  StepOf(j) /\ JobInv(j)' /\ UNCHANGED <<db, clock>>
<1> DEFINE x == NextPlugin(j)
           after == WithType(j, x)
<1>1. /\ TypeOK /\ JobInv(j) /\ job[j].place = "process_queue"
      /\ requests' = requests /\ db' = db /\ clock' = clock
      /\ job' = [job EXCEPT ![j].scheduled = Rest(j), ![j].place = "in_queue",
                            ![j].plugin = x, ![j].processed = after]
  BY DEF IInv, TaskRunner, QueueAnalysis
<1>2. /\ j \in requests /\ Flight(j) = {}
      /\ x \in Plugins /\ x \in Todo(j)
      /\ Rest(j) \in Seq(Plugins) /\ OnceEach(Rest(j))
      /\ Elements(Rest(j)) = Todo(j) \ {x}
      /\ Entry[j] # "update" =>
            /\ DependenciesBehind(Rest(j)) /\ Deps[x] \cap Todo(j) = {}
            /\ PlanOK(Plan(j), Todo(j), {}, job[j].processed, RowsOf(j))
  BY <1>1, RunnerFacts
<1>3. /\ RowsOf(j) \in Rows
      /\ job \in [Jobs -> JobRecord] /\ job[j].processed \in Results
      /\ RowsOf(j)' = RowsOf(j)
      /\ db \in [Uids -> Rows] /\ clock \in [Uids -> Nat]
  BY <1>1, TypeFacts, TypeOKJobs DEF RowsOf
<1>4. /\ after \in Results
      /\ \A p \in Plugins : after[p] = job[j].processed[p] \/ after[p] = Loaded(RowsOf(j)[p])
      /\ \A p \in Plugins : job[j].processed[p] # "none" => after[p] = job[j].processed[p]
  BY <1>1, <1>2, WithTypeFacts
<1> HIDE DEF x, after
<1>5. /\ job'[j].place = "in_queue" /\ job'[j].scheduled = Rest(j) /\ job'[j].plugin = x
      /\ job'[j].processed = after /\ job'[j].exception = job[j].exception
      /\ \A k \in Jobs \ {j} : job'[k] = job[k]
      /\ job' \in [Jobs -> JobRecord]
  <2>1. job[j] \in JobRecord /\ "in_queue" \in Places
    BY <1>3 DEF Places
  <2>2. [job[j] EXCEPT !.scheduled = Rest(j), !.place = "in_queue", !.plugin = x,
                       !.processed = after] \in JobRecord
    BY <2>1, <1>2, <1>4 DEF JobRecord
  <2>3. job' = [job EXCEPT ![j] = [job[j] EXCEPT !.scheduled = Rest(j), !.place = "in_queue",
                                                 !.plugin = x, !.processed = after]]
    BY <1>1, <1>3
  <2> QED BY <2>1, <2>2, <2>3, <1>3 DEF JobRecord
<1>6. StepOf(j)
  BY <1>1, <1>2, <1>3, <1>5 DEF StepOf, Grows
<1>7. /\ Todo(j)' = Todo(j) \ {x} /\ Flight(j)' = {x}
      /\ Alone(j)' <=> Alone(j)
  BY <1>1, <1>2, <1>5 DEF Todo, Flight, Alone
<1>8. PlaceInv(j)' /\ ListInv(j)'
  BY <1>1, <1>2, <1>5 DEF PlaceInv, ListInv, JobInv
<1>9. PlanInv(j)' /\ FreshInv(j)'
  <2>1. SUFFICES ASSUME Entry[j] # "update"
                 PROVE  PlanInv(j)' /\ FreshInv(j)'
    BY DEF PlanInv, FreshInv, Planned
  <2>2. /\ Plan(j) \subseteq Plugins /\ Closed(Plan(j))
        /\ PlanOK(Plan(j), Todo(j), {}, job[j].processed, RowsOf(j))
        /\ Deps[x] \cap Todo(j) = {}
    BY <2>1, <1>2, PlanFacts
  <2>3. Adds(job[j].processed, after, x)
    BY <1>4 DEF Adds
  <2>4. PlanOK(Plan(j), Todo(j) \ {x}, {x}, after, RowsOf(j))
    BY <2>2, <2>3, <1>2, QueuedPlanOK
  <2>5. PlanInv(j)'
    BY <2>4, <1>3, <1>5, <1>7 DEF PlanInv
  <2>6. ASSUME Alone(j) PROVE FreshOK(Done(j)', after, RowsOf(j))
    <3>1. FreshOK(Done(j), job[j].processed, RowsOf(j)) /\ Done(j) \subseteq Plugins
      BY <2>1, <2>2, <2>6, <1>1, <1>2 DEF JobInv, FreshInv, Planned, Done
    <3>2. Done(j)' = Done(j)
      BY <1>2, <1>7 DEF Done
    <3> QED BY <3>1, <3>2, <1>4 DEF FreshOK
  <2> QED BY <2>5, <2>6, <1>3, <1>5, <1>7 DEF FreshInv
<1>10. SkipInv(j)'
  <2>1. SUFFICES ASSUME Alone(j)
                 PROVE  /\ SkipOK(after, RowsOf(j))
                        /\ Entry[j] = "update" =>
                              \A p \in Plugins : after[p] = "none" => RowsOf(j)[p].kind = "none"
    BY <1>3, <1>5, <1>7 DEF SkipInv
  <2>2. /\ SkipOK(job[j].processed, RowsOf(j))
        /\ Entry[j] = "update" =>
              \A p \in Plugins : job[j].processed[p] = "none" => RowsOf(j)[p].kind = "none"
    BY <2>1, <1>1 DEF JobInv, SkipInv
  <2>3. SkipOK(after, RowsOf(j))
    BY <2>2, <1>3, <1>4, LoadedSkipOK
  <2> QED BY <2>2, <2>3, <1>4
<1>11. DateInv(j)'
  BY <1>1, <1>3, <1>5 DEF DateInv, JobInv
<1> QED BY <1>1, <1>6, <1>8, <1>9, <1>10, <1>11 DEF JobInv

-----------------------------------------------------------------------------
(* The plugins and the result collectors.                                  *)

\* A job that is with a plugin.
LEMMA FlightFacts ==
    ASSUME IInv, NEW j \in Jobs, job[j].place \in {"in_queue", "out_queue"}
    PROVE  /\ j \in requests /\ job[j].plugin \in Plugins
           /\ Flight(j) = {job[j].plugin}
           /\ job[j].scheduled \in Seq(Plugins) /\ OnceEach(job[j].scheduled)
           /\ Entry[j] # "update" =>
                 /\ DependenciesBehind(job[j].scheduled)
                 /\ PlanOK(Plan(j), Todo(j), {job[j].plugin}, job[j].processed, RowsOf(j))
<1>1. JobInv(j) /\ TypeOK
  BY DEF IInv
<1>2. job[j].scheduled \in Seq(Plugins) /\ job[j].plugin \in Plugins
  BY <1>1, TypeFacts
<1> QED BY <1>1, <1>2 DEF JobInv, PlaceInv, ListInv, PlanInv, Planned, Flight

\* The plugin is done: its result is in the file object, with a date that is later than
\* those of all rows, but not yet in the database.
LEMMA PluginSucceedsKeeps ==
    ASSUME IInv, NEW j \in Jobs, PluginSucceeds(j)
    PROVE  StepOf(j) /\ JobInv(j)' /\ db' = db
<1> DEFINE x == job[j].plugin
           after == [job[j].processed EXCEPT ![x] = "ok"]
           now == clock[Uid[j]]
<1>1. /\ TypeOK /\ JobInv(j) /\ job[j].place = "in_queue"
      /\ requests' = requests /\ db' = db
      /\ job' = [job EXCEPT ![j].place = "out_queue", ![j].date = now, ![j].processed[x] = "ok"]
  BY DEF IInv, PluginSucceeds
<1>2. /\ j \in requests /\ x \in Plugins /\ Flight(j) = {x}
      /\ Entry[j] # "update" =>
            PlanOK(Plan(j), Todo(j), {x}, job[j].processed, RowsOf(j))
  BY <1>1, FlightFacts
<1>3. /\ RowsOf(j) \in Rows /\ now \in Nat
      /\ job \in [Jobs -> JobRecord] /\ job[j].processed \in Results
      /\ RowsOf(j)' = RowsOf(j)
      /\ db \in [Uids -> Rows]
  BY <1>1, TypeFacts, TypeOKJobs DEF RowsOf
<1>4. /\ after \in Results /\ after[x] = "ok"
      /\ \A p \in Plugins \ {x} : after[p] = job[j].processed[p]
  BY <1>2, <1>3 DEF Results, Kinds
<1>5. /\ job'[j].place = "out_queue" /\ job'[j].date = now /\ job'[j].processed = after
      /\ job'[j].scheduled = job[j].scheduled /\ job'[j].plugin = x
      /\ job'[j].exception = job[j].exception
      /\ \A k \in Jobs \ {j} : job'[k] = job[k]
      /\ job' \in [Jobs -> JobRecord]
  <2>1. job[j] \in JobRecord /\ "out_queue" \in Places
    BY <1>3 DEF Places
  <2>2. job' = [job EXCEPT ![j] = [job[j] EXCEPT !.place = "out_queue", !.date = now,
                                                 !.processed = after]]
    BY <1>1, <1>3
  <2> HIDE DEF x, after, now
  <2>3. [job[j] EXCEPT !.place = "out_queue", !.date = now, !.processed = after] \in JobRecord
    BY <2>1, <1>3, <1>4 DEF JobRecord
  <2>4. /\ job'[j].place = "out_queue" /\ job'[j].date = now /\ job'[j].processed = after
        /\ job'[j].scheduled = job[j].scheduled /\ job'[j].plugin = job[j].plugin
        /\ job'[j].exception = job[j].exception
    BY <2>1, <2>2, <1>3 DEF JobRecord
  <2> QED BY <2>2, <2>3, <2>4, <1>3 DEF x
<1>6. /\ clock' \in [Uids -> Nat]
      /\ clock'[Uid[j]] = now + 1
      /\ \A uid \in Uids : clock[uid] <= clock'[uid]
  BY <1>1, TickFacts DEF PluginSucceeds
<1> HIDE DEF x, after
<1>7. StepOf(j)
  BY <1>1, <1>2, <1>3, <1>5, <1>6 DEF StepOf, Grows
<1>8. /\ Todo(j)' = Todo(j) /\ Flight(j)' = {x}
      /\ Alone(j)' <=> Alone(j)
  BY <1>1, <1>5 DEF Todo, Flight, Alone
<1>9. PlaceInv(j)' /\ ListInv(j)'
  BY <1>1, <1>2, <1>4, <1>5 DEF PlaceInv, ListInv, JobInv
<1>10. PlanInv(j)' /\ FreshInv(j)'
  <2>1. SUFFICES ASSUME Entry[j] # "update"
                 PROVE  PlanInv(j)' /\ FreshInv(j)'
    BY DEF PlanInv, FreshInv, Planned
  <2>2. /\ Plan(j) \subseteq Plugins
        /\ PlanOK(Plan(j), Todo(j), {x}, job[j].processed, RowsOf(j))
    BY <2>1, <1>2, PlanFacts
  <2>3. \A p \in Plan(j) \ (Todo(j) \cup {x}) : after[p] = job[j].processed[p]
    BY <2>2, <1>4
  <2>4. PlanOK(Plan(j), Todo(j), {x}, after, RowsOf(j))
    BY <2>2, <2>3 DEF PlanOK
  <2>5. ASSUME Alone(j) PROVE FreshOK(Done(j)', after, RowsOf(j))
    <3>1. FreshOK(Done(j), job[j].processed, RowsOf(j))
      BY <2>1, <2>5, <1>1 DEF JobInv, FreshInv, Planned
    <3>2. Done(j)' = Done(j) /\ \A p \in Done(j) : after[p] = job[j].processed[p]
      BY <2>3, <1>2, <1>8 DEF Done
    <3> QED BY <3>1, <3>2 DEF FreshOK
  <2> QED BY <2>4, <2>5, <1>3, <1>5, <1>8 DEF PlanInv, FreshInv
<1>11. SkipInv(j)'
  BY <1>1, <1>3, <1>4, <1>5, <1>8 DEF SkipInv, JobInv, SkipOK, Skipped
<1>12. DateInv(j)'
  <2>1. ASSUME NEW p \in Plugins
        PROVE  RowsOf(j)[p].date < now /\ RowsOf(j)[p].date < now + 1
    <3>1. RowsOf(j)[p].date \in Nat
      BY <1>3 DEF Rows, Record
    <3> QED BY <3>1, <1>1, <1>3 DEF JobInv, DateInv
  <2> QED BY <2>1, <1>3, <1>5, <1>6 DEF DateInv
<1> QED BY <1>1, <1>7, <1>9, <1>10, <1>11, <1>12 DEF JobInv

\* The plugin raised an exception, or timed out: only the collector acts on it.
LEMMA PluginFailsKeeps ==
    ASSUME IInv, NEW j \in Jobs, PluginFails(j)
    PROVE  StepOf(j) /\ JobInv(j)' /\ UNCHANGED <<db, clock>>
<1>1. /\ TypeOK /\ JobInv(j) /\ job[j].place = "in_queue"
      /\ requests' = requests /\ db' = db /\ clock' = clock
      /\ job' = [job EXCEPT ![j].place = "out_queue", ![j].exception = 1]
  BY DEF IInv, PluginFails
<1>2. /\ job \in [Jobs -> JobRecord] /\ RowsOf(j)' = RowsOf(j)
      /\ db \in [Uids -> Rows] /\ clock \in [Uids -> Nat]
  BY <1>1, TypeFacts, TypeOKJobs DEF RowsOf
<1>3. /\ job'[j].place = "out_queue" /\ job'[j].exception = 1
      /\ job'[j].scheduled = job[j].scheduled /\ job'[j].plugin = job[j].plugin
      /\ job'[j].processed = job[j].processed
      /\ \A k \in Jobs \ {j} : job'[k] = job[k]
      /\ job' \in [Jobs -> JobRecord]
  <2>1. job[j] \in JobRecord /\ "out_queue" \in Places
    BY <1>2 DEF Places
  <2>2. [job[j] EXCEPT !.place = "out_queue", !.exception = 1] \in JobRecord
    BY <2>1 DEF JobRecord
  <2>3. job' = [job EXCEPT ![j] = [job[j] EXCEPT !.place = "out_queue", !.exception = 1]]
    BY <1>1, <1>2
  <2>4. /\ job'[j].place = "out_queue" /\ job'[j].exception = 1
        /\ job'[j].scheduled = job[j].scheduled /\ job'[j].plugin = job[j].plugin
        /\ job'[j].processed = job[j].processed
    BY <2>1, <2>3, <1>2 DEF JobRecord
  <2> QED BY <2>2, <2>3, <2>4, <1>2
<1>4. j \in requests
  BY <1>1 DEF JobInv, PlaceInv
<1>5. StepOf(j)
  BY <1>1, <1>2, <1>3, <1>4 DEF StepOf, Grows
<1>6. /\ Todo(j)' = Todo(j) /\ Flight(j)' = Flight(j) /\ Done(j)' = Done(j)
      /\ Alone(j)' <=> Alone(j)
      /\ Planned(j)' <=> Planned(j)
  BY <1>1, <1>3 DEF Todo, Flight, Done, Alone, Planned
<1>7. PlaceInv(j)' /\ ListInv(j)'
  BY <1>1, <1>3, <1>4 DEF PlaceInv, ListInv, JobInv
<1>8. PlanInv(j)' /\ FreshInv(j)' /\ SkipInv(j)'
  BY <1>1, <1>2, <1>3, <1>6 DEF PlanInv, FreshInv, SkipInv, JobInv
<1>9. DateInv(j)'
  BY <1>1, <1>2, <1>3 DEF DateInv, JobInv
<1> QED BY <1>1, <1>5, <1>7, <1>8, <1>9 DEF JobInv

\* A result is stored with the date it was made at, which is later than those of the
\* other rows if no other job stores rows of the file meanwhile.
LEMMA CollectResultKeeps ==
    ASSUME IInv, NEW j \in Jobs, CollectResult(j)
    PROVE  StepOf(j) /\ JobInv(j)' /\ clock' = clock
<1> DEFINE x == job[j].plugin
           list == job[j].scheduled
<1>1. /\ TypeOK /\ JobInv(j) /\ job[j].place = "out_queue" /\ job[j].exception = 0
      /\ requests' = requests /\ clock' = clock
      /\ job' = [job EXCEPT ![j].place = Place(j, list)]
      /\ Store(Uid[j], x, job[j].processed[x], job[j].date)
  BY DEF IInv, CollectResult
<1>2. /\ j \in requests /\ x \in Plugins /\ Flight(j) = {x}
      /\ list \in Seq(Plugins) /\ OnceEach(list)
      /\ Entry[j] # "update" =>
            /\ DependenciesBehind(list)
            /\ PlanOK(Plan(j), Todo(j), {x}, job[j].processed, RowsOf(j))
  BY <1>1, FlightFacts
<1>3. /\ RowsOf(j) \in Rows /\ job[j].date \in Nat
      /\ job \in [Jobs -> JobRecord] /\ job[j].processed \in Results
      /\ clock \in [Uids -> Nat] /\ clock[Uid[j]] \in Nat
      /\ job[j].processed[x] = "ok" /\ "ok" \in Kinds \ {"none", "failed"}
  BY <1>1, TypeFacts, TypeOKJobs DEF JobInv, PlaceInv, Kinds
<1>4. Place(j, list) \in Places
  BY PlaceFacts DEF Places
<1>5. /\ job'[j].place = Place(j, list) /\ job'[j].scheduled = list
      /\ job'[j].processed = job[j].processed /\ job'[j].exception = 0
      /\ \A k \in Jobs \ {j} : job'[k] = job[k]
      /\ job' \in [Jobs -> JobRecord]
  <2> DEFINE place == Place(j, list)
  <2>1. job[j] \in JobRecord /\ place \in Places
    BY <1>3, <1>4
  <2> HIDE DEF place
  <2>2. [job[j] EXCEPT !.place = place] \in JobRecord
    BY <2>1 DEF JobRecord
  <2>3. job' = [job EXCEPT ![j] = [job[j] EXCEPT !.place = place]]
    BY <1>1, <1>3 DEF place
  <2>4. /\ job'[j].place = place /\ job'[j].scheduled = job[j].scheduled
        /\ job'[j].processed = job[j].processed /\ job'[j].exception = job[j].exception
    BY <2>1, <2>3, <1>3 DEF JobRecord
  <2> QED BY <2>2, <2>3, <2>4, <1>1, <1>3 DEF place
<1> HIDE DEF x, list
<1>6. /\ db' \in [Uids -> Rows]
      /\ RowsOf(j)' = Stored(RowsOf(j), x, "ok", job[j].date)
      /\ \A uid \in Uids \ {Uid[j]} : db'[uid] = db[uid]
  BY <1>1, <1>2, <1>3, StoreFacts
<1>7. /\ RowsOf(j)'[x].kind = "ok" /\ RowsOf(j)'[x].date = job[j].date
      /\ \A p \in Plugins \ {x} : RowsOf(j)'[p] = RowsOf(j)[p]
      /\ Grows(RowsOf(j), RowsOf(j)')
  BY <1>2, <1>3, <1>6 DEF Stored, Rows, Grows
<1>8. StepOf(j)
  BY <1>1, <1>2, <1>3, <1>5, <1>6, <1>7 DEF StepOf
<1>9. /\ Place(j, list) \in {"completed", "process_queue", "dropped"}
      /\ Place(j, list) = "process_queue" => list # <<>>
      /\ Place(j, list) = "completed" => list = <<>>
      /\ Todo(j)' = Todo(j) /\ Flight(j)' = {}
      /\ Alone(j)' <=> Alone(j)
  BY <1>1, <1>2, <1>5, PlaceFacts DEF Todo, Flight, Alone, list
<1>10. PlaceInv(j)' /\ ListInv(j)'
  BY <1>1, <1>2, <1>5, <1>9 DEF PlaceInv, ListInv, JobInv
<1>11. Alone(j) => \A p \in Plugins : RowsOf(j)[p].date < job[j].date
  BY <1>1 DEF JobInv, DateInv
<1>12. PlanInv(j)' /\ FreshInv(j)'
  <2>1. SUFFICES ASSUME Entry[j] # "update"
                 PROVE  PlanInv(j)' /\ FreshInv(j)'
    BY DEF PlanInv, FreshInv, Planned
  <2>2. /\ Plan(j) \in SUBSET Plugins
        /\ PlanOK(Plan(j), Todo(j), {x}, job[j].processed, RowsOf(j))
    BY <2>1, <1>2, PlanFacts
  <2>3. job[j].processed[x] # "none" /\ RowsOf(j)'[x].kind # "none"
    BY <1>3, <1>7
  <2>4. PlanOK(Plan(j), Todo(j), {}, job[j].processed, RowsOf(j)')
    BY <2>2, <2>3, <1>7, CollectedPlanOK
  <2>5. ASSUME Alone(j) PROVE FreshOK(Done(j)', job[j].processed, RowsOf(j)')
    <3>1. FreshOK(Done(j), job[j].processed, RowsOf(j))
      BY <2>1, <2>5, <1>1 DEF JobInv, FreshInv, Planned
    <3>2. /\ Done(j)' = Done(j) \cup {x} /\ x \notin Done(j) /\ Done(j) \in SUBSET Plugins
          /\ Deps[x] \subseteq Done(j)
          /\ \A p \in Done(j) : job[j].processed[p] = "failed" \/ Deps[p] \subseteq Done(j)
          /\ \A p \in Done(j) : job[j].processed[p] = "failed" \/ RowsOf(j)[p].kind # "none"
      BY <2>2, <1>2, <1>9 DEF Done, PlanOK
    <3>3. Adds(job[j].processed, job[j].processed, x)
      BY DEF Adds
    <3>4. FreshOK(Done(j) \cup {x}, job[j].processed, Stored(RowsOf(j), x, "ok", job[j].date))
      BY <3>1, <3>2, <3>3, <2>5, <1>2, <1>3, <1>11, StoredFreshOK
    <3> QED BY <3>2, <3>4, <1>6
  <2> QED BY <2>4, <2>5, <1>5, <1>9 DEF PlanInv, FreshInv
<1>13. SkipInv(j)'
  <2>1. SUFFICES ASSUME Alone(j)
                 PROVE  /\ SkipOK(job[j].processed, RowsOf(j)')
                        /\ Entry[j] = "update" => \A p \in Plugins :
                              job[j].processed[p] = "none" => RowsOf(j)'[p].kind = "none"
    BY <1>5, <1>9 DEF SkipInv
  <2>2. /\ SkipOK(job[j].processed, RowsOf(j))
        /\ Entry[j] = "update" =>
              \A p \in Plugins : job[j].processed[p] = "none" => RowsOf(j)[p].kind = "none"
    BY <2>1, <1>1 DEF JobInv, SkipInv
  <2>3. SkipOK(job[j].processed, Stored(RowsOf(j), x, "ok", job[j].date))
    BY <2>1, <2>2, <1>2, <1>3, <1>11, StoredSkipOK
  <2>4. SkipOK(job[j].processed, RowsOf(j)')
    BY <2>3, <1>6
  <2> QED BY <2>2, <2>4, <1>3, <1>7
<1>14. DateInv(j)'
  <2>1. ASSUME NEW p \in Plugins PROVE RowsOf(j)'[p].date < clock[Uid[j]]
    BY <1>1, <1>7 DEF JobInv, DateInv
  <2> QED BY <2>1, <1>1, <1>5, <1>9 DEF DateInv
<1> QED BY <1>1, <1>8, <1>10, <1>12, <1>13, <1>14 DEF JobInv

\* A failure: the dependents of the plugin are taken off the list without a row.
LEMMA CollectFailureKeeps ==
    ASSUME IInv, NEW j \in Jobs, CollectFailure(j)
    PROVE  StepOf(j) /\ JobInv(j)'
<1> DEFINE x == job[j].plugin
           gone == Dependents(j, x)
           now == clock[Uid[j]]
           after == [q \in Plugins |-> IF q = x \/ q \in gone THEN "failed"
                                       ELSE job[j].processed[q]]
<1>1. /\ TypeOK /\ JobInv(j) /\ job[j].place = "out_queue"
      /\ requests' = requests
      /\ Store(Uid[j], x, "failed", now) /\ Tick(Uid[j])
  BY DEF IInv, CollectFailure, FailureDate
<1>2. PICK list \in Without(job[j].scheduled, gone) :
         job' = [job EXCEPT ![j].place = Place(j, list), ![j].scheduled = list,
                            ![j].exception = 0, ![j].processed = after]
  BY DEF CollectFailure
<1>3. /\ j \in requests /\ x \in Plugins /\ Flight(j) = {x}
      /\ job[j].scheduled \in Seq(Plugins) /\ OnceEach(job[j].scheduled)
      /\ Entry[j] # "update" =>
            /\ DependenciesBehind(job[j].scheduled)
            /\ PlanOK(Plan(j), Todo(j), {x}, job[j].processed, RowsOf(j))
  BY <1>1, FlightFacts
<1>4. /\ RowsOf(j) \in Rows /\ now \in Nat
      /\ job \in [Jobs -> JobRecord] /\ job[j].processed \in Results
      /\ "failed" \in Kinds \ {"none"}
      /\ \A p \in Plugins : RowsOf(j)[p].date < now
  BY <1>1, TypeFacts, TypeOKJobs DEF JobInv, DateInv, Kinds
<1>5. /\ list \in Seq(Plugins) /\ OnceEach(list)
      /\ Elements(list) = Todo(j) \ gone
      /\ DependenciesBehind(job[j].scheduled) => DependenciesBehind(list)
  BY <1>3, WithoutFacts DEF Todo
<1>6. gone = {p \in Todo(j) : x \in Deps[p]}
  BY DEF Dependents, Todo
<1>7. /\ after \in Results /\ after[x] = "failed"
      /\ \A p \in Plugins \ {x} : after[p] = job[j].processed[p] \/ x \in Deps[p]
      /\ \A p \in Plugins : after[p] = job[j].processed[p] \/ after[p] = "failed"
  BY <1>3, <1>4, <1>6 DEF Results, Kinds
<1>8. /\ job'[j].place = Place(j, list) /\ job'[j].scheduled = list
      /\ job'[j].processed = after /\ job'[j].exception = 0
      /\ \A k \in Jobs \ {j} : job'[k] = job[k]
      /\ job' \in [Jobs -> JobRecord]
  <2> DEFINE place == Place(j, list)
  <2>1. job[j] \in JobRecord /\ place \in Places
    BY <1>4, PlaceFacts DEF Places
  <2> HIDE DEF place, after
  <2>2. [job[j] EXCEPT !.place = place, !.scheduled = list, !.exception = 0,
                       !.processed = after] \in JobRecord
    BY <2>1, <1>5, <1>7 DEF JobRecord
  <2>3. job' = [job EXCEPT ![j] = [job[j] EXCEPT !.place = place, !.scheduled = list,
                                                 !.exception = 0, !.processed = after]]
    BY <1>2, <1>4 DEF place
  <2>4. /\ job'[j].place = place /\ job'[j].scheduled = list
        /\ job'[j].processed = after /\ job'[j].exception = 0
    BY <2>1, <2>3, <1>4 DEF JobRecord
  <2> QED BY <2>2, <2>3, <2>4, <1>4 DEF place
<1>9. /\ db' \in [Uids -> Rows]
      /\ RowsOf(j)' = Stored(RowsOf(j), x, "failed", now)
      /\ \A uid \in Uids \ {Uid[j]} : db'[uid] = db[uid]
  BY <1>1, <1>3, <1>4, StoreFacts
<1>10. /\ clock' \in [Uids -> Nat]
       /\ clock'[Uid[j]] = now + 1
       /\ \A uid \in Uids : clock[uid] <= clock'[uid]
  BY <1>1, TickFacts
<1> HIDE DEF x, now
<1>11. /\ RowsOf(j)'[x].kind = "failed" /\ RowsOf(j)'[x].date = now
       /\ \A p \in Plugins \ {x} : RowsOf(j)'[p] = RowsOf(j)[p]
       /\ Grows(RowsOf(j), RowsOf(j)')
  BY <1>3, <1>4, <1>9, StoredFacts DEF Grows
<1>12. StepOf(j)
  BY <1>1, <1>3, <1>8, <1>9, <1>10, <1>11 DEF StepOf
<1>13. /\ Place(j, list) \in {"completed", "process_queue", "dropped"}
       /\ Place(j, list) = "process_queue" => list # <<>>
       /\ Place(j, list) = "completed" => list = <<>>
       /\ Todo(j)' = Todo(j) \ gone /\ Flight(j)' = {}
       /\ Alone(j)' <=> Alone(j)
  BY <1>1, <1>5, <1>8, PlaceFacts DEF Todo, Flight, Alone
<1>14. PlaceInv(j)' /\ ListInv(j)'
  BY <1>1, <1>3, <1>5, <1>8, <1>13 DEF PlaceInv, ListInv
<1>15. PlanInv(j)' /\ FreshInv(j)'
  <2>1. SUFFICES ASSUME Entry[j] # "update"
                 PROVE  PlanInv(j)' /\ FreshInv(j)'
    BY DEF PlanInv, FreshInv, Planned
  <2>2. /\ Plan(j) \in SUBSET Plugins
        /\ PlanOK(Plan(j), Todo(j), {x}, job[j].processed, RowsOf(j))
    BY <2>1, <1>3, PlanFacts
  <2>3. after = [q \in Plugins |-> IF q = x \/ q \in {p \in Todo(j) : x \in Deps[p]}
                                   THEN "failed" ELSE job[j].processed[q]]
    BY <1>6
  <2>4. PlanOK(Plan(j), Todo(j) \ {p \in Todo(j) : x \in Deps[p]}, {}, after, RowsOf(j)')
    <3> HIDE DEF after, gone
    <3> QED BY <2>2, <2>3, <1>11, FailedPlanOK
  <2>5. PlanInv(j)'
    BY <2>4, <1>6, <1>8, <1>13 DEF PlanInv
  <2>6. x \in Done(j)'
    BY <2>2, <1>6, <1>13 DEF Done, PlanOK
  <2>7. FreshInv(j)'
    BY <2>6, <1>7, <1>8 DEF FreshInv, FreshOK
  <2> QED BY <2>5, <2>7
<1>16. SkipInv(j)'
  <2> HIDE DEF after, gone
  <2>1. SUFFICES ASSUME Alone(j)
                 PROVE  /\ SkipOK(after, RowsOf(j)')
                        /\ Entry[j] = "update" => \A p \in Plugins :
                              after[p] = "none" => RowsOf(j)'[p].kind = "none"
    BY <1>8, <1>13 DEF SkipInv
  <2>2. /\ SkipOK(job[j].processed, RowsOf(j))
        /\ Entry[j] = "update" =>
              \A p \in Plugins : job[j].processed[p] = "none" => RowsOf(j)[p].kind = "none"
    BY <2>1, <1>1 DEF JobInv, SkipInv
  <2>3. SkipOK(after, Stored(RowsOf(j), x, "failed", now))
    BY <2>2, <1>3, <1>4, <1>7, StoredSkipOK
  <2>4. SkipOK(after, RowsOf(j)')
    BY <2>3, <1>9
  <2> QED BY <2>2, <2>4, <1>7, <1>11
<1>17. DateInv(j)'
  <2>1. ASSUME NEW p \in Plugins PROVE RowsOf(j)'[p].date < now + 1
    <3>1. RowsOf(j)[p].date \in Nat
      BY <1>4 DEF Rows, Record
    <3> QED BY <3>1, <1>4, <1>11
  <2> QED BY <2>1, <1>8, <1>10, <1>13 DEF DateInv
<1> QED BY <1>12, <1>14, <1>15, <1>16, <1>17 DEF JobInv

-----------------------------------------------------------------------------
(* The start of a job.                                                     *)

\* A job that has not started: nothing is in its file object.
LEMMA NewFacts ==
    ASSUME IInv, NEW j \in Jobs, New(j)
    PROVE  /\ j \in requests /\ job[j].place = "new" /\ job[j].exception # 1
           /\ job[j].processed \in Results /\ SkipOK(job[j].processed, RowsOf(j))
           /\ job \in [Jobs -> JobRecord] /\ db \in [Uids -> Rows] /\ clock \in [Uids -> Nat]
<1>1. TypeOK /\ JobInv(j) /\ j \in requests /\ job[j].place = "new"
  BY DEF IInv, New
<1>2. \A p \in Plugins : job[j].processed[p] = "none"
  BY <1>1 DEF JobInv, PlaceInv
<1>3. SkipOK(job[j].processed, RowsOf(j))
  BY <1>2 DEF SkipOK, Skipped
<1> QED BY <1>1, <1>3, TypeFacts, TypeOKJobs DEF JobInv, PlaceInv

\* A file object that is read from the database agrees with its rows.
LEMMA FromDbFacts ==
    ASSUME TypeOK, NEW j \in Jobs
    PROVE  /\ FromDb(j) \in Results /\ SkipOK(FromDb(j), RowsOf(j))
           /\ \A p \in Plugins : FromDb(j)[p] = "none" => RowsOf(j)[p].kind = "none"
<1>1. ASSUME NEW p \in Plugins
      PROVE  /\ FromDb(j)[p] = Loaded(RowsOf(j)[p])
             /\ RowsOf(j)[p] \in Record
  BY TypeFacts DEF FromDb, RowsOf, Rows
<1>2. FromDb(j) \in Results
  BY <1>1, LoadedFacts DEF FromDb, Results, RowsOf
<1>3. SkipOK(FromDb(j), RowsOf(j))
  <2>1. SUFFICES ASSUME NEW p \in Plugins, FromDb(j)[p] \in Skipped
                 PROVE  RowsOf(j)[p].kind # "ok"
    BY DEF SkipOK
  <2> QED BY <2>1, <1>1, LoadedFacts DEF Skipped
<1> QED BY <1>1, <1>2, <1>3, LoadedFacts

\* The list of schedule_analysis_tasks is all that is to do; nothing is done yet.
LEMMA ScheduleKeeps ==
    ASSUME IInv, NEW j \in Jobs, Entry[j] # "update", New(j),
           NEW results \in Results, SkipOK(results, RowsOf(j)), Schedule(j, results)
    PROVE  StepOf(j) /\ JobInv(j)' /\ UNCHANGED <<db, clock>>
<1>1. /\ TypeOK /\ JobInv(j) /\ requests' = requests /\ db' = db /\ clock' = clock
  BY DEF IInv, Schedule
<1>2. PICK list \in Schedules(Plan(j)) :
         job' = [job EXCEPT ![j].scheduled = list, ![j].place = Place(j, list),
                            ![j].processed = results]
  BY DEF Schedule
<1>3. /\ j \in requests /\ job[j].place = "new" /\ job[j].exception # 1
      /\ job \in [Jobs -> JobRecord] /\ db \in [Uids -> Rows] /\ clock \in [Uids -> Nat]
  BY NewFacts
<1>4. /\ list \in Seq(Plugins) /\ OnceEach(list) /\ DependenciesBehind(list)
      /\ Elements(list) = Plan(j)
  BY PlanFacts, SchedulesFacts
<1>5. /\ Place(j, list) \in {"completed", "process_queue", "dropped"}
      /\ Place(j, list) = "process_queue" => list # <<>>
      /\ Place(j, list) = "completed" => list = <<>>
  BY PlaceFacts
<1>6. /\ job'[j].place = Place(j, list) /\ job'[j].scheduled = list
      /\ job'[j].processed = results /\ job'[j].exception = job[j].exception
      /\ \A k \in Jobs \ {j} : job'[k] = job[k]
      /\ job' \in [Jobs -> JobRecord]
  <2>1. Place(j, list) \in Places
    BY <1>5 DEF Places
  <2>2. job' = [job EXCEPT ![j] = [job[j] EXCEPT !.scheduled = list, !.place = Place(j, list),
                                                 !.processed = results]]
    BY <1>2, <1>3
  <2> QED BY <2>1, <2>2, <1>3, <1>4, JobUpdate
<1>7. RowsOf(j)' = RowsOf(j) /\ (Alone(j)' <=> Alone(j))
  BY <1>1 DEF RowsOf, Alone
<1>8. StepOf(j)
  BY <1>1, <1>3, <1>6, <1>7 DEF StepOf, Grows
<1>9. Todo(j)' = Plan(j) /\ Flight(j)' = {} /\ Done(j)' = {}
  BY <1>4, <1>5, <1>6 DEF Todo, Flight, Done
<1>10. PlaceInv(j)' /\ ListInv(j)'
  BY <1>1, <1>3, <1>4, <1>5, <1>6 DEF PlaceInv, ListInv
<1>11. PlanInv(j)' /\ FreshInv(j)'
  BY <1>9 DEF PlanInv, FreshInv, PlanOK, FreshOK
<1>12. SkipInv(j)'
  BY <1>6, <1>7 DEF SkipInv
<1>13. DateInv(j)'
  BY <1>1, <1>5, <1>6, <1>7 DEF DateInv, JobInv
<1> QED BY <1>1, <1>8, <1>10, <1>11, <1>12, <1>13 DEF JobInv

\* An update first reads the firmware from the database.
LEMMA StartUpdateKeeps ==
    ASSUME IInv, NEW j \in Jobs, StartUpdate(j)
    PROVE  StepOf(j) /\ JobInv(j)' /\ UNCHANGED <<db, clock>>
<1>1. /\ TypeOK /\ JobInv(j) /\ requests' = requests /\ db' = db /\ clock' = clock
      /\ Entry[j] = "update" /\ New(j)
      /\ job' = [job EXCEPT ![j].place = "updating", ![j].processed = FromDb(j)]
  BY DEF IInv, StartUpdate
<1>2. /\ j \in requests /\ job[j].place = "new" /\ job[j].exception # 1
      /\ job \in [Jobs -> JobRecord] /\ db \in [Uids -> Rows] /\ clock \in [Uids -> Nat]
  BY <1>1, NewFacts
<1> DEFINE results == FromDb(j)
<1>3. /\ results \in Results /\ SkipOK(results, RowsOf(j))
      /\ \A p \in Plugins : results[p] = "none" => RowsOf(j)[p].kind = "none"
  BY <1>1, FromDbFacts
<1> HIDE DEF results
<1>4. /\ job'[j].place = "updating" /\ job'[j].scheduled = job[j].scheduled
      /\ job'[j].processed = results /\ job'[j].exception = job[j].exception
      /\ \A k \in Jobs \ {j} : job'[k] = job[k]
      /\ job' \in [Jobs -> JobRecord]
  <2>1. job[j] \in JobRecord /\ "updating" \in Places
    BY <1>2 DEF Places
  <2>2. [job[j] EXCEPT !.place = "updating", !.processed = results] \in JobRecord
    BY <2>1, <1>3 DEF JobRecord
  <2>3. job' = [job EXCEPT ![j] = [job[j] EXCEPT !.place = "updating", !.processed = results]]
    BY <1>1, <1>2 DEF results
  <2> QED BY <2>1, <2>2, <2>3, <1>2 DEF JobRecord
<1>5. RowsOf(j)' = RowsOf(j) /\ (Alone(j)' <=> Alone(j))
  BY <1>1 DEF RowsOf, Alone
<1>6. StepOf(j)
  BY <1>1, <1>2, <1>4, <1>5 DEF StepOf, Grows
<1>7. PlaceInv(j)' /\ ListInv(j)'
  BY <1>1, <1>2, <1>4 DEF PlaceInv, ListInv, JobInv
<1>8. PlanInv(j)' /\ FreshInv(j)'
  BY <1>1 DEF PlanInv, FreshInv, Planned
<1>9. SkipInv(j)'
  BY <1>3, <1>4, <1>5 DEF SkipInv
<1>10. DateInv(j)'
  BY <1>1, <1>4, <1>5 DEF DateInv, JobInv
<1> QED BY <1>1, <1>6, <1>7, <1>8, <1>9, <1>10 DEF JobInv

\* And then works through what was asked for, in any order.
LEMMA UpdateFirmwareKeeps ==
    ASSUME IInv, NEW j \in Jobs, UpdateFirmware(j)
    PROVE  StepOf(j) /\ JobInv(j)' /\ UNCHANGED <<db, clock>>
<1>1. /\ TypeOK /\ JobInv(j) /\ requests' = requests /\ db' = db /\ clock' = clock
      /\ Entry[j] = "update" /\ job[j].place = "updating"
  BY DEF IInv, UpdateFirmware
<1>2. PICK list \in Shuffled(Requested[j]) :
         job' = [job EXCEPT ![j].scheduled = list, ![j].place = Place(j, list)]
  BY DEF UpdateFirmware
<1>3. /\ j \in requests /\ job[j].exception # 1
      /\ job \in [Jobs -> JobRecord] /\ db \in [Uids -> Rows] /\ clock \in [Uids -> Nat]
  BY <1>1, TypeOKJobs DEF JobInv, PlaceInv
<1>4. list \in Seq(Plugins) /\ OnceEach(list)
  <2>1. Requested[j] \in SUBSET Plugins
    BY SchedulerConstants
  <2> QED BY <2>1, ShuffledFacts DEF OnceEach
<1>5. /\ Place(j, list) \in {"completed", "process_queue", "dropped"}
      /\ Place(j, list) = "process_queue" => list # <<>>
      /\ Place(j, list) = "completed" => list = <<>>
  BY PlaceFacts
<1>6. /\ job'[j].place = Place(j, list) /\ job'[j].scheduled = list
      /\ job'[j].processed = job[j].processed /\ job'[j].exception = job[j].exception
      /\ \A k \in Jobs \ {j} : job'[k] = job[k]
      /\ job' \in [Jobs -> JobRecord]
  <2> DEFINE place == Place(j, list)
  <2>1. job[j] \in JobRecord /\ place \in Places
    BY <1>3, <1>5 DEF Places
  <2> HIDE DEF place
  <2>2. [job[j] EXCEPT !.scheduled = list, !.place = place] \in JobRecord
    BY <2>1, <1>4 DEF JobRecord
  <2>3. job' = [job EXCEPT ![j] = [job[j] EXCEPT !.scheduled = list, !.place = place]]
    BY <1>2, <1>3 DEF place
  <2>4. /\ job'[j].place = place /\ job'[j].scheduled = list
        /\ job'[j].processed = job[j].processed /\ job'[j].exception = job[j].exception
    BY <2>1, <2>3, <1>3 DEF JobRecord
  <2> QED BY <2>2, <2>3, <2>4, <1>3 DEF place
<1>7. RowsOf(j)' = RowsOf(j) /\ (Alone(j)' <=> Alone(j))
  BY <1>1 DEF RowsOf, Alone
<1>8. StepOf(j)
  BY <1>1, <1>3, <1>6, <1>7 DEF StepOf, Grows
<1>9. PlaceInv(j)' /\ ListInv(j)'
  BY <1>1, <1>3, <1>4, <1>5, <1>6 DEF PlaceInv, ListInv
<1>10. PlanInv(j)' /\ FreshInv(j)'
  BY <1>1 DEF PlanInv, FreshInv, Planned
<1>11. SkipInv(j)'
  BY <1>1, <1>6, <1>7 DEF SkipInv, JobInv
<1>12. DateInv(j)'
  BY <1>1, <1>5, <1>6, <1>7 DEF DateInv, JobInv
<1> QED BY <1>1, <1>8, <1>9, <1>10, <1>11, <1>12 DEF JobInv

-----------------------------------------------------------------------------
(* The invariant holds.                                                    *)

\* Each step of a job keeps its own part of the invariant.
LEMMA JobKeeps ==
    ASSUME IInv, NEW j \in Jobs, Start(j) \/ Run(j) \/ Plugin(j) \/ Collect(j)
    PROVE  StepOf(j) /\ JobInv(j)'
<1>1. CASE Start(j)
  <2>1. CASE StartFirmware(j) \/ StartFile(j)
    <3>1. Entry[j] # "update" /\ New(j) /\ Schedule(j, job[j].processed)
      BY <2>1 DEF StartFirmware, StartFile
    <3> QED BY <3>1, NewFacts, ScheduleKeeps
  <2>2. CASE UpdateFile(j) \/ StartSingle(j)
    <3>1. Entry[j] # "update" /\ New(j) /\ Schedule(j, FromDb(j))
      BY <2>2 DEF UpdateFile, StartSingle
    <3>2. FromDb(j) \in Results /\ SkipOK(FromDb(j), RowsOf(j))
      BY FromDbFacts DEF IInv
    <3> QED BY <3>1, <3>2, ScheduleKeeps
  <2>3. CASE StartUpdate(j)
    BY <2>3, StartUpdateKeeps
  <2>4. CASE UpdateFirmware(j)
    BY <2>4, UpdateFirmwareKeeps
  <2> QED BY <1>1, <2>1, <2>2, <2>3, <2>4 DEF Start
<1>2. CASE Run(j)
  <2>1. CASE SkipCompleted(j)
    BY <2>1, SkipCompletedKeeps
  <2>2. CASE SkipBlacklisted(j) \/ SkipMissing(j) \/ SkipInvalid(j)
    <3>1. TaskRunner(j) /\ \E kind \in {"blacklisted", "missing", "invalid"} : Skip(j, kind)
      BY <2>2 DEF SkipBlacklisted, SkipMissing, SkipInvalid
    <3> QED BY <3>1, SkipKeeps
  <2>3. CASE RunnerDies(j)
    BY <2>3, RunnerDiesKeeps
  <2>4. CASE QueueAnalysis(j)
    BY <2>4, QueueAnalysisKeeps
  <2> QED BY <1>2, <2>1, <2>2, <2>3, <2>4 DEF Run
<1>3. CASE Plugin(j)
  BY <1>3, PluginSucceedsKeeps, PluginFailsKeeps DEF Plugin
<1>4. CASE Collect(j)
  BY <1>4, CollectResultKeeps, CollectFailureKeeps DEF Collect
<1> QED BY <1>1, <1>2, <1>3, <1>4

\* The types of the variables that are not about one job.
StatusTypes ==
    /\ announced \subseteq Uids /\ analyzed \subseteq Uids /\ cancelled \subseteq Uids
    /\ runners \in Nat
    /\ failures \in 0..MaxFailures

\* The steps of a job, of a runner or of the status worker keep them.
LEMMA StatusTyped ==
    ASSUME TypeOK, Next
    PROVE  StatusTypes'
<1> USE DEF StatusTypes
<1>1. StatusTypes /\ MaxFailures \in Nat
  BY SchedulerConstants DEF TypeOK
<1>2. ASSUME NEW j \in Jobs, Start(j) PROVE StatusTypes'
  <2>1. Entry[j] # "single" => Root[j] \in Uids
    BY SchedulerConstants
  <2> QED BY <2>1, <1>1, <1>2 DEF Start, StartFirmware, StartFile, StartUpdate, UpdateFile,
                                  UpdateFirmware, StartSingle, Schedule
<1>3. ASSUME NEW j \in Jobs, Run(j) PROVE StatusTypes'
  BY <1>1, <1>3 DEF Run, SkipCompleted, SkipBlacklisted, RunnerDies, SkipMissing,
                    SkipInvalid, QueueAnalysis, TaskRunner, Skip
<1>4. ASSUME NEW j \in Jobs, Plugin(j) \/ Collect(j) PROVE StatusTypes'
  <2>1. CASE PluginSucceeds(j)
    BY <2>1, <1>1 DEF PluginSucceeds
  <2>2. CASE PluginFails(j)
    BY <2>2, <1>1 DEF PluginFails
  <2>3. CASE CollectResult(j)
    BY <2>3, <1>1 DEF CollectResult
  <2>4. CASE CollectFailure(j)
    BY <2>4, <1>1 DEF CollectFailure
  <2> QED BY <2>1, <2>2, <2>3, <2>4, <1>4 DEF Plugin, Collect
<1>5. ASSUME NEW fw \in Uids, StatusAdds(fw) \/ StatusFinishes(fw) \/ StatusCancels(fw)
      PROVE  StatusTypes'
  BY <1>1, <1>5 DEF StatusAdds, StatusFinishes, StatusCancels
<1> QED BY <1>2, <1>3, <1>4, <1>5 DEF Next

\* A step that leaves jobs, rows, dates and requests alone keeps what is said of a job.
LEMMA JobUnchanged ==
    ASSUME NEW j \in Jobs, JobInv(j), UNCHANGED <<job, db, clock, requests>>
    PROVE  JobInv(j)'
<1>1. /\ Todo(j)' = Todo(j) /\ Flight(j)' = Flight(j) /\ Done(j)' = Done(j)
      /\ RowsOf(j)' = RowsOf(j)
      /\ Planned(j)' <=> Planned(j)
      /\ Alone(j)' <=> Alone(j)
  BY DEF Todo, Flight, Done, RowsOf, Planned, Alone
<1>2. PlaceInv(j)' /\ ListInv(j)'
  BY DEF JobInv, PlaceInv, ListInv
<1>3. PlanInv(j)' /\ FreshInv(j)' /\ SkipInv(j)' /\ DateInv(j)'
  BY <1>1 DEF JobInv, PlanInv, FreshInv, SkipInv, DateInv
<1> QED BY <1>2, <1>3 DEF JobInv

\* At the start no job has a result, and every row is older than the clock.
LEMMA InitIInv == Init => IInv
<1>1. SUFFICES ASSUME Init PROVE IInv
  OBVIOUS
<1>2. TypeOK
  <2>1. FileType \in Plugins /\ <<>> \in Seq(Plugins)
    BY PluginsAssumption
  <2> QED BY <2>1, <1>1, SchedulerConstants DEF Init, TypeOK, Kinds, FirstDate
<1>3. ASSUME NEW j \in Jobs PROVE JobInv(j)
  <2>1. /\ job[j].place = "new" /\ job[j].scheduled = <<>> /\ job[j].exception = 0
        /\ \A p \in Plugins : job[j].processed[p] = "none"
    BY <1>1 DEF Init
  <2>2. PlaceInv(j)
    BY <2>1 DEF PlaceInv
  <2>3. ListInv(j)
    BY <2>1 DEF ListInv, OnceEach, DependenciesBehind
  <2>4. PlanInv(j) /\ FreshInv(j) /\ SkipInv(j)
    BY <2>1 DEF PlanInv, FreshInv, SkipInv, Planned
  <2>5. DateInv(j)
    <3>1. Uid[j] \in Uids
      BY SchedulerConstants
    <3> QED BY <3>1, <2>1, <1>1, SchedulerConstants DEF Init, DateInv, RowsOf
  <2> QED BY <2>2, <2>3, <2>4, <2>5 DEF JobInv
<1> QED BY <1>2, <1>3 DEF IInv

\* Every step of the scheduler, the plugins, the collectors and the status worker keeps
\* the invariant.
LEMMA NextIInv == IInv /\ [Next]_vars => IInv'
<1>1. SUFFICES ASSUME IInv, [Next]_vars PROVE IInv'
  OBVIOUS
<1>2. ASSUME NEW j \in Jobs, Start(j) \/ Run(j) \/ Plugin(j) \/ Collect(j) PROVE IInv'
  <2>1. StepOf(j) /\ JobInv(j)'
    BY <1>1, <1>2, JobKeeps
  <2>2. \A k \in Jobs : JobInv(k)'
    BY <2>1, <1>1, OthersKeep DEF JobInv
  <2>3. StatusTypes'
    BY <1>1, <1>2, StatusTyped DEF IInv, Next
  <2>4. requests' \subseteq Jobs
    BY <2>1, <1>1 DEF IInv, TypeOK, StepOf
  <2>5. TypeOK'
    BY <2>1, <2>3, <2>4 DEF StepOf, StatusTypes, TypeOK, JobRecord, Places, Results, Rows
  <2> QED BY <2>2, <2>5 DEF IInv
<1>3. ASSUME NEW fw \in Uids, StatusAdds(fw) \/ StatusFinishes(fw) \/ StatusCancels(fw)
      PROVE  IInv'
  <2>1. UNCHANGED <<job, db, clock, requests>>
    BY <1>3 DEF StatusAdds, StatusFinishes, StatusCancels
  <2>2. \A k \in Jobs : JobInv(k)'
    BY <2>1, <1>1, JobUnchanged DEF IInv
  <2>3. StatusTypes'
    BY <1>1, <1>3, StatusTyped DEF IInv, Next
  <2>4. TypeOK'
    BY <2>1, <2>3, <1>1 DEF IInv, StatusTypes, TypeOK
  <2> QED BY <2>2, <2>4 DEF IInv
<1>4. CASE UNCHANGED vars
  <2>1. \A k \in Jobs : JobInv(k)'
    BY <1>1, <1>4, JobUnchanged DEF IInv, vars
  <2>2. TypeOK'
    BY <1>1, <1>4 DEF IInv, TypeOK, vars
  <2> QED BY <2>1, <2>2 DEF IInv
<1> QED BY <1>1, <1>2, <1>3, <1>4 DEF Next

\* So the invariant holds in every reachable state.
LEMMA IInvHolds == Spec => []IInv
BY InitIInv, NextIInv, PTL DEF Spec

-----------------------------------------------------------------------------
(* The rows are sound.                                                     *)

\* When a runner comes to an analysis, its dependencies have been dealt with.
LEMMA DependenciesDone ==
    ASSUME IInv, NEW j \in Jobs, job[j].place = "process_queue", Entry[j] # "update",
           NEW d \in Deps[NextPlugin(j)]
    PROVE  job[j].processed[d] # "none"
<1>1. /\ NextPlugin(j) \in Todo(j) /\ Deps[NextPlugin(j)] \cap Todo(j) = {}
      /\ PlanOK(Plan(j), Todo(j), {}, job[j].processed, RowsOf(j))
  BY RunnerFacts
<1>2. Closed(Plan(j))
  BY PlanFacts
<1> QED BY <1>1, <1>2 DEF PlanOK, Closed

\* What a job asked for is there, and not out of date, when it is through; and no analysis
\* was skipped before its dependencies had a result (_start_or_skip_analysis,
\* result_collector), for all plugins, files, jobs and initial rows.
THEOREM ResultsAreSoundAlways == Spec => []ResultsAreSound
<1>1. IInv => ResultsAreSound
  <2>1. SUFFICES ASSUME IInv PROVE ResultsAreSound
    OBVIOUS
  <2>2. SkippedForAReason
    BY <2>1, DependenciesDone DEF SkippedForAReason
  <2>3. ASSUME NEW j \in Jobs, job[j].place = "completed", Entry[j] # "update"
        PROVE  /\ Plan(j) \subseteq Plugins /\ Done(j) = Plan(j) /\ Planned(j)
               /\ PlanOK(Plan(j), {}, {}, job[j].processed, RowsOf(j))
    <3>1. JobInv(j) /\ job[j].scheduled = <<>>
      BY <2>1, <2>3 DEF IInv, JobInv, ListInv
    <3>2. Todo(j) = {} /\ Flight(j) = {} /\ Planned(j)
      BY <3>1, <2>3 DEF Todo, Elements, Flight, Planned
    <3> QED BY <3>1, <3>2, PlanFacts DEF Done, JobInv, PlanInv
  <2>4. CompletedHasResults
    BY <2>3 DEF CompletedHasResults, PlanOK, RowsOf
  <2>5. CompletedIsUpToDate
    <3>1. SUFFICES ASSUME NEW j \in Jobs, job[j].place = "completed", Entry[j] # "update",
                          Alone(j), \A p \in Plan(j) : job[j].processed[p] # "failed",
                          NEW p \in Plan(j)
                   PROVE  UpToDate(Uid[j], p)
      BY DEF CompletedIsUpToDate
    <3>2. FreshOK(Plan(j), job[j].processed, RowsOf(j)) /\ p \in Plugins
      BY <3>1, <2>1, <2>3 DEF IInv, JobInv, FreshInv
    <3> QED BY <3>1, <3>2, RowFacts DEF FreshOK
  <2> QED BY <2>1, <2>2, <2>4, <2>5 DEF ResultsAreSound, IInv
<1> QED BY <1>1, IInvHolds, PTL

\* An analysis that is skipped for its dependencies: one of them has no row, or one that
\* says so, or is done again at the next update.
LEMMA MissingForAReason ==
    ASSUME IInv, NEW j \in Jobs, Alone(j), SkipMissing(j)
    PROVE  \E d \in Deps[NextPlugin(j)] : RowsOf(j)[d].kind # "ok" \/ ~Fresh(RowsOf(j), d)
<1> DEFINE x == NextPlugin(j)
           results == WithType(j, x)
<1>1. TypeOK /\ JobInv(j) /\ job[j].place = "process_queue"
  BY DEF IInv, SkipMissing, TaskRunner
<1>2. x \in Plugins /\ RowsOf(j) \in Rows
  BY <1>1, RunnerFacts, TypeFacts
<1>3. /\ results \in Results
      /\ \A q \in Plugins : job[j].processed[q] # "none" => results[q] = job[j].processed[q]
      /\ \A q \in Plugins : results[q] = job[j].processed[q] \/ results[q] = Loaded(RowsOf(j)[q])
  BY <1>1, <1>2, WithTypeFacts
<1>4. PICK d \in Deps[x] : results[d] \notin {"ok", "old"}
  BY DEF SkipMissing, Unfulfilled
<1>5. d \in Plugins /\ RowsOf(j)[d] \in Record
  BY <1>2, DepsType DEF Rows
<1> HIDE DEF results
<1>6. results[d] \in Skipped \cup {"none"}
  BY <1>3, <1>4, <1>5 DEF Results, Kinds, Skipped
<1>7. /\ SkipOK(job[j].processed, RowsOf(j))
      /\ Entry[j] = "update" =>
            \A p \in Plugins : job[j].processed[p] = "none" => RowsOf(j)[p].kind = "none"
  BY <1>1 DEF JobInv, SkipInv
<1>8. CASE results[d] \in Skipped
  <2>1. SkipOK(results, RowsOf(j))
    BY <1>2, <1>3, <1>7, LoadedSkipOK
  <2> QED BY <2>1, <1>5, <1>8 DEF SkipOK
<1>9. CASE results[d] = "none"
  <2>1. Entry[j] = "update"
    BY <1>1, <1>3, <1>5, <1>9, DependenciesDone
  <2>2. RowsOf(j)[d].kind = "none"
    BY <2>1, <1>3, <1>5, <1>7, <1>9, LoadedFacts
  <2> QED BY <2>2
<1> QED BY <1>6, <1>8, <1>9

\* A step of the only job of a file: what was skipped for missing dependencies stays open.
LEMMA JobRevises ==
    ASSUME IInv, NEW j \in Jobs, Start(j) \/ Run(j) \/ Plugin(j) \/ Collect(j),
           Alone(j), Revised(RowsOf(j))
    PROVE  Revised(RowsOf(j)')
<1>1. /\ TypeOK /\ RowsOf(j) \in Rows /\ clock[Uid[j]] \in Nat
      /\ \A p \in Plugins : RowsOf(j)[p].date < clock[Uid[j]]
  BY TypeFacts DEF IInv, JobInv, DateInv
<1>2. CASE db' = db
  BY <1>2 DEF RowsOf
<1>3. ASSUME TaskRunner(j), NEW kind \in {"blacklisted", "invalid"}, Skip(j, kind)
      PROVE  Revised(RowsOf(j)')
  <2>1. NextPlugin(j) \in Plugins /\ kind \in Kinds \ {"none"} /\ kind # "missing"
    BY <1>3, RunnerFacts DEF TaskRunner, Kinds
  <2>2. RowsOf(j)' = Stored(RowsOf(j), NextPlugin(j), kind, clock[Uid[j]])
    BY <2>1, <1>1, <1>3, StoreFacts DEF Skip
  <2>3. Revised(Stored(RowsOf(j), NextPlugin(j), kind, clock[Uid[j]]))
    BY <2>1, <1>1, StoredRevised
  <2> QED BY <2>2, <2>3
<1>4. CASE SkipMissing(j)
  <2>1. NextPlugin(j) \in Plugins /\ "missing" \in Kinds \ {"none"}
    BY <1>4, RunnerFacts DEF SkipMissing, TaskRunner, Kinds
  <2>2. RowsOf(j)' = Stored(RowsOf(j), NextPlugin(j), "missing", clock[Uid[j]])
    BY <2>1, <1>1, <1>4, StoreFacts DEF SkipMissing, Skip
  <2>3. \E d \in Deps[NextPlugin(j)] : RowsOf(j)[d].kind # "ok" \/ ~Fresh(RowsOf(j), d)
    BY <1>4, MissingForAReason
  <2>4. Revised(Stored(RowsOf(j), NextPlugin(j), "missing", clock[Uid[j]]))
    BY <2>1, <2>3, <1>1, StoredRevised
  <2> QED BY <2>2, <2>4
<1>5. CASE CollectResult(j)
  <2>1. /\ job[j].plugin \in Plugins /\ job[j].processed[job[j].plugin] = "ok"
        /\ job[j].date \in Nat /\ "ok" \in Kinds \ {"none"}
        /\ \A p \in Plugins : RowsOf(j)[p].date < job[j].date
    BY <1>1, <1>5, TypeFacts DEF CollectResult, IInv, JobInv, PlaceInv, DateInv, Kinds
  <2>2. RowsOf(j)' = Stored(RowsOf(j), job[j].plugin, "ok", job[j].date)
    BY <2>1, <1>1, <1>5, StoreFacts DEF CollectResult
  <2>3. Revised(Stored(RowsOf(j), job[j].plugin, "ok", job[j].date))
    BY <2>1, <1>1, StoredRevised
  <2> QED BY <2>2, <2>3
<1>6. CASE CollectFailure(j)
  <2>1. job[j].plugin \in Plugins /\ "failed" \in Kinds \ {"none"}
    BY <1>1, TypeFacts DEF Kinds
  <2>2. RowsOf(j)' = Stored(RowsOf(j), job[j].plugin, "failed", clock[Uid[j]])
    BY <2>1, <1>1, <1>6, StoreFacts DEF CollectFailure, FailureDate
  <2>3. Revised(Stored(RowsOf(j), job[j].plugin, "failed", clock[Uid[j]]))
    BY <2>1, <1>1, StoredRevised
  <2> QED BY <2>2, <2>3
<1>7. CASE Start(j)
  BY <1>2, <1>7 DEF Start, StartFirmware, StartFile, StartUpdate, UpdateFile,
                    UpdateFirmware, StartSingle, Schedule
<1>8. CASE Run(j)
  BY <1>2, <1>3, <1>4, <1>8 DEF Run, SkipCompleted, SkipBlacklisted, RunnerDies,
                                SkipInvalid, QueueAnalysis
<1>9. CASE Plugin(j)
  BY <1>2, <1>9 DEF Plugin, PluginSucceeds, PluginFails
<1> QED BY <1>5, <1>6, <1>7, <1>8, <1>9 DEF Collect

\* No step makes a row "dependency is missing" count as up to date while the dependencies
\* are there and up to date, if one job at a time works on the file: the next update finds
\* out from the dates (_dependencies_are_up_to_date).
THEOREM SkipsAreNotStickyEver == Spec => SkipsAreNotSticky
<1>1. ASSUME IInv, [Next]_vars, NEW j \in requests, Alone(j), SkipsAreRevised(Uid[j])
      PROVE  SkipsAreRevised(Uid[j])'
  <2>1. j \in Jobs /\ Revised(RowsOf(j)) /\ RowsOf(j) \in Rows /\ Uid[j] \in Uids
    BY <1>1, RowFacts, TypeFacts DEF IInv, TypeOK
  <2>2. ASSUME NEW k \in Jobs, Start(k) \/ Run(k) \/ Plugin(k) \/ Collect(k)
        PROVE  Revised(RowsOf(j)')
    <3>1. CASE k = j
      BY <3>1, <2>1, <2>2, <1>1, JobRevises
    <3>2. CASE k # j
      <4>1. StepOf(k)
        BY <1>1, <2>2, JobKeeps
      <4>2. RowsOf(j)' = RowsOf(j)
        BY <4>1, <3>2, <2>1, <1>1 DEF StepOf, Alone, RowsOf
      <4> QED BY <4>2, <2>1
    <3> QED BY <3>1, <3>2
  <2>3. ASSUME NEW fw \in Uids, StatusAdds(fw) \/ StatusFinishes(fw) \/ StatusCancels(fw)
        PROVE  Revised(RowsOf(j)')
    <3>1. db' = db
      BY <2>3 DEF StatusAdds, StatusFinishes, StatusCancels
    <3> QED BY <3>1, <2>1 DEF RowsOf
  <2>4. ASSUME UNCHANGED vars PROVE Revised(RowsOf(j)')
    BY <2>4, <2>1 DEF RowsOf, vars
  <2>5. Revised(RowsOf(j)')
    BY <1>1, <2>2, <2>3, <2>4 DEF Next
  <2>6. SkipsAreRevised(Uid[j])' <=> Revised(RowsOf(j)')
    BY <2>1, DepsType DEF SkipsAreRevised, Revised, RowsOf, UpToDate, Fresh
  <2> QED BY <2>5, <2>6
<1>2. IInv /\ [Next]_vars =>
         [\A j \in requests : Alone(j) /\ SkipsAreRevised(Uid[j]) => SkipsAreRevised(Uid[j])']_vars
  BY <1>1
<1> QED BY <1>2, IInvHolds, PTL DEF Spec, SkipsAreNotSticky

-----------------------------------------------------------------------------
(* The status of the firmware.                                             *)

\* The jobs that announce a firmware, and the firmware the status worker knows of.
Announces(k) == Entry[k] \in {"firmware", "update"}
Known == announced \cup analyzed \cup cancelled

\* A file is started after its firmware; and from the start of a firmware on, as long as
\* a job of it is not through, it is announced, has a status or was cancelled.
StatusInv ==
    /\ \A j \in Jobs : Entry[j] \in {"file", "update_file"} /\ job[j].place # "new" =>
          \E k \in Jobs : Announces(k) /\ Root[k] = Root[j] /\ job[k].place # "new"
    /\ \A j, k \in Jobs :
          /\ Announces(k) /\ Root[k] = Root[j] /\ job[k].place # "new"
          /\ j \in requests /\ job[j].place # "completed"
          => Root[j] \in Known

\* What a step of a job does to its place and to the status.
LEMMA JobSteps ==
    ASSUME IInv, NEW j \in Jobs, Start(j) \/ Run(j) \/ Plugin(j) \/ Collect(j)
    PROVE  /\ job[j].place \notin {"completed", "dropped", "lost"} /\ job'[j].place # "new"
           /\ announced \subseteq announced' /\ UNCHANGED <<analyzed, cancelled>>
           /\ job[j].place = "new" /\ Announces(j) => Root[j] \in announced'
           /\ job[j].place = "new" /\ Entry[j] \in {"file", "update_file"} =>
                 \E k \in Jobs : Announces(k) /\ Root[k] = Root[j] /\ job[k].place # "new"
           /\ job'[j].place = "dropped" => ~Continues(j)
<1>1. /\ job \in [Jobs -> JobRecord] /\ job[j] \in JobRecord
      /\ \A list : /\ Place(j, list) \in {"completed", "process_queue", "dropped"}
                   /\ Place(j, list) = "dropped" => ~Continues(j)
  BY TypeOKJobs DEF IInv, Place
<1>2. CASE Start(j)
  <2>1. CASE StartUpdate(j)
    BY <2>1, <1>1 DEF StartUpdate, New, Announces, JobRecord
  <2>2. CASE UpdateFirmware(j)
    <3>1. \E list : job'[j].place = Place(j, list)
      BY <2>2, <1>1 DEF UpdateFirmware, JobRecord
    <3> QED BY <2>2, <3>1, <1>1 DEF UpdateFirmware
  <2>3. ASSUME NEW results, Schedule(j, results) PROVE \E list : job'[j].place = Place(j, list)
    BY <2>3, <1>1 DEF Schedule, JobRecord
  <2>4. CASE StartFirmware(j)
    BY <2>3, <2>4, <1>1 DEF StartFirmware, New, Announces, Schedule
  <2>5. CASE StartFile(j) \/ UpdateFile(j) \/ StartSingle(j)
    BY <2>3, <2>5, <1>1 DEF StartFile, UpdateFile, StartSingle, New, Announces, Schedule
  <2> QED BY <1>2, <2>1, <2>2, <2>4, <2>5 DEF Start
<1>3. CASE Run(j)
  <2>1. /\ job[j].place = "process_queue" /\ UNCHANGED <<announced, analyzed, cancelled>>
    BY <1>3 DEF Run, SkipCompleted, SkipBlacklisted, RunnerDies, SkipMissing, SkipInvalid,
                QueueAnalysis, TaskRunner
  <2>2. \/ job'[j].place \in {"lost", "in_queue"}
        \/ \E list : job'[j].place = Place(j, list)
    BY <1>1, <1>3 DEF Run, SkipCompleted, SkipBlacklisted, RunnerDies, SkipMissing, SkipInvalid,
                QueueAnalysis, Skip, JobRecord
  <2> QED BY <2>1, <2>2, <1>1
<1>4. CASE Plugin(j)
  <2>1. job'[j].place = "out_queue"
    BY <1>1, <1>4 DEF Plugin, PluginSucceeds, PluginFails, JobRecord
  <2> QED BY <2>1, <1>4 DEF Plugin, PluginSucceeds, PluginFails
<1>5. CASE Collect(j)
  <2>1. \E list : job'[j].place = Place(j, list)
    <3>1. CASE CollectResult(j)
      BY <3>1, <1>1 DEF CollectResult, JobRecord
    <3>2. CASE CollectFailure(j)
      BY <3>2, <1>1 DEF CollectFailure, JobRecord
    <3> QED BY <3>1, <3>2, <1>5 DEF Collect
  <2> QED BY <2>1, <1>1, <1>5 DEF Collect, CollectResult, CollectFailure
<1> QED BY <1>2, <1>3, <1>4, <1>5

\* A firmware is only forgotten by the status worker when all its jobs are through, or it
\* was cancelled.
LEMMA NextStatusInv == IInv /\ StatusInv /\ [Next]_vars => StatusInv'
<1>1. SUFFICES ASSUME IInv, StatusInv, [Next]_vars PROVE StatusInv'
  OBVIOUS
<1> USE DEF Known
<1>2. ASSUME NEW i \in Jobs, Start(i) \/ Run(i) \/ Plugin(i) \/ Collect(i) PROVE StatusInv'
  <2>1. /\ requests' = requests /\ \A k \in Jobs \ {i} : job'[k] = job[k]
    BY <1>1, <1>2, JobKeeps DEF StepOf
  <2>2. /\ job[i].place \notin {"completed", "dropped", "lost"} /\ job'[i].place # "new"
        /\ announced \subseteq announced' /\ analyzed' = analyzed /\ cancelled' = cancelled
        /\ job[i].place = "new" /\ Announces(i) => Root[i] \in announced'
        /\ job[i].place = "new" /\ Entry[i] \in {"file", "update_file"} =>
              \E k \in Jobs : Announces(k) /\ Root[k] = Root[i] /\ job[k].place # "new"
    BY <1>1, <1>2, JobSteps
  <2>3. \A k \in Jobs : job[k].place # "new" => job'[k].place # "new"
    BY <2>1, <2>2
  <2>4. ASSUME NEW j \in Jobs, Entry[j] \in {"file", "update_file"}, job'[j].place # "new"
        PROVE  \E k \in Jobs : Announces(k) /\ Root[k] = Root[j] /\ job'[k].place # "new"
    <3>1. PICK k \in Jobs : Announces(k) /\ Root[k] = Root[j] /\ job[k].place # "new"
      BY <2>1, <2>2, <2>4, <1>1 DEF StatusInv
    <3> QED BY <3>1, <2>3
  <2>5. ASSUME NEW j \in Jobs, NEW k \in Jobs,
               Announces(k), Root[k] = Root[j], job'[k].place # "new",
               j \in requests, job'[j].place # "completed"
        PROVE  Root[j] \in Known'
    <3>1. job[j].place # "completed"
      BY <2>1, <2>2, <2>5
    <3>2. CASE job[k].place # "new"
      BY <3>1, <3>2, <2>2, <2>5, <1>1 DEF StatusInv
    <3>3. CASE job[k].place = "new"
      BY <3>3, <2>1, <2>2, <2>5
    <3> QED BY <3>2, <3>3
  <2> QED BY <2>1, <2>4, <2>5 DEF StatusInv, Announces
<1>3. ASSUME NEW fw \in Uids, StatusAdds(fw) \/ StatusFinishes(fw) \/ StatusCancels(fw)
      PROVE  StatusInv'
  <2>1. job' = job /\ requests' = requests
    BY <1>3 DEF StatusAdds, StatusFinishes, StatusCancels
  <2>2. \/ Known \subseteq Known'
        \/ /\ Known \subseteq Known' \cup {fw}
           /\ \A j \in requests : Root[j] = fw => job[j].place = "completed"
    BY <1>3 DEF StatusAdds, StatusFinishes, StatusCancels
  <2> QED BY <2>1, <2>2, <1>1 DEF StatusInv, Announces
<1>4. CASE UNCHANGED vars
  BY <1>1, <1>4 DEF StatusInv, Announces, vars
<1> QED BY <1>1, <1>2, <1>3, <1>4 DEF Next

\* A job is only dropped when its firmware was cancelled, or before the status worker has
\* handled the message that announces the firmware (_check_further_process_or_complete),
\* for any number of jobs, firmware images and cancellations.
THEOREM DroppedOnlyIfCancelledOrEarlyEver == Spec => DroppedOnlyIfCancelledOrEarly
<1>1. Init => StatusInv
  BY DEF Init, StatusInv
<1>2. ASSUME IInv, StatusInv, [Next]_vars, NEW j \in Jobs,
             job'[j].place = "dropped", job[j].place # "dropped"
      PROVE  Root[j] \in (cancelled \cup announced) \ analyzed
  <2>1. PICK i \in Jobs : Start(i) \/ Run(i) \/ Plugin(i) \/ Collect(i)
    BY <1>2 DEF Next, vars, StatusAdds, StatusFinishes, StatusCancels
  <2>2. i = j /\ j \in requests
    BY <2>1, <1>2, JobKeeps DEF StepOf
  <2>3. /\ job[j].place # "completed" /\ ~Continues(j)
        /\ job[j].place = "new" /\ Entry[j] \in {"file", "update_file"} =>
              \E k \in Jobs : Announces(k) /\ Root[k] = Root[j] /\ job[k].place # "new"
    BY <2>1, <2>2, <1>2, JobSteps
  <2>4. Entry[j] \in {"file", "update_file"} /\ Root[j] \notin analyzed
    BY <2>3, SchedulerConstants DEF Continues
  <2>5. PICK k \in Jobs : Announces(k) /\ Root[k] = Root[j] /\ job[k].place # "new"
    BY <2>3, <2>4, <1>2 DEF StatusInv
  <2>6. Root[j] \in Known
    BY <2>2, <2>3, <2>5, <1>2 DEF StatusInv
  <2> QED BY <2>4, <2>6 DEF Known
<1>3. IInv /\ StatusInv /\ [Next]_vars =>
         [\A j \in Jobs : job'[j].place = "dropped" /\ job[j].place # "dropped" =>
             Root[j] \in (cancelled \cup announced) \ analyzed]_vars
  BY <1>2
<1> QED BY <1>1, <1>3, NextStatusInv, IInvHolds, PTL DEF Spec, DroppedOnlyIfCancelledOrEarly

-----------------------------------------------------------------------------
(* The two components together: what schedule_analysis_tasks returns is    *)
(* what the analysis scheduler takes for granted.                          *)

\* no plugin depends on itself, directly or through others
Acyclic(graph) ==
    \A set \in SUBSET Plugins : set # {} => \E p \in set : graph[p] \cap set = {}

\* todo is on its way to the closure of the request; from then on nothing is added to it
\* but the mandatory plugins.
TaskPlan ==
    /\ requested \subseteq todo
    /\ \A t \in SUBSET Plugins :
          requested \subseteq t /\ (\A p \in t : deps[p] \subseteq t) => todo \subseteq t
    /\ phase \in {"shuffle", "file_type", "done"} =>
          /\ \A p \in todo : deps[p] \subseteq todo
          /\ Elements(scheduled) \cup remaining =
                todo \cup (IF mandatory = 1 THEN Mandatory ELSE {})

\* Each pass of _add_dependencies_recursively adds what a closed set must hold anyway, and
\* each wave of _smart_shuffle moves what remains into the list.
LEMMA TaskNextPlan == TaskIInv /\ TaskPlan /\ [TaskNext]_taskVars => TaskPlan'
<1>1. SUFFICES ASSUME TaskIInv, TaskPlan, [TaskNext]_taskVars PROVE TaskPlan'
  OBVIOUS
<1>2. CASE AddDependencies
  <2>1. /\ UNCHANGED <<loaded, deps, requested, mandatory, phase>> /\ phase = "dependencies"
        /\ todo' = todo \cup ((UNION {deps[p] : p \in todo}) \ todo)
    BY <1>2 DEF AddDependencies, CumulativeRemaining, arguments
  <2> QED BY <2>1, <1>1 DEF TaskPlan
<1>3. CASE AddMandatory
  <2>1. /\ UNCHANGED <<loaded, deps, requested, mandatory, todo, scheduled>>
        /\ (UNION {deps[p] : p \in todo}) \ todo = {}
        /\ remaining' = todo \cup (IF mandatory = 1 THEN Mandatory ELSE {})
    BY <1>3 DEF AddMandatory, CumulativeRemaining, arguments
  <2>2. Elements(scheduled)' = {}
    BY <1>1, <1>3, <2>1 DEF TaskIInv, Kept, AddMandatory, Elements
  <2>3. ASSUME NEW p \in todo, NEW d \in deps[p] PROVE d \in todo
    <3>1. d \in UNION {deps[q] : q \in todo}
      OBVIOUS
    <3> QED BY <3>1, <2>1
  <2> QED BY <2>1, <2>2, <2>3, <1>1 DEF TaskPlan
<1>4. CASE ShuffleWave
  <2>1. PICK wave \in Shuffled(Met) : scheduled' = wave \o scheduled
    BY <1>4 DEF ShuffleWave
  <2>2. /\ UNCHANGED <<loaded, deps, requested, mandatory, todo, phase>>
        /\ remaining' = remaining \ Met /\ Met \subseteq remaining
    BY <1>4 DEF ShuffleWave, arguments, Met
  <2>3. Elements(scheduled') = Met \cup Elements(scheduled)
    BY <2>1, <2>2, <1>1, WaveKeepsOrder DEF TaskIInv
  <2>4. (Elements(scheduled) \cup remaining)' = Elements(scheduled) \cup remaining
    BY <2>2, <2>3 DEF Elements
  <2> QED BY <2>2, <2>4, <1>1 DEF TaskPlan
<1>5. CASE MoveFileType
  <2>1. UNCHANGED <<loaded, deps, requested, mandatory, todo, remaining>> /\ phase = "file_type"
    BY <1>5 DEF MoveFileType, arguments
  <2>2. Elements(scheduled') = Elements(scheduled)
    BY <1>1, <1>5, <2>1, MoveKeepsOrder DEF MoveFileType, TaskIInv
  <2>3. (Elements(scheduled) \cup remaining)' = Elements(scheduled) \cup remaining
    BY <2>1, <2>2 DEF Elements
  <2> QED BY <2>1, <2>3, <1>1 DEF TaskPlan
<1>6. CASE DependenciesFail \/ ShuffleFails \/ ShuffleEnds \/ UNCHANGED taskVars
  <2>1. /\ UNCHANGED <<loaded, deps, requested, mandatory, todo, remaining, scheduled>>
        /\ phase' \in {"shuffle", "file_type", "done"} =>
              phase \in {"shuffle", "file_type", "done"}
    BY <1>6 DEF DependenciesFail, ShuffleFails, ShuffleEnds, Fail, taskVars, arguments
  <2> QED BY <2>1, <1>1 DEF TaskPlan, Elements
<1> QED BY <1>1, <1>2, <1>3, <1>4, <1>5, <1>6 DEF TaskNext

\* A list without duplicates is a shuffling of its elements.
LEMMA ListIsShuffled ==
    ASSUME NEW s \in Seq(Plugins), \A i, k \in 1..Len(s) : s[i] = s[k] => i = k
    PROVE  s \in Shuffled(Elements(s))
<1>1. /\ Len(s) \in Nat /\ s \in [1..Len(s) -> Elements(s)]
      /\ \A x \in Elements(s) : \E i \in 1..Len(s) : s[i] = x
  BY DEF Elements
<1>2. s \in Bijection(1..Len(s), Elements(s))
  BY <1>1 DEF Bijection, Injection, IsInjective, Surjection
<1>3. IsFiniteSet(1..Len(s)) /\ Cardinality(1..Len(s)) = Len(s)
  <2>1. ASSUME NEW n \in Nat PROVE IsFiniteSet(1..n) /\ Cardinality(1..n) = n
    BY FS_Interval
  <2> QED BY <2>1, <1>1
<1>4. Cardinality(Elements(s)) = Len(s)
  BY <1>2, <1>3, FS_Bijection DEF ExistsBijection
<1> QED BY <1>1, <1>4 DEF Shuffled

\* If no plugin depends on itself, schedule_analysis_tasks returns, for what was requested
\* for a job, one of the lists that the analysis scheduler is modelled with: exactly the
\* closure of the request with the mandatory plugins, each once, dependencies behind their
\* dependents and file_type at the end.  So what is proved of the jobs above holds for the
\* lists they are given.
THEOREM SchedulesAreWhatIsScheduled ==
    TaskSpec => [](\A j \in Jobs :
        /\ phase = "done" /\ deps = Deps /\ Acyclic(Deps)
        /\ requested = Requested[j] /\ mandatory = (IF Entry[j] = "single" THEN 0 ELSE 1)
        => scheduled \in Schedules(Plan(j)))
<1> DEFINE Fits ==
        \A j \in Jobs :
            /\ phase = "done" /\ deps = Deps /\ Acyclic(Deps)
            /\ requested = Requested[j] /\ mandatory = (IF Entry[j] = "single" THEN 0 ELSE 1)
            => scheduled \in Schedules(Plan(j))
<1>1. TaskInit => TaskPlan
  BY DEF TaskInit, TaskPlan
<1>2. TaskIInv /\ TaskPlan => Fits
  <2>1. SUFFICES ASSUME TaskIInv, TaskPlan, NEW j \in Jobs,
                        phase = "done", deps = Deps, Acyclic(Deps), requested = Requested[j],
                        mandatory = (IF Entry[j] = "single" THEN 0 ELSE 1)
                 PROVE  scheduled \in Schedules(Plan(j))
    OBVIOUS
  <2>2. /\ scheduled \in Seq(Plugins) /\ remaining \subseteq Plugins /\ todo \subseteq Plugins
        /\ DependenciesRunFirst /\ NoPluginTwice
        /\ \A p \in remaining : ~(Deps[p] \subseteq Elements(scheduled))
        /\ Elements(scheduled) \cup remaining =
              todo \cup (IF mandatory = 1 THEN Mandatory ELSE {})
        /\ \A p \in todo : Deps[p] \subseteq todo
    BY <2>1 DEF TaskIInv, TaskTypeOK, Ordered, Kept, Met, TaskPlan
  <2>3. todo = Closure(Requested[j])
    <3>1. todo \subseteq Closure(Requested[j])
      BY <2>1, <2>2 DEF TaskPlan, Closure, Closed
    <3>2. Closure(Requested[j]) \subseteq todo
      BY <2>1, <2>2 DEF TaskPlan, Closure, Closed
    <3> QED BY <3>1, <3>2
  <2>4. Elements(scheduled) \cup remaining = Plan(j)
    BY <2>1, <2>2, <2>3 DEF Plan
  <2>5. remaining = {}
    <3>1. SUFFICES ASSUME remaining # {} PROVE FALSE
      OBVIOUS
    <3>2. PICK p \in remaining : Deps[p] \cap remaining = {}
      BY <3>1, <2>1, <2>2 DEF Acyclic
    <3>3. Deps[p] \subseteq Plan(j)
      BY <2>4, PlanFacts DEF Closed
    <3> QED BY <3>2, <3>3, <2>2, <2>4
  <2>6. scheduled \in Shuffled(Plan(j)) /\ Elements(scheduled) = Plan(j)
    BY <2>2, <2>4, <2>5, ListIsShuffled DEF NoPluginTwice
  <2>7. FileType \in Plan(j) => scheduled[Len(scheduled)] = FileType
    BY <2>1, <2>6 DEF TaskIInv, FileTypeFirst
  <2> QED BY <2>1, <2>2, <2>6, <2>7 DEF Schedules, DependenciesRunFirst
<1>3. TaskSpec => []TaskPlan
  BY <1>1, TaskNextPlan, TaskIInvHolds, PTL DEF TaskSpec
<1> QED BY <1>2, <1>3, TaskIInvHolds, PTL
=============================================================================
