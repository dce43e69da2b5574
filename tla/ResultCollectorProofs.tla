------------------------ MODULE ResultCollectorProofs ------------------------
(***************************************************************************)
(* The collector's counts and latencies are right for every set of works,  *)
(* every set of durations, with and without a reporter, and however its    *)
(* goroutines interleave.                                                  *)
(*                                                                         *)
(* The inductive invariant has four parts: who is in the critical section  *)
(* (MutexOK), what the counters count (CountsAreExact), what the histogram *)
(* counts (HistogramOK) and how the sum of the durations is bounded by the *)
(* extremes (LatencyOK), from which the average follows.  What a report    *)
(* being written and a status being printed have of the counters is in     *)
(* ReportOK and PrintOK, inductive relative to it.                         *)
(***************************************************************************)
EXTENDS ResultCollector, FiniteSetTheorems, TLAPS

(* The work in the critical section is the one that holds the mutex; a     *)
(* result has a duration; nothing is recorded before there is a result.    *)
MutexOK ==
  /\ \A i \in Works : finishPc[i] \in {"locked", "collected"} <=> mtx = i
  /\ \A i \in Works : finishPc[i] # "none" => elapsed[i] \in Durations
  /\ ~ready => \A i \in Works : finishPc[i] \in {"none", "spawned"}
  /\ ~ready => totalExecTime = 0

HistogramOK ==
  HasReporter =>
    \A b \in Buckets :
      workBuckets[b] = Cardinality({i \in FinishedIn({"collected", "done"}) :
                                      Bucket(elapsed[i]) = b})

(* The sum of the durations recorded: totalExecTime without the work that  *)
(* is in the critical section.                                             *)
RecordedTime == IF mtx = NoWork THEN totalExecTime ELSE totalExecTime - elapsed[mtx]

LatencyOK ==
  /\ sinceZero \subseteq Recorded
  /\ \A i \in sinceZero : elapsed[i] > 0
  /\ Recorded = {} => MaxLatency = 0
  /\ MaximumIsExact
  /\ MinimumIsExact
  /\ RecordedTime \in Nat
  /\ RecordedTime <= (Succeeded + Failed) * MaxLatency
  /\ sinceZero = Recorded => (Succeeded + Failed) * MinLatency <= RecordedTime
  /\ Recorded # {} => /\ AvgLatency <= MaxLatency
                      /\ sinceZero = Recorded => MinLatency <= AvgLatency

IInv == TypeOK /\ MutexOK /\ CountsAreExact /\ HistogramOK /\ LatencyOK

-----------------------------------------------------------------------------
(* Arithmetic of an integer average.                                       *)
LEMMA TimesMonotone ==
  ASSUME NEW n \in Nat, NEW a \in Nat, NEW b \in Nat, a <= b
  PROVE  n * a <= n * b
  OBVIOUS

LEMMA DivNat ==
  ASSUME NEW t \in Nat, NEW n \in Nat \ {0}
  PROVE  /\ t \div n \in Nat
         /\ n * (t \div n) <= t
         /\ t < n * ((t \div n) + 1)
  OBVIOUS

LEMMA AverageAtLeast ==
  ASSUME NEW t \in Nat, NEW n \in Nat \ {0}, NEW a \in Nat, n * a <= t
  PROVE  a <= t \div n
  <1> DEFINE q == t \div n
  <1>1. q \in Nat /\ n * q <= t /\ t < n * (q + 1)
    BY DivNat
  <1> HIDE DEF q
  <1>2. ASSUME a > q PROVE FALSE
    <2>1. n * (q + 1) <= n * a
      BY <1>1, <1>2, TimesMonotone
    <2> QED
      BY <1>1, <2>1
  <1>3. a <= q
    BY <1>1, <1>2
  <1> QED
    BY <1>3 DEF q

LEMMA AverageAtMost ==
  ASSUME NEW t \in Nat, NEW n \in Nat \ {0}, NEW b \in Nat, t <= n * b
  PROVE  t \div n <= b
  <1> DEFINE q == t \div n
  <1>1. q \in Nat /\ n * q <= t /\ t < n * (q + 1)
    BY DivNat
  <1> HIDE DEF q
  <1>2. ASSUME q > b PROVE FALSE
    <2>1. n * (b + 1) <= n * q
      BY <1>1, <1>2, TimesMonotone
    <2>2. n * (b + 1) = n * b + n
      OBVIOUS
    <2> QED
      BY <1>1, <2>1, <2>2
  <1>3. q <= b
    BY <1>1, <1>2
  <1> QED
    BY <1>3 DEF q

-----------------------------------------------------------------------------
(* Sets of works are finite, so that a work more is a number more.         *)
LEMMA OneMore ==
  ASSUME NEW A \in SUBSET Works, NEW i \in Works, i \notin A
  PROVE  /\ Cardinality(A) \in Nat
         /\ Cardinality(A \cup {i}) = Cardinality(A) + 1
  <1>1. IsFiniteSet(A)
    BY CollectorAssumption, FS_Subset
  <1> QED
    BY <1>1, FS_CardinalityType, FS_AddElement

LEMMA NoneLeft ==
  ASSUME NEW A \in SUBSET Works
  PROVE  Cardinality(A) \in Nat /\ (Cardinality(A) = 0 <=> A = {})
  <1>1. IsFiniteSet(A)
    BY CollectorAssumption, FS_Subset
  <1> QED
    BY <1>1, FS_CardinalityType, FS_EmptySet

(* The works recorded are as many as succeeded and failed together.        *)
LEMMA CountOfRecorded ==
  ASSUME TypeOK, CountsAreExact
  PROVE  /\ Succeeded + Failed = Cardinality(Recorded)
         /\ Succeeded + Failed = 0 <=> Recorded = {}
  <1> DEFINE Good == {i \in Recorded : good[i]}
             Bad == {i \in Recorded : ~good[i]}
  <1>1. Good \in SUBSET Works /\ Bad \in SUBSET Works /\ Recorded = Good \cup Bad
    BY DEF Recorded, FinishedIn
  <1>2. Succeeded = Cardinality(Good) /\ Failed = Cardinality(Bad)
    BY DEF CountsAreExact
  <1>3. Good \cap Bad = {} /\ IsFiniteSet(Works)
    BY CollectorAssumption
  <1> HIDE DEF Good, Bad
  <1>4. IsFiniteSet(Good) /\ IsFiniteSet(Bad)
    BY <1>1, <1>3, FS_Subset
  <1>5. Cardinality(Recorded) = Cardinality(Good) + Cardinality(Bad) - Cardinality(Good \cap Bad)
    BY <1>1, <1>4, FS_Union
  <1>6. Cardinality(Good) \in Nat /\ Cardinality(Bad) \in Nat
    BY <1>4, FS_CardinalityType
  <1>7. Cardinality(Recorded) = Succeeded + Failed
    BY <1>2, <1>3, <1>5, <1>6, FS_EmptySet
  <1>8. Recorded \in SUBSET Works
    BY <1>1
  <1>9. Cardinality(Recorded) = 0 <=> Recorded = {}
    BY <1>8, NoneLeft
  <1> QED
    BY <1>7, <1>9

-----------------------------------------------------------------------------
(* The steps that are no part of an onWorkFinish in its critical section.  *)
OutsideStep ==
  \/ InitBenchmarkResult
  \/ \E i \in Works :
       \/ SpawnStart(i)
       \/ \E e \in Durations, ok \in BOOLEAN : SpawnFinish(i, e, ok)
       \/ AddTotal(i)
  \/ PrintStep
  \/ MonitorPublishStep
  \/ UNCHANGED vars

(* None of them changes the result's latencies, the mutex or the histogram *)
(* or makes a work finished.                                               *)
LEMMA OutsideFrame ==
  ASSUME IInv, OutsideStep
  PROVE  /\ UNCHANGED <<latencyVars, countVars, mtx, workBuckets>>
         /\ ready => ready'
         /\ totalExecTime' = totalExecTime
         /\ \A j \in Works :
              /\ finishPc'[j] # finishPc[j] => finishPc[j] = "none" /\ finishPc'[j] = "spawned"
              /\ finishPc'[j] = finishPc[j] => elapsed'[j] = elapsed[j] /\ good'[j] = good[j]
              /\ finishPc'[j] # finishPc[j] => elapsed'[j] \in Durations
  <1> USE DEF IInv, TypeOK, latencyVars, countVars, startVars, finishVars, reporterVars,
              workVars, monitorVars, vars
  <1>1. CASE InitBenchmarkResult
    BY <1>1 DEF InitBenchmarkResult, MutexOK
  <1>2. ASSUME NEW i \in Works, SpawnStart(i) \/ AddTotal(i)
        PROVE  UNCHANGED <<ready, finishVars, workBuckets>>
    BY <1>2 DEF SpawnStart, AddTotal
  <1>3. ASSUME NEW i \in Works, NEW e \in Durations, NEW ok \in BOOLEAN,
               SpawnFinish(i, e, ok)
        PROVE  /\ UNCHANGED <<ready, latencyVars, countVars, mtx, workBuckets, totalExecTime>>
               /\ finishPc[i] = "none"
               /\ finishPc' = [finishPc EXCEPT ![i] = "spawned"]
               /\ elapsed' = [elapsed EXCEPT ![i] = e]
               /\ good' = [good EXCEPT ![i] = ok]
    BY <1>3 DEF SpawnFinish
  <1>4. CASE PrintStep \/ MonitorPublishStep
    BY <1>4 DEF PrintStep, ReadCounter, PrintAndPublish, MonitorPublishStep, PublishBegin,
                PublishStep, WritePoint, WritePointFails, Flush
  <1>5. CASE UNCHANGED vars
    BY <1>5
  <1> QED
    BY <1>1, <1>2, <1>3, <1>4, <1>5 DEF OutsideStep

LEMMA ElapsedNat ==
  ASSUME TypeOK, NEW i \in Works
  PROVE  elapsed[i] \in Nat
  <1>1. \A d \in Durations : d \in Nat
    BY ReporterAssumption
  <1> QED
    BY <1>1 DEF TypeOK

LEMMA TypeStep == TypeOK /\ MutexOK /\ [Next]_vars => TypeOK'
  <1> SUFFICES ASSUME TypeOK, MutexOK, [Next]_vars PROVE TypeOK'
    OBVIOUS
  <1> USE CollectorAssumption, ReporterAssumption
      DEF TypeOK, ReporterTypeOK, StartPcs, FinishPcs, latencyVars, countVars, startVars,
          finishVars, reporterVars, workVars, monitorVars
  <1>1. CASE InitBenchmarkResult
    BY <1>1 DEF InitBenchmarkResult
  <1>2. ASSUME NEW i \in Works, SpawnStart(i) \/ AddTotal(i) PROVE TypeOK'
    BY <1>2 DEF SpawnStart, AddTotal
  <1>3. ASSUME NEW i \in Works, NEW e \in Durations, NEW ok \in BOOLEAN,
               SpawnFinish(i, e, ok)
        PROVE  TypeOK'
    BY <1>3 DEF SpawnFinish
  <1>4. ASSUME NEW i \in Works, FinishLock(i) PROVE TypeOK'
    <2>1. elapsed[i] \in Nat
      BY ElapsedNat
    <2> QED
      BY <1>4, <2>1 DEF FinishLock
  <1>5. ASSUME NEW i \in Works, FinishCollect(i) PROVE TypeOK'
    <2>1. Bucket(elapsed[i]) \in Buckets
      BY <1>5 DEF FinishCollect, MutexOK, Buckets
    <2> QED
      BY <1>5, <2>1 DEF FinishCollect, CollectWorkResult
  <1>6. ASSUME NEW i \in Works, FinishRecord(i) PROVE TypeOK'
    <2>1. totalExecTime \div (Succeeded + Failed + 1) \in Nat
      <3>1. totalExecTime \in Nat /\ Succeeded + Failed + 1 \in Nat \ {0}
        OBVIOUS
      <3> QED
        BY <3>1, DivNat
    <2>2. elapsed[i] \in Nat
      BY ElapsedNat
    <2>3. Longer(elapsed[i]) \in Nat /\ Shorter(elapsed[i]) \in Nat
      BY <2>2 DEF Longer, Shorter
    <2> QED
      BY <1>6, <2>1, <2>3 DEF FinishRecord, CountResult
  <1>7. CASE PrintStep
    <2>1. ASSUME NEW c \in Counters, ReadCounter(c) PROVE TypeOK'
      <3>1. shown' \in Int
        BY <2>1 DEF ReadCounter, Operand, Counters
      <3>2. Cardinality(Started) \in Nat /\ Cardinality(Recorded) \in Nat
        BY NoneLeft DEF Started, Recorded, FinishedIn
      <3> QED
        BY <2>1, <3>1, <3>2 DEF ReadCounter
    <2>2. CASE PrintAndPublish
      <3>1. ASSUME PublishBegin PROVE pts' \in SUBSET (Buckets \X Nat)
        BY <3>1 DEF PublishBegin
      <3>2. shown' \in Int /\ before' \in [started : Nat, recorded : Nat]
            /\ unread' \in SUBSET Counters
        BY <2>2 DEF PrintAndPublish
      <3> QED
        BY <2>2, <3>1, <3>2 DEF PrintAndPublish, PublishBegin
    <2> QED
      BY <1>7, <2>1, <2>2 DEF PrintStep
  <1>8. CASE MonitorPublishStep
    BY <1>8 DEF MonitorPublishStep, PublishStep, WritePoint, WritePointFails, Flush
  <1>9. CASE UNCHANGED vars
    BY <1>9 DEF vars
  <1> QED
    BY <1>1, <1>2, <1>3, <1>4, <1>5, <1>6, <1>7, <1>8, <1>9 DEF Next, FinishStep

-----------------------------------------------------------------------------
LEMMA OutsideKeepsIInv ==
  ASSUME IInv, TypeOK', OutsideStep
  PROVE  MutexOK' /\ CountsAreExact' /\ HistogramOK' /\ LatencyOK'
  <1> USE OutsideFrame DEF IInv, TypeOK, FinishPcs, latencyVars, countVars
  <1>1. MutexOK'
    <2>1. ~ready' => totalExecTime' = 0
      BY DEF MutexOK
    <2>2. \A j \in Works : finishPc'[j] \in {"locked", "collected"} <=> mtx' = j
      BY DEF MutexOK
    <2>3. \A j \in Works : finishPc'[j] # "none" => elapsed'[j] \in Durations
      BY DEF MutexOK
    <2>4. ~ready' => \A j \in Works : finishPc'[j] \in {"none", "spawned"}
      BY DEF MutexOK
    <2> QED
      BY <2>1, <2>2, <2>3, <2>4 DEF MutexOK
  <1>2. /\ Recorded' = Recorded
        /\ FinishedIn({"collected", "done"})' = FinishedIn({"collected", "done"})
        /\ \A j \in FinishedIn({"collected", "done"}) :
             elapsed'[j] = elapsed[j] /\ good'[j] = good[j]
        /\ Recorded \subseteq FinishedIn({"collected", "done"})
    BY DEF Recorded, FinishedIn
  <1>3. CountsAreExact'
    <2>1. {i \in Recorded : good[i]}' = {i \in Recorded : good[i]}
      BY <1>2
    <2>2. {i \in Recorded : ~good[i]}' = {i \in Recorded : ~good[i]}
      BY <1>2
    <2>3. Total' = Cardinality(Started')
      <3>1. CASE \E i \in Works : AddTotal(i)
        <4> PICK i \in Works : AddTotal(i)
          BY <3>1
        <4>1. Started \in SUBSET Works /\ i \notin Started /\ Started' = Started \cup {i}
          BY DEF AddTotal, Started, StartPcs
        <4> QED
          BY <4>1, OneMore DEF AddTotal, CountsAreExact
      <3>2. CASE ~ \E i \in Works : AddTotal(i)
        <4>1. Total' = Total /\ \A i \in Works : startPc'[i] = "added" <=> startPc[i] = "added"
          BY <3>2 DEF OutsideStep, InitBenchmarkResult, SpawnStart, SpawnFinish, PrintStep,
                      ReadCounter, PrintAndPublish, MonitorPublishStep, vars, workVars,
                      startVars, StartPcs
        <4> QED
          BY <4>1 DEF CountsAreExact, Started
      <3> QED
        BY <3>1, <3>2
    <2> QED
      BY <2>1, <2>2, <2>3 DEF CountsAreExact
  <1>4. HistogramOK'
    <2> SUFFICES ASSUME HasReporter, NEW b \in Buckets
                 PROVE  {i \in FinishedIn({"collected", "done"}) : Bucket(elapsed[i]) = b}'
                          = {i \in FinishedIn({"collected", "done"}) : Bucket(elapsed[i]) = b}
      BY DEF HistogramOK
    <2> QED
      BY <1>2 DEF Bucket
  <1>5. LatencyOK'
    <2>1. RecordedTime' = RecordedTime
      <3>1. CASE mtx = NoWork
        BY <3>1 DEF RecordedTime
      <3>2. CASE mtx # NoWork
        <4>1. mtx \in Works /\ finishPc[mtx] \in {"locked", "collected"}
          BY <3>2 DEF MutexOK
        <4>2. elapsed'[mtx] = elapsed[mtx]
          BY <4>1
        <4> QED
          BY <3>2, <4>2 DEF RecordedTime
      <3> QED
        BY <3>1, <3>2
    <2>2. MaximumIsExact' /\ MinimumIsExact'
      BY <1>2 DEF LatencyOK, MaximumIsExact, MinimumIsExact
    <2> QED
      BY <1>2, <2>1, <2>2 DEF LatencyOK
  <1> QED
    BY <1>1, <1>3, <1>4, <1>5

(* Taking the mutex adds a duration that is not yet recorded.              *)
LEMMA LockKeepsIInv ==
  ASSUME IInv, TypeOK', NEW i \in Works, FinishLock(i)
  PROVE  MutexOK' /\ CountsAreExact' /\ HistogramOK' /\ LatencyOK'
  <1> USE CollectorAssumption DEF IInv, TypeOK, FinishPcs, FinishLock, latencyVars, countVars,
                                  startVars, reporterVars
  <1>0. RecordedTime' = RecordedTime
    BY ElapsedNat DEF RecordedTime
  <1>1. CASE HasReporter
    <2>1. MutexOK'
      BY <1>1 DEF MutexOK
    <2>2. Recorded' = Recorded /\ Started' = Started
          /\ FinishedIn({"collected", "done"})' = FinishedIn({"collected", "done"})
      BY <1>1 DEF Recorded, FinishedIn, Started
    <2>3. CountsAreExact'
      BY <2>2 DEF CountsAreExact
    <2>5. MaximumIsExact'
      BY <2>2 DEF LatencyOK, MaximumIsExact
    <2>6. MinimumIsExact'
      BY DEF LatencyOK, MinimumIsExact
    <2>4. HistogramOK'
      <3>1. ASSUME NEW b \in Buckets
            PROVE  {j \in FinishedIn({"collected", "done"}) : Bucket(elapsed[j]) = b}'
                     = {j \in FinishedIn({"collected", "done"}) : Bucket(elapsed[j]) = b}
        BY <2>2 DEF Bucket
      <3> QED
        BY <3>1 DEF HistogramOK
    <2> QED
      BY <1>0, <2>1, <2>2, <2>3, <2>4, <2>5, <2>6 DEF LatencyOK
  <1>2. CASE ~HasReporter
    <2>1. MutexOK'
      BY <1>2 DEF MutexOK
    <2>2. Recorded' = Recorded /\ Started' = Started
      BY <1>2 DEF Recorded, FinishedIn, Started
    <2>3. CountsAreExact' /\ HistogramOK'
      BY <1>2, <2>2 DEF CountsAreExact, HistogramOK
    <2>4. MaximumIsExact'
      BY <2>2 DEF LatencyOK, MaximumIsExact
    <2>5. MinimumIsExact'
      BY DEF LatencyOK, MinimumIsExact
    <2> QED
      BY <1>0, <2>1, <2>2, <2>3, <2>4, <2>5 DEF LatencyOK
  <1> QED
    BY <1>1, <1>2

(* The reporter's histogram counts the work in the critical section.       *)
LEMMA CollectKeepsIInv ==
  ASSUME IInv, TypeOK', NEW i \in Works, FinishCollect(i)
  PROVE  MutexOK' /\ CountsAreExact' /\ HistogramOK' /\ LatencyOK'
  <1> USE CollectorAssumption DEF IInv, TypeOK, ReporterTypeOK, FinishPcs, FinishCollect,
                                  CollectWorkResult, latencyVars, countVars, startVars
  <1>1. MutexOK'
    BY DEF MutexOK
  <1>2. Recorded' = Recorded /\ Started' = Started
    BY DEF Recorded, FinishedIn, Started
  <1>3. CountsAreExact'
    BY <1>2 DEF CountsAreExact
  <1>6. MaximumIsExact'
    BY <1>2 DEF LatencyOK, MaximumIsExact
  <1>7. MinimumIsExact'
    BY DEF LatencyOK, MinimumIsExact
  <1>4. HistogramOK'
    <2> SUFFICES ASSUME HasReporter, NEW b \in Buckets
                 PROVE  workBuckets'[b]
                          = Cardinality({j \in FinishedIn({"collected", "done"}) :
                                           Bucket(elapsed[j]) = b}')
      BY DEF HistogramOK
    <2> DEFINE Hit == {j \in FinishedIn({"collected", "done"}) : Bucket(elapsed[j]) = b}
    <2>1. Hit \in SUBSET Works /\ i \notin Hit /\ workBuckets[b] = Cardinality(Hit)
      BY DEF FinishedIn, HistogramOK
    <2>2. CASE Bucket(elapsed[i]) = b
      <3>1. Hit' = Hit \cup {i}
        BY <2>2 DEF FinishedIn, Bucket
      <3>2. workBuckets'[b] = workBuckets[b] + 1
        BY <2>2
      <3> HIDE DEF Hit
      <3>3. Cardinality(Hit \cup {i}) = Cardinality(Hit) + 1
        BY <2>1, OneMore
      <3> QED
        BY <2>1, <3>1, <3>2, <3>3 DEF Hit
    <2>3. CASE Bucket(elapsed[i]) # b
      <3>1. Hit' = Hit
        BY <2>3 DEF FinishedIn, Bucket
      <3> QED
        BY <2>1, <2>3, <3>1
    <2> QED
      BY <2>2, <2>3
  <1>5. RecordedTime' = RecordedTime
    BY DEF RecordedTime
  <1> QED
    BY <1>1, <1>2, <1>3, <1>4, <1>5, <1>6, <1>7 DEF LatencyOK

(* A duration that joins the sum keeps it above, or below, the count times *)
(* an extreme that is moved to the new duration if need be.                *)
LEMMA SumAtLeast ==
  ASSUME NEW n \in Nat, NEW t \in Nat, NEW e \in Nat, NEW lo \in Nat, NEW lo2 \in Nat,
         n * lo <= t, n > 0 => lo2 <= lo, lo2 <= e
  PROVE  (n + 1) * lo2 <= t + e
  <1>1. (n + 1) * lo2 = n * lo2 + lo2 /\ n * lo2 \in Nat /\ n * lo \in Nat
    OBVIOUS
  <1>2. CASE n = 0
    <2>1. n * lo2 = 0
      BY <1>2
    <2> QED
      BY <1>1, <2>1
  <1>3. CASE n > 0
    <2>1. n * lo2 <= n * lo
      BY <1>3, TimesMonotone
    <2> QED
      BY <1>1, <2>1
  <1> QED
    BY <1>2, <1>3

LEMMA SumAtMost ==
  ASSUME NEW n \in Nat, NEW t \in Nat, NEW e \in Nat, NEW hi \in Nat, NEW hi2 \in Nat,
         t <= n * hi, hi <= hi2, e <= hi2
  PROVE  t + e <= (n + 1) * hi2
  <1>1. (n + 1) * hi2 = n * hi2 + hi2 /\ n * hi2 \in Nat /\ n * hi \in Nat
    OBVIOUS
  <1>2. n * hi <= n * hi2
    BY TimesMonotone
  <1> QED
    BY <1>1, <1>2

(* Recording a work: one more in the counts, and extremes and average that *)
(* take in its duration.                                                   *)
LEMMA RecordKeepsIInv ==
  ASSUME IInv, TypeOK', NEW i \in Works, FinishRecord(i)
  PROVE  MutexOK' /\ CountsAreExact' /\ HistogramOK' /\ LatencyOK'
  <1> USE DEF IInv
  <1>1. /\ mtx = i /\ mtx' = NoWork /\ NoWork # i
        /\ i \notin Recorded /\ Recorded' = Recorded \cup {i}
        /\ FinishedIn({"collected", "done"})' = FinishedIn({"collected", "done"})
        /\ elapsed[i] \in Durations /\ elapsed[i] \in Nat
        /\ elapsed' = elapsed /\ good' = good /\ Started' = Started
        /\ totalExecTime' = totalExecTime
    <2>1. elapsed[i] \in Durations /\ mtx = i
      BY DEF FinishRecord, MutexOK
    <2>2. elapsed[i] \in Nat
      BY <2>1, ReporterAssumption
    <2>3. mtx' = NoWork /\ NoWork # i
      BY CollectorAssumption DEF FinishRecord
    <2>4. i \notin Recorded /\ Recorded' = Recorded \cup {i}
          /\ FinishedIn({"collected", "done"})' = FinishedIn({"collected", "done"})
      BY DEF FinishRecord, Recorded, FinishedIn, TypeOK
    <2>5. elapsed' = elapsed /\ good' = good /\ Started' = Started
          /\ totalExecTime' = totalExecTime
      BY DEF FinishRecord, startVars, Started
    <2> QED
      BY <2>1, <2>2, <2>3, <2>4, <2>5
  <1>2. MutexOK'
    BY CollectorAssumption DEF FinishRecord, MutexOK, TypeOK, FinishPcs
  <1>3. CountsAreExact'
    <2> DEFINE Good == {j \in Recorded : good[j]}
               Bad == {j \in Recorded : ~good[j]}
    <2>1. Good \in SUBSET Works /\ i \notin Good /\ Bad \in SUBSET Works /\ i \notin Bad
      BY <1>1 DEF Recorded, FinishedIn
    <2>2. Succeeded = Cardinality(Good) /\ Failed = Cardinality(Bad) /\ Total = Cardinality(Started)
      BY DEF CountsAreExact
    <2>3. Good' = (IF good[i] THEN Good \cup {i} ELSE Good)
      BY <1>1
    <2>4. Bad' = (IF good[i] THEN Bad ELSE Bad \cup {i})
      BY <1>1
    <2>5. Succeeded' = Cardinality(Good')
      <3> HIDE DEF Good
      <3> QED
        BY <2>1, <2>2, <2>3, OneMore DEF FinishRecord, CountResult
    <2>6. Failed' = Cardinality(Bad')
      <3> HIDE DEF Bad
      <3> QED
        BY <2>1, <2>2, <2>4, OneMore DEF FinishRecord, CountResult
    <2>7. Total' = Cardinality(Started')
      BY <1>1, <2>2 DEF FinishRecord, startVars
    <2> QED
      BY <2>5, <2>6, <2>7 DEF CountsAreExact
  <1>4. HistogramOK'
    <2>1. ASSUME NEW b \in Buckets
          PROVE  {j \in FinishedIn({"collected", "done"}) : Bucket(elapsed[j]) = b}'
                   = {j \in FinishedIn({"collected", "done"}) : Bucket(elapsed[j]) = b}
      BY <1>1 DEF Bucket
    <2>2. workBuckets' = workBuckets
      BY DEF FinishRecord, reporterVars
    <2> QED
      BY <2>1, <2>2 DEF HistogramOK
  <1>5. LatencyOK'
    <2> DEFINE n == Succeeded + Failed
               t == RecordedTime
               e == elapsed[i]
    <2>1. /\ n \in Nat /\ e \in Nat /\ t \in Nat
          /\ MinLatency \in Nat /\ MaxLatency \in Nat
          /\ MinLatency' \in Nat /\ MaxLatency' \in Nat
      BY <1>1 DEF TypeOK, LatencyOK
    <2>2. t + e = totalExecTime /\ RecordedTime' = totalExecTime
      BY <1>1, <2>1 DEF RecordedTime, TypeOK
    <2>3. Succeeded' + Failed' = n + 1
      BY DEF FinishRecord, CountResult, TypeOK
    <2>4. n = 0 <=> Recorded = {}
      BY CountOfRecorded
    <2>5. /\ MinLatency' = Shorter(e) /\ MaxLatency' = Longer(e)
          /\ AvgLatency' = totalExecTime \div (n + 1)
          /\ sinceZero' = IF e = 0 THEN {} ELSE sinceZero \cup {i}
      BY DEF FinishRecord
    <2>6. MaximumIsExact' /\ MaxLatency <= MaxLatency' /\ e <= MaxLatency'
      <3>1. MaxLatency <= MaxLatency' /\ e <= MaxLatency' /\ MaxLatency' \in {e, MaxLatency}
        BY <2>1, <2>5 DEF Longer
      <3>2. Recorded = {} => MaxLatency' = e
        BY <2>1, <2>5 DEF Longer, LatencyOK
      <3>3. ASSUME NEW j \in Recorded PROVE elapsed[j] <= MaxLatency'
        <4>1. elapsed[j] <= MaxLatency /\ elapsed[j] \in Nat
          BY ElapsedNat DEF LatencyOK, MaximumIsExact, Recorded, FinishedIn
        <4> QED
          BY <2>1, <3>1, <4>1
      <3>4. Recorded # {} => MaxLatency \in {elapsed[j] : j \in Recorded}
        BY DEF LatencyOK, MaximumIsExact
      <3>5. MaxLatency' \in {elapsed[j] : j \in Recorded \cup {i}}
        BY <3>1, <3>2, <3>4
      <3> QED
        BY <1>1, <3>1, <3>3, <3>5 DEF MaximumIsExact
    <2>7. /\ sinceZero' \subseteq Recorded'
          /\ \A j \in sinceZero' : elapsed'[j] > 0
      BY <1>1, <2>1, <2>5 DEF LatencyOK
    <2>8. sinceZero # {} => MinLatency > 0
      BY DEF LatencyOK, MinimumIsExact
    <2>9. MinimumIsExact' /\ MinLatency' <= e /\ (sinceZero # {} => MinLatency' <= MinLatency)
      <3>1. sinceZero = {} => MinLatency = 0
        BY DEF LatencyOK, MinimumIsExact
      <3>2. CASE e = 0
        <4>1. MinLatency' = 0 /\ sinceZero' = {}
          BY <2>1, <2>5, <3>2 DEF Shorter
        <4> QED
          BY <2>1, <4>1 DEF MinimumIsExact
      <3>3. CASE e # 0 /\ sinceZero = {}
        <4>1. MinLatency' = e /\ sinceZero' = {i}
          BY <2>5, <3>1, <3>3 DEF Shorter
        <4> QED
          BY <1>1, <2>1, <3>3, <4>1 DEF MinimumIsExact
      <3>4. CASE e # 0 /\ sinceZero # {}
        <4>1. sinceZero' = sinceZero \cup {i}
          BY <2>5, <3>4
        <4>2. MinLatency' <= e /\ MinLatency' <= MinLatency /\ MinLatency' \in {e, MinLatency}
          BY <2>1, <2>5, <2>8, <3>4 DEF Shorter
        <4>3. MinLatency \in {elapsed[j] : j \in sinceZero}
          BY <3>4 DEF LatencyOK, MinimumIsExact
        <4>4. ASSUME NEW j \in sinceZero PROVE MinLatency' <= elapsed[j]
          <5>1. MinLatency <= elapsed[j] /\ elapsed[j] \in Nat
            BY ElapsedNat DEF LatencyOK, MinimumIsExact, TypeOK
          <5> QED
            BY <2>1, <4>2, <5>1
        <4>5. MinLatency' \in {elapsed[j] : j \in sinceZero \cup {i}}
          BY <4>2, <4>3
        <4> QED
          BY <1>1, <4>1, <4>2, <4>4, <4>5 DEF MinimumIsExact
      <3> QED
        BY <3>2, <3>3, <3>4
    <2>10. t + e <= (n + 1) * MaxLatency'
      <3>1. t <= n * MaxLatency
        BY DEF LatencyOK
      <3> HIDE DEF n, t, e
      <3> QED
        BY <2>1, <2>6, <3>1, SumAtMost
    <2>11. sinceZero' = Recorded' => (n + 1) * MinLatency' <= t + e
      <3> SUFFICES ASSUME sinceZero' = Recorded' PROVE (n + 1) * MinLatency' <= t + e
        OBVIOUS
      <3>1. sinceZero = Recorded
        BY <1>1, <2>5 DEF LatencyOK
      <3>2. n * MinLatency <= t
        BY <3>1 DEF LatencyOK
      <3>3. n > 0 => MinLatency' <= MinLatency
        BY <2>1, <2>4, <2>9, <3>1
      <3> HIDE DEF n, t, e
      <3> QED
        BY <2>1, <2>9, <3>2, <3>3, SumAtLeast
    <2>12. /\ AvgLatency' <= MaxLatency'
           /\ sinceZero' = Recorded' => MinLatency' <= AvgLatency'
      <3>1. totalExecTime \in Nat /\ n + 1 \in Nat \ {0}
        BY <2>1 DEF TypeOK
      <3> HIDE DEF n, t, e
      <3> QED
        BY <2>1, <2>2, <2>5, <2>10, <2>11, <3>1, AverageAtLeast, AverageAtMost
    <2>13. Recorded' # {} /\ totalExecTime \in Nat
      BY <1>1 DEF TypeOK
    <2> HIDE DEF n, t, e
    <2> QED
      BY <2>2, <2>3, <2>6, <2>7, <2>9, <2>10, <2>11, <2>12, <2>13 DEF LatencyOK
  <1> QED
    BY <1>2, <1>3, <1>4, <1>5

-----------------------------------------------------------------------------
LEMMA InitIInv == Init => IInv
  <1> SUFFICES ASSUME Init PROVE IInv
    OBVIOUS
  <1> USE DEF Init, ReporterInit
  <1>1. TypeOK
    <2>1. shown \in Int /\ before \in [started : Nat, recorded : Nat]
      OBVIOUS
    <2> QED
      BY <2>1 DEF TypeOK, ReporterTypeOK, StartPcs, FinishPcs
  <1>2. Recorded = {} /\ Started = {} /\ FinishedIn({"collected", "done"}) = {}
    BY DEF Recorded, FinishedIn, Started
  <1>3. CountsAreExact /\ HistogramOK
    BY <1>2, FS_EmptySet DEF CountsAreExact, HistogramOK
  <1>4. MutexOK
    BY CollectorAssumption DEF MutexOK
  <1>5. LatencyOK
    BY <1>2 DEF LatencyOK, MaximumIsExact, MinimumIsExact, RecordedTime
  <1> QED
    BY <1>1, <1>3, <1>4, <1>5 DEF IInv

LEMMA NextIInv == IInv /\ [Next]_vars => IInv'
  <1> SUFFICES ASSUME IInv, [Next]_vars PROVE IInv'
    OBVIOUS
  <1>1. TypeOK'
    BY TypeStep DEF IInv
  <1>2. CASE OutsideStep
    BY <1>1, <1>2, OutsideKeepsIInv DEF IInv
  <1>3. ASSUME NEW i \in Works, FinishStep(i) PROVE IInv'
    BY <1>1, <1>3, LockKeepsIInv, CollectKeepsIInv, RecordKeepsIInv DEF FinishStep, IInv
  <1> QED
    BY <1>2, <1>3 DEF Next, OutsideStep

THEOREM InvariantHolds == Spec => []IInv
  BY InitIInv, NextIInv, PTL DEF Spec

-----------------------------------------------------------------------------
(* Every variable of the collector and the reporter keeps its type.        *)
THEOREM TypeCorrect == Spec => []TypeOK
  <1>1. IInv => TypeOK
    BY DEF IInv
  <1> QED
    BY <1>1, InvariantHolds, PTL

(* Mutual exclusion in onWorkFinish, and no lock is left behind: the mutex *)
(* is held exactly while a work is in the critical section, also while it  *)
(* waits there for the reporter's mutex.                                   *)
THEOREM MutualExclusion == Spec => []CriticalSection
  <1>1. IInv => CriticalSection
    BY DEF IInv, MutexOK, CriticalSection
  <1> QED
    BY <1>1, InvariantHolds, PTL

(* onWorkStart and onWorkFinish lose no update.                            *)
THEOREM CountsExact == Spec => []CountsAreExact
  <1>1. IInv => CountsAreExact
    BY DEF IInv
  <1> QED
    BY <1>1, InvariantHolds, PTL

(* onWorkFinish keeps the maximum and the average right, and the minimum   *)
(* that of the durations since the last one of zero, whatever the          *)
(* durations are and in whatever order they are recorded.                  *)
THEOREM LatenciesExact == Spec => []LatenciesAreExact
  <1>1. IInv => LatenciesAreExact
    BY DEF IInv, LatencyOK, LatenciesAreExact, LatenciesOrdered
  <1> QED
    BY <1>1, InvariantHolds, PTL

(* The reporter's histogram is that of the works handed over, bucket by    *)
(* bucket, across the two mutexes.                                         *)
THEOREM HistogramExact == Spec => []HistogramMatchesResult
  <1>1. IInv => HistogramMatchesResult
    BY DEF IInv, HistogramOK, HistogramMatchesResult
  <1> QED
    BY <1>1, InvariantHolds, PTL

-----------------------------------------------------------------------------
(* What the server has.  Its counts are never ahead of the histogram; a    *)
(* point that is still to be written has the count of the histogram, which *)
(* does not change under the mutex; a bucket without such a point is up to *)
(* date.                                                                   *)
ReportOK ==
  /\ \A b \in Buckets : stored[b] <= workBuckets[b]
  /\ \A p \in pts : rmtx /\ p[2] = workBuckets[p[1]]
  /\ rmtx => \A b \in Buckets : stored[b] = workBuckets[b] \/ \E p \in pts : p[1] = b

(* A point that is written is that of a bucket, and takes its count to the *)
(* one of the histogram.                                                   *)
LEMMA PointOfBucket ==
  ASSUME TypeOK, ReportOK, NEW p \in pts
  PROVE  /\ p[1] \in Buckets /\ p[2] = workBuckets[p[1]]
         /\ stored[p[1]] <= p[2]
  BY DEF TypeOK, ReporterTypeOK, ReportOK

LEMMA ReportStep == TypeOK /\ MutexOK /\ ReportOK /\ [Next]_vars => ReportOK'
  <1> SUFFICES ASSUME TypeOK, MutexOK, ReportOK, [Next]_vars PROVE ReportOK'
    OBVIOUS
  <1>1. CASE UNCHANGED reporterVars
    BY <1>1 DEF reporterVars, ReportOK, Buckets, Bucket
  <1>2. ASSUME NEW i \in Works, FinishCollect(i) PROVE ReportOK'
    <2>1. ~rmtx /\ UNCHANGED <<rmtx, pts, stored>>
      BY <1>2 DEF FinishCollect, CollectWorkResult
    <2>2. \A b \in Buckets : workBuckets[b] \in Nat /\ stored[b] \in Nat
                             /\ workBuckets'[b] \in {workBuckets[b], workBuckets[b] + 1}
      BY <1>2 DEF FinishCollect, CollectWorkResult, TypeOK, ReporterTypeOK
    <2> QED
      BY <2>1, <2>2 DEF ReportOK
  <1>3. CASE PublishBegin
    <2>1. UNCHANGED <<workBuckets, stored>> /\ rmtx'
      BY <1>3 DEF PublishBegin
    <2>2. \A b \in Buckets : stored[b] = workBuckets[b] \/ workBuckets[b] > 0
      BY DEF ReportOK, TypeOK, ReporterTypeOK
    <2>3. \A b \in Buckets : workBuckets[b] > 0 => <<b, workBuckets[b]>> \in pts'
      BY <1>3 DEF PublishBegin
    <2>4. \A p \in pts' : p[2] = workBuckets[p[1]]
      BY <1>3 DEF PublishBegin
    <2>5. \A b \in Buckets : stored[b] = workBuckets[b] \/ \E p \in pts' : p[1] = b
      BY <2>2, <2>3
    <2> QED
      BY <2>1, <2>4, <2>5 DEF ReportOK
  <1>4. ASSUME NEW p \in pts, WritePoint(p) PROVE ReportOK'
    <2>1. /\ p[1] \in Buckets /\ p[2] = workBuckets[p[1]]
          /\ UNCHANGED <<workBuckets, rmtx>> /\ rmtx /\ pts' = pts \ {p}
          /\ stored' = [stored EXCEPT ![p[1]] = p[2]]
      BY <1>4, PointOfBucket DEF WritePoint
    <2>2. \A b \in Buckets : stored'[b] = (IF b = p[1] THEN p[2] ELSE stored[b])
      BY <2>1 DEF TypeOK, ReporterTypeOK
    <2>3. \A b \in Buckets : stored'[b] <= workBuckets[b]
      BY <2>1, <2>2 DEF ReportOK, TypeOK, ReporterTypeOK
    <2>4. \A b \in Buckets : stored'[b] = workBuckets[b] \/ \E q \in pts' : q[1] = b
      BY <2>1, <2>2 DEF ReportOK
    <2> QED
      BY <2>1, <2>3, <2>4 DEF ReportOK
  <1>5. CASE WritePointFails \/ Flush
    BY <1>5 DEF WritePointFails, Flush, ReportOK
  <1> QED
    BY <1>1, <1>2, <1>3, <1>4, <1>5
       DEF Next, InitBenchmarkResult, SpawnStart, SpawnFinish, AddTotal, FinishStep,
           FinishLock, FinishRecord, PrintStep, ReadCounter, PrintAndPublish,
           MonitorPublishStep, PublishStep, vars

(* The server has the histogram of one moment when a report is complete.   *)
THEOREM ReportOfOneMoment == Spec => []ReportIsOneMoment
  <1>1. Init => ReportOK
    BY DEF Init, ReporterInit, ReportOK
  <1>2. IInv /\ ReportOK /\ [Next]_vars => ReportOK'
    BY ReportStep DEF IInv
  <1>3. IInv /\ ReportOK => ReportIsOneMoment
    <2> SUFFICES ASSUME TypeOK, ReportOK, rmtx, pts = {} PROVE stored = workBuckets
      BY DEF IInv, ReportIsOneMoment
    <2>1. \A b \in Buckets : stored[b] = workBuckets[b]
      BY DEF ReportOK
    <2> QED
      BY <2>1 DEF TypeOK, ReporterTypeOK
  <1> QED
    BY <1>1, <1>2, <1>3, InvariantHolds, PTL DEF Spec

(* No write takes a bucket of the server back.                             *)
THEOREM StoredMonotone == Spec => StoredNeverFalls
  <1> DEFINE Rises == \A b \in Buckets : stored'[b] >= stored[b]
  <1>1. Init => ReportOK
    BY DEF Init, ReporterInit, ReportOK
  <1>2. IInv /\ ReportOK /\ [Next]_vars => ReportOK'
    BY ReportStep DEF IInv
  <1>3. IInv /\ ReportOK /\ [Next]_vars => [Rises]_stored
    <2> SUFFICES ASSUME TypeOK, ReportOK, [Next]_vars, stored' # stored PROVE Rises
      BY DEF IInv
    <2>1. PICK p \in pts : WritePoint(p)
      BY DEF Next, InitBenchmarkResult, SpawnStart, SpawnFinish, AddTotal, FinishStep,
             FinishLock, FinishCollect, CollectWorkResult, FinishRecord, PrintStep,
             ReadCounter, PrintAndPublish, PublishBegin, MonitorPublishStep, PublishStep,
             WritePointFails, Flush, vars, reporterVars
    <2>2. /\ p[1] \in Buckets /\ stored[p[1]] <= p[2] /\ p[2] = workBuckets[p[1]]
          /\ stored' = [stored EXCEPT ![p[1]] = p[2]]
      BY <2>1, PointOfBucket DEF WritePoint
    <2> QED
      BY <2>2 DEF TypeOK, ReporterTypeOK
  <1>4. Spec => [][Rises]_stored
    <2> HIDE DEF Rises
    <2> QED
      BY <1>1, <1>2, <1>3, InvariantHolds, PTL DEF Spec
  <1> QED
    BY <1>4 DEF StoredNeverFalls

-----------------------------------------------------------------------------
(* What printStatus has of the counters.  t, s and f are what Total,       *)
(* Succeeded and Failed were when it read the first of the three; a counter *)
(* which it has read was between what it was then and what it is now.       *)
AsRead(c, n) == IF c \in unread THEN 0 ELSE n

ShownWithin(t, s, f) ==
  /\ t <= Total /\ s <= Succeeded /\ f <= Failed
  /\ t = before.started /\ s + f = before.recorded
  /\ AsRead("Total", t) - AsRead("Succeeded", Succeeded) - AsRead("Failed", Failed) <= shown
  /\ shown <= AsRead("Total", Total) - AsRead("Succeeded", s) - AsRead("Failed", f)

PrintOK ==
  /\ unread = Counters => shown = 0 /\ before = [started |-> 0, recorded |-> 0]
  /\ \E t, s, f \in Nat : ShownWithin(t, s, f)

(* A counter that is read keeps the difference within its bounds.          *)
LEMMA ReadKeepsWithin ==
  ASSUME TypeOK, NEW c \in Counters, ReadCounter(c),
         NEW t \in Nat, NEW s \in Nat, NEW f \in Nat,
         t <= Total, s <= Succeeded, f <= Failed,
         t = before'.started, s + f = before'.recorded,
         AsRead("Total", t) - AsRead("Succeeded", Succeeded) - AsRead("Failed", Failed) <= shown,
         shown <= AsRead("Total", Total) - AsRead("Succeeded", s) - AsRead("Failed", f)
  PROVE  ShownWithin(t, s, f)'
  <1> USE DEF TypeOK, ReadCounter, Operand, workVars, startVars, finishVars, countVars
  <1>1. CASE c = "Total"
    BY <1>1 DEF ShownWithin, AsRead
  <1>2. CASE c = "Succeeded"
    BY <1>2 DEF ShownWithin, AsRead
  <1>3. CASE c = "Failed"
    BY <1>3 DEF ShownWithin, AsRead
  <1> QED
    BY <1>1, <1>2, <1>3 DEF Counters

LEMMA PrintInvStep == IInv /\ PrintOK /\ [Next]_vars => PrintOK'
  <1> SUFFICES ASSUME IInv, PrintOK, [Next]_vars PROVE PrintOK'
    OBVIOUS
  <1>1. TypeOK /\ TypeOK'
    BY TypeStep DEF IInv
  <1>2. CASE UNCHANGED monitorVars
    <2>1. Total <= Total' /\ Succeeded <= Succeeded' /\ Failed <= Failed'
      BY <1>1, <1>2
         DEF Next, InitBenchmarkResult, SpawnStart, SpawnFinish, AddTotal, FinishStep, FinishLock,
             FinishCollect, FinishRecord, CountResult, PrintStep, ReadCounter, PrintAndPublish,
             MonitorPublishStep, vars, workVars, startVars, finishVars, countVars, TypeOK
    <2>2. PICK t \in Nat, s \in Nat, f \in Nat : ShownWithin(t, s, f)
      BY DEF PrintOK
    <2>3. unread' = unread /\ shown' = shown /\ before' = before /\ shown \in Int
          /\ Total \in Nat /\ Succeeded \in Nat /\ Failed \in Nat
          /\ Total' \in Nat /\ Succeeded' \in Nat /\ Failed' \in Nat
      BY <1>1, <1>2 DEF monitorVars, TypeOK
    <2>4. /\ AsRead("Total", t)' = AsRead("Total", t)
          /\ AsRead("Succeeded", s)' = AsRead("Succeeded", s)
          /\ AsRead("Failed", f)' = AsRead("Failed", f)
          /\ AsRead("Total", t) \in Nat /\ AsRead("Succeeded", s) \in Nat
          /\ AsRead("Failed", f) \in Nat
      BY <2>3 DEF AsRead
    <2>5. /\ AsRead("Total", Total) <= AsRead("Total", Total)'
          /\ AsRead("Succeeded", Succeeded) <= AsRead("Succeeded", Succeeded)'
          /\ AsRead("Failed", Failed) <= AsRead("Failed", Failed)'
          /\ AsRead("Total", Total) \in Nat /\ AsRead("Succeeded", Succeeded) \in Nat
          /\ AsRead("Failed", Failed) \in Nat /\ AsRead("Total", Total)' \in Nat
          /\ AsRead("Succeeded", Succeeded)' \in Nat /\ AsRead("Failed", Failed)' \in Nat
      BY <2>1, <2>3 DEF AsRead
    <2>6. ShownWithin(t, s, f)'
      BY <2>1, <2>2, <2>3, <2>4, <2>5 DEF ShownWithin
    <2> QED
      BY <2>3, <2>6 DEF PrintOK
  <1>3. ASSUME NEW c \in Counters, ReadCounter(c) PROVE PrintOK'
    <2>1. unread' # Counters
      BY <1>3 DEF ReadCounter
    <2>2. CASE unread = Counters
      <3>1. /\ Total \in Nat /\ Succeeded \in Nat /\ Failed \in Nat /\ shown = 0
            /\ before'.started = Total /\ before'.recorded = Succeeded + Failed
        <4>1. before' = [started |-> Cardinality(Started), recorded |-> Cardinality(Recorded)]
              /\ shown = 0
          BY <1>3, <2>2 DEF ReadCounter, PrintOK
        <4>2. Cardinality(Started) = Total /\ Cardinality(Recorded) = Succeeded + Failed
          BY CountOfRecorded DEF IInv, CountsAreExact
        <4> QED
          BY <1>1, <4>1, <4>2 DEF TypeOK
      <3>2. PICK t \in Nat, s \in Nat, f \in Nat : t = Total /\ s = Succeeded /\ f = Failed
        BY <3>1
      <3>3. \A c2 \in Counters : \A n \in Nat : AsRead(c2, n) = 0
        BY <2>2 DEF AsRead
      <3>4. AsRead("Total", Total) = 0 /\ AsRead("Succeeded", Succeeded) = 0
            /\ AsRead("Failed", Failed) = 0
            /\ AsRead("Total", t) = 0 /\ AsRead("Succeeded", s) = 0 /\ AsRead("Failed", f) = 0
        BY <3>1, <3>3 DEF Counters
      <3>5. ShownWithin(t, s, f)'
        BY <1>1, <1>3, <3>1, <3>2, <3>4, ReadKeepsWithin
      <3> QED
        BY <2>1, <3>5 DEF PrintOK
    <2>3. CASE unread # Counters
      <3>1. PICK t \in Nat, s \in Nat, f \in Nat : ShownWithin(t, s, f)
        BY DEF PrintOK
      <3>2. before' = before
        BY <1>3, <2>3 DEF ReadCounter
      <3>3. ShownWithin(t, s, f)'
        BY <1>1, <1>3, <3>1, <3>2, ReadKeepsWithin DEF ShownWithin
      <3> QED
        BY <2>1, <3>3 DEF PrintOK
    <2> QED
      BY <2>2, <2>3
  <1>4. CASE PrintAndPublish
    <2>1. unread' = Counters /\ shown' = 0 /\ before' = [started |-> 0, recorded |-> 0]
      BY <1>4 DEF PrintAndPublish
    <2>2. Total' \in Nat /\ Succeeded' \in Nat /\ Failed' \in Nat
      BY <1>1 DEF TypeOK
    <2>3. ShownWithin(0, 0, 0)'
      BY <2>1, <2>2 DEF ShownWithin, AsRead, Counters
    <2> QED
      BY <2>1, <2>3 DEF PrintOK
  <1>5. UNCHANGED monitorVars \/ PrintStep
    BY DEF Next, InitBenchmarkResult, SpawnStart, SpawnFinish, AddTotal, FinishStep, FinishLock,
           FinishCollect, FinishRecord, MonitorPublishStep, vars
  <1> QED
    BY <1>2, <1>3, <1>4, <1>5 DEF PrintStep

(* The number printed for "Working:" is the works in progress give or take *)
(* those counted or recorded while printStatus read its counters, modulo   *)
(* 2^64, whatever the order of its reads.                                  *)
THEOREM WorkingBracketed == Spec => []WorkingIsBracketed
  <1>1. Init => PrintOK
    BY DEF Init, PrintOK, ShownWithin, AsRead, Counters
  <1>2. IInv /\ PrintOK => WorkingIsBracketed
    <2> SUFFICES ASSUME IInv, PrintOK, unread = {}
                 PROVE  \E n \in (before.started - Cardinality(Recorded))
                                   ..(Cardinality(Started) - before.recorded) :
                          Working = n % U64
      BY DEF WorkingIsBracketed
    <2>1. PICK t \in Nat, s \in Nat, f \in Nat : ShownWithin(t, s, f)
      BY DEF PrintOK
    <2>2. Total = Cardinality(Started) /\ Succeeded + Failed = Cardinality(Recorded)
      BY CountOfRecorded DEF IInv, CountsAreExact
    <2>3. /\ Total \in Nat /\ Succeeded \in Nat /\ Failed \in Nat /\ shown \in Int
          /\ t - Succeeded - Failed <= shown /\ shown <= Total - s - f
          /\ t = before.started /\ s + f = before.recorded
      BY <2>1 DEF ShownWithin, AsRead, IInv, TypeOK
    <2>4. shown \in (before.started - Cardinality(Recorded))
                      ..(Cardinality(Started) - before.recorded)
      BY <2>2, <2>3
    <2> QED
      BY <2>4 DEF Working
  <1> QED
    BY <1>1, <1>2, PrintInvStep, InvariantHolds, PTL DEF Spec
=============================================================================
