------------------------- MODULE BenchmarkSystemProofs -------------------------
(***************************************************************************)
(* The system of the engine and its collector is an engine, and is a       *)
(* collector: each of its steps is one of Engine or leaves it alone, and   *)
(* one of ResultCollector or leaves it alone.  So all that was proved of   *)
(* the two holds of the system, and an invariant between them (LinkOK)     *)
(* gives what neither of them can say alone: that the result is there      *)
(* before it is used, and accounts for every work at the end.              *)
(***************************************************************************)
EXTENDS BenchmarkSystem, EngineProofs

Coll == INSTANCE ResultCollectorProofs

(* The result exists from when works are produced.  Works are reported as  *)
(* started when they are taken, and as finished when they are concluded,   *)
(* with an error or without, as doWork returned.                           *)
LinkOK ==
  /\ ready <=> pc \notin Spawning \cup {"warm"}
  /\ \A i \in Works : startPc[i] # "none" <=> i < Taken
  /\ \A i \in Works : finishPc[i] # "none" <=> verdict[i] # "none"
  /\ \A i \in Works : finishPc[i] # "none" => (good[i] <=> verdict[i] = "nil")
  /\ proc = "exited" => pc = "done"

SysInv == IInv /\ Coll!IInv /\ LinkOK

-----------------------------------------------------------------------------
(* What the proofs of the collector assume of its constants; its notion of *)
(* a finite set and its number of elements is the one used here.           *)
LEMMA CollSameSets ==
  ASSUME NEW S
  PROVE  /\ Coll!IsFiniteSet(S) <=> IsFiniteSet(S)
         /\ Coll!Cardinality(S) = Cardinality(S) /\ RC!Cardinality(S) = Cardinality(S)
BY DEF Coll!IsFiniteSet, Coll!Cardinality, RC!Cardinality, IsFiniteSet, Cardinality

LEMMA CollAssumptions ==
  /\ Durations \in SUBSET Nat /\ BucketWidth \in Nat \ {0}
  /\ Coll!IsFiniteSet(Works) /\ HasReporter \in BOOLEAN
  /\ NoWork \notin Works /\ U64 \in Nat \ {0}
<1>1. IsFiniteSet(Works)
  BY WorkersFinite, FS_Interval DEF Works
<1> QED BY <1>1, SystemAssumption, CollSameSets

-----------------------------------------------------------------------------
(* The steps of the two components within a step of the system.            *)
LEMMA EnginePart ==
  ASSUME [SysNext]_sysVars
  PROVE  [Next]_vars
<1>1. CASE proc = "up" /\ EngineStep
  <2>1. CASE StartWithResult
    BY <1>1, <2>1 DEF StartWithResult, Next, Step, MainStep
  <2>2. ASSUME NEW w \in Workers, TakeAndReport(w) PROVE Next
    BY <1>1, <2>2 DEF TakeAndReport, Next, Step, WorkerStep
  <2>3. ASSUME NEW w \in Workers, ConcludeAndReport(w) PROVE Next
    BY <1>1, <2>3 DEF ConcludeAndReport, Next, Step, WorkerStep, Concludes
  <2>4. CASE \/ PlainMainStep \/ DeadlinePasses \/ TestcaseFatal
             \/ \E w \in Workers : PlainWorkerStep(w)
    BY <1>1, <2>4 DEF Next, Step, MainStep, WorkerStep
  <2> QED BY <1>1, <2>1, <2>2, <2>3, <2>4 DEF EngineStep
<1>2. CASE CollectorStep \/ SysStopped \/ UNCHANGED sysVars
  BY <1>2 DEF CollectorStep, SysStopped, sysVars
<1> QED BY <1>1, <1>2 DEF SysNext

LEMMA CollAddTotal ==
  ASSUME NEW i \in Works, RC!AddTotal(i)
  PROVE  Coll!AddTotal(i)
BY DEF RC!AddTotal, RC!finishVars, RC!countVars, RC!latencyVars, RC!monitorVars,
       RC!reporterVars,
       Coll!AddTotal, Coll!finishVars, Coll!countVars, Coll!latencyVars, Coll!monitorVars,
       Coll!reporterVars

LEMMA CollFinishStep ==
  ASSUME NEW i \in Works, RC!FinishStep(i)
  PROVE  Coll!FinishStep(i)
<1> USE DEF RC!startVars, RC!countVars, RC!latencyVars, RC!monitorVars, RC!reporterVars,
            Coll!startVars, Coll!countVars, Coll!latencyVars, Coll!monitorVars,
            Coll!reporterVars
<1>1. CASE RC!FinishLock(i)
  BY <1>1 DEF RC!FinishLock, Coll!FinishLock, Coll!FinishStep
<1>2. CASE RC!FinishCollect(i)
  BY <1>2 DEF RC!FinishCollect, RC!CollectWorkResult, RC!Bucket, Coll!FinishCollect,
              Coll!CollectWorkResult, Coll!Bucket, Coll!FinishStep
<1>3. CASE RC!FinishRecord(i)
  BY <1>3 DEF RC!FinishRecord, RC!CountResult, RC!Longer, RC!Shorter, Coll!FinishRecord,
              Coll!CountResult, Coll!Longer, Coll!Shorter, Coll!FinishStep
<1> QED BY <1>1, <1>2, <1>3 DEF RC!FinishStep

LEMMA CollMonitorStep ==
  ASSUME RC!PrintStep \/ RC!MonitorPublishStep
  PROVE  Coll!PrintStep \/ Coll!MonitorPublishStep
<1> USE DEF RC!workVars, RC!startVars, RC!finishVars, RC!countVars, RC!latencyVars,
            RC!monitorVars, RC!reporterVars,
            Coll!workVars, Coll!startVars, Coll!finishVars, Coll!countVars,
            Coll!latencyVars, Coll!monitorVars, Coll!reporterVars,
            RC!Counters, Coll!Counters, RC!Buckets, RC!Bucket, Coll!Buckets, Coll!Bucket
<1>1. ASSUME NEW c \in RC!Counters, RC!ReadCounter(c) PROVE Coll!PrintStep
  <2>1. /\ RC!Cardinality(RC!Started) = Coll!Cardinality(Coll!Started)
        /\ RC!Cardinality(RC!Recorded) = Coll!Cardinality(Coll!Recorded)
    <3>1. RC!Started = Coll!Started /\ RC!Recorded = Coll!Recorded
      BY DEF RC!Started, RC!Recorded, RC!FinishedIn, Coll!Started, Coll!Recorded,
             Coll!FinishedIn
    <3> QED BY <3>1, CollSameSets
  <2>2. Coll!ReadCounter(c)
    BY <1>1, <2>1 DEF RC!ReadCounter, RC!Operand, Coll!ReadCounter, Coll!Operand
  <2> QED BY <1>1, <2>2 DEF Coll!PrintStep
<1>2. CASE RC!PrintAndPublish
  <2>1. Coll!PrintAndPublish
    BY <1>2 DEF RC!PrintAndPublish, RC!PublishBegin, Coll!PrintAndPublish, Coll!PublishBegin
  <2> QED BY <2>1 DEF Coll!PrintStep
<1>3. CASE RC!MonitorPublishStep
  BY <1>3 DEF RC!MonitorPublishStep, RC!PublishStep, RC!WritePoint, RC!WritePointFails,
              RC!Flush, Coll!MonitorPublishStep, Coll!PublishStep, Coll!WritePoint,
              Coll!WritePointFails, Coll!Flush
<1> QED BY <1>1, <1>2, <1>3 DEF RC!PrintStep

LEMMA CollEngineStep ==
  ASSUME RC!InitBenchmarkResult
         \/ (\E i \in Works : RC!SpawnStart(i))
         \/ (\E i \in Works, e \in Durations, ok \in BOOLEAN : RC!SpawnFinish(i, e, ok))
  PROVE  Coll!Next
<1> USE DEF RC!startVars, RC!finishVars, RC!countVars, RC!latencyVars, RC!monitorVars,
            RC!reporterVars, Coll!startVars, Coll!finishVars, Coll!countVars,
            Coll!latencyVars, Coll!monitorVars, Coll!reporterVars
<1>1. CASE RC!InitBenchmarkResult
  BY <1>1 DEF RC!InitBenchmarkResult, Coll!InitBenchmarkResult, Coll!Next
<1>2. ASSUME NEW i \in Works, RC!SpawnStart(i) PROVE Coll!Next
  BY <1>2 DEF RC!SpawnStart, Coll!SpawnStart, Coll!Next
<1>3. ASSUME NEW i \in Works, NEW e \in Durations, NEW ok \in BOOLEAN,
             RC!SpawnFinish(i, e, ok)
      PROVE  Coll!Next
  <2>1. Coll!SpawnFinish(i, e, ok)
    BY <1>3 DEF RC!SpawnFinish, Coll!SpawnFinish
  <2> QED BY <2>1 DEF Coll!Next
<1> QED BY <1>1, <1>2, <1>3

(* What is reported at a step of the engine: a work that was in the        *)
(* channel, or the work of a worker.                                       *)
LEMMA ReportedWork ==
  ASSUME IInv, NEW w \in Workers
  PROVE  /\ TakeWork(w) => Head(workCh) = Taken /\ Taken \in Works /\ Taken' = Taken + 1
         /\ cur[w] \in Works
<1>1. cur[w] \in Works
  BY DEF IInv, TypeOK
<1>2. ASSUME TakeWork(w) PROVE Head(workCh) = Taken /\ Taken \in Works /\ Taken' = Taken + 1
  <2>1. workCh # <<>> /\ workCh' = Tail(workCh) /\ nextIdx' = nextIdx
    BY <1>2 DEF TakeWork, mainVars
  <2>2. Head(workCh) = Taken /\ Taken \in Works /\ Len(workCh') = Len(workCh) - 1
    BY <2>1, HeadIsTaken DEF IInv
  <2>3. nextIdx \in Nat /\ Len(workCh) \in Nat
    BY DEF IInv, TypeOK
  <2>4. Taken' = Taken + 1
    BY <2>1, <2>2, <2>3 DEF Taken
  <2> QED BY <2>2, <2>4
<1> QED BY <1>1, <1>2

LEMMA CollPart ==
  ASSUME IInv, [SysNext]_sysVars
  PROVE  [Coll!Next]_(Coll!vars)
<1> USE DEF resultVars, Coll!vars, Coll!workVars, Coll!startVars, Coll!finishVars,
            Coll!countVars, Coll!latencyVars, Coll!monitorVars, Coll!reporterVars
<1>1. CASE StartWithResult
  BY <1>1, CollEngineStep DEF StartWithResult
<1>2. ASSUME NEW w \in Workers, TakeAndReport(w) PROVE Coll!Next
  <2>1. Head(workCh) \in Works /\ RC!SpawnStart(Head(workCh))
    BY <1>2, ReportedWork DEF TakeAndReport
  <2> QED BY <2>1, CollEngineStep
<1>3. ASSUME NEW w \in Workers, ConcludeAndReport(w) PROVE Coll!Next
  <2>1. \E e \in Durations, ok \in BOOLEAN : RC!SpawnFinish(cur[w], e, ok)
    BY <1>3 DEF ConcludeAndReport
  <2>2. cur[w] \in Works
    BY ReportedWork
  <2> QED BY <2>1, <2>2, CollEngineStep
<1>4. CASE CollectorStep
  <2>1. CASE \E i \in Works : RC!AddTotal(i) \/ RC!FinishStep(i)
    BY <2>1, CollAddTotal, CollFinishStep DEF Coll!Next
  <2>2. CASE RC!PrintStep \/ RC!MonitorPublishStep
    BY <2>2, CollMonitorStep DEF Coll!Next
  <2> QED BY <1>4, <2>1, <2>2 DEF CollectorStep
<1>5. CASE UNCHANGED resultVars
  BY <1>5
<1> QED
  BY <1>1, <1>2, <1>3, <1>4, <1>5 DEF SysNext, EngineStep, SysStopped, sysVars

-----------------------------------------------------------------------------
LEMMA LinkInit == SysInit => LinkOK
<1> SUFFICES ASSUME SysInit PROVE LinkOK
  OBVIOUS
<1>1. /\ pc = "dial" /\ proc = "up" /\ verdict = [i \in Works |-> "none"]
      /\ ready = FALSE /\ startPc = [i \in Works |-> "none"]
      /\ finishPc = [i \in Works |-> "none"]
  BY DEF SysInit, Init, RC!Init
<1>2. Taken = 0 /\ \A i \in Works : ~(i < 0)
  <2>1. nextIdx = 0 /\ Len(workCh) = 0
    BY DEF SysInit, Init
  <2> QED BY <2>1, WorkersFinite DEF Taken, Works
<1> QED BY <1>1, <1>2 DEF LinkOK, Spawning

(* Steps of the collector alone keep a started goroutine started.          *)
LEMMA CollectorKeeps ==
  ASSUME Coll!IInv, CollectorStep
  PROVE  /\ UNCHANGED <<ready, vars>>
         /\ \A i \in Works : startPc'[i] # "none" <=> startPc[i] # "none"
         /\ \A i \in Works : finishPc'[i] # "none" <=> finishPc[i] # "none"
         /\ good' = good
<1> USE DEF RC!finishVars, RC!countVars, RC!latencyVars, RC!reporterVars, RC!startVars,
            RC!workVars
<1>0. /\ startPc \in [Works -> {"none", "spawned", "added"}]
      /\ finishPc \in [Works -> {"none", "spawned", "locked", "collected", "done"}]
      /\ UNCHANGED vars
  BY DEF Coll!IInv, Coll!TypeOK, Coll!StartPcs, Coll!FinishPcs, CollectorStep
<1>1. ASSUME NEW i \in Works, RC!AddTotal(i)
      PROVE  /\ UNCHANGED <<ready, finishPc, good>>
             /\ \A j \in Works : startPc'[j] # "none" <=> startPc[j] # "none"
  BY <1>0, <1>1 DEF RC!AddTotal
<1>2. ASSUME NEW i \in Works, RC!FinishStep(i)
      PROVE  /\ UNCHANGED <<ready, startPc, good>>
             /\ \A j \in Works : finishPc'[j] # "none" <=> finishPc[j] # "none"
  BY <1>0, <1>2 DEF RC!FinishStep, RC!FinishLock, RC!FinishCollect, RC!FinishRecord
<1>3. CASE RC!PrintStep \/ RC!MonitorPublishStep
  BY <1>0, <1>3 DEF RC!PrintStep, RC!ReadCounter, RC!PrintAndPublish, RC!MonitorPublishStep
<1> QED BY <1>0, <1>1, <1>2, <1>3 DEF CollectorStep

LEMMA LinkStep ==
  ASSUME SysInv, [SysNext]_sysVars
  PROVE  LinkOK'
<1> USE DEF SysInv
<1>0. /\ startPc \in [Works -> {"none", "spawned", "added"}]
      /\ finishPc \in [Works -> {"none", "spawned", "locked", "collected", "done"}]
      /\ verdict \in [Works -> {"none", "nil", "error", "timeout"}]
      /\ Taken \in Nat /\ Works \subseteq Nat
      /\ good \in [Works -> BOOLEAN]
  BY DEF Coll!IInv, Coll!TypeOK, Coll!StartPcs, Coll!FinishPcs, IInv, TypeOK, QueueOK, Taken,
         Works
<1>1. CASE StartWithResult
  <2>1. /\ pc = "warm" /\ pc' = "send" /\ ready' = TRUE
        /\ UNCHANGED <<proc, workCh, nextIdx, verdict>>
    BY <1>1 DEF StartWithResult, StartProducing, GoTo, RC!InitBenchmarkResult, workerVars
  <2>2. UNCHANGED <<startPc, finishPc, good>>
    BY <1>1 DEF StartWithResult, RC!InitBenchmarkResult, RC!startVars
  <2> QED BY <2>1, <2>2 DEF LinkOK, Spawning, Taken
<1>2. ASSUME NEW w \in Workers, TakeAndReport(w) PROVE LinkOK'
  <2>1. /\ startPc' = [startPc EXCEPT ![Taken] = "spawned"]
        /\ Taken' = Taken + 1 /\ Taken \in Works
        /\ UNCHANGED <<proc, pc, verdict>>
    BY <1>2, ReportedWork DEF TakeAndReport, TakeWork, RC!SpawnStart, mainVars
  <2>2. UNCHANGED <<ready, finishPc, good>>
    BY <1>2 DEF TakeAndReport, RC!SpawnStart, RC!finishVars
  <2>3. \A i \in Works : startPc'[i] # "none" <=> i < Taken + 1
    BY <1>0, <2>1 DEF LinkOK
  <2> QED BY <2>1, <2>2, <2>3 DEF LinkOK
<1>3. ASSUME NEW w \in Workers, ConcludeAndReport(w) PROVE LinkOK'
  <2>1. PICK err \in {"nil", "error", "timeout"}, e \in Durations :
          Conclude(w, err) /\ RC!SpawnFinish(cur[w], e, err = "nil")
    BY <1>0, <1>3 DEF ConcludeAndReport, ReturnAnswer, ReturnTimeout, Conclude, WorkerGoTo, IInv,
                      TypeOK, PlaceOK
  <2>2. /\ verdict' = [verdict EXCEPT ![cur[w]] = err] /\ cur[w] \in Works
        /\ UNCHANGED <<proc, pc, workCh, nextIdx>>
    BY <2>1, ReportedWork DEF Conclude, mainVars
  <2>3. /\ finishPc' = [finishPc EXCEPT ![cur[w]] = "spawned"]
        /\ good' = [good EXCEPT ![cur[w]] = err = "nil"]
        /\ UNCHANGED <<ready, startPc>>
    BY <2>1 DEF RC!SpawnFinish, RC!startVars
  <2> QED BY <1>0, <2>2, <2>3 DEF LinkOK, Taken
<1>4. CASE CollectorStep
  <2>1. UNCHANGED <<pc, proc, workCh, nextIdx, verdict>>
    BY <1>4 DEF CollectorStep, vars, engineVars, mainVars, workerVars
  <2> QED BY <1>4, <2>1, CollectorKeeps DEF LinkOK, Taken
<1>5. CASE proc = "up" /\ UNCHANGED resultVars
            /\ \/ PlainMainStep \/ DeadlinePasses \/ TestcaseFatal
               \/ \E w \in Workers : PlainWorkerStep(w)
  <2>1. /\ UNCHANGED <<ready, startPc, finishPc, good, verdict>>
        /\ proc' = "exited" => pc' = "done"
        /\ pc \notin Spawning \cup {"warm"} <=> pc' \notin Spawning \cup {"warm"}
        /\ (workCh' = workCh /\ nextIdx' = nextIdx) \/ Send
    <3>1. UNCHANGED <<ready, startPc, finishPc, good>>
      BY <1>5 DEF resultVars
    <3>2. CASE PlainMainStep
      BY <1>5, <3>1, <3>2
         DEF PlainMainStep, Dial, Prepair, AddWorker, OccupySlot, GoConsume, WarmUp, Send,
             SendAnother, CloseWorkCh, BeginWait, EndWait, Return, GoTo, Spawning, workerVars
    <3>3. CASE DeadlinePasses \/ TestcaseFatal
      BY <1>5, <3>1, <3>3 DEF DeadlinePasses, TestcaseFatal, mainVars, workerVars
    <3>4. ASSUME NEW w \in Workers, PlainWorkerStep(w)
          PROVE  UNCHANGED <<verdict, pc, workCh, nextIdx>> /\ proc' # "exited"
      BY <1>5, <3>4 DEF PlainWorkerStep, CreateWorker, NoClientPanic, CtxExpires, Answers,
                        DoWorkReturns, Leave, Gone, mainVars, workerVars
    <3> QED BY <1>5, <3>1, <3>2, <3>3, <3>4
  <2>2. Taken' = Taken
    <3>1. CASE Send
      <4>1. workCh \in Seq(Works) /\ nextIdx \in Works
        BY <3>1, WorkersFinite DEF Send, GoTo, IInv, TypeOK, MainOK, Works
      <4>2. Len(workCh') = Len(workCh) + 1 /\ nextIdx' = nextIdx + 1 /\ Len(workCh) \in Nat
        BY <3>1, <4>1, AppendProperties DEF Send
      <4> QED BY <1>0, <4>1, <4>2 DEF Taken, Works
    <3> QED BY <2>1, <3>1 DEF Taken
  <2> QED BY <2>1, <2>2 DEF LinkOK
<1>6. CASE SysStopped \/ UNCHANGED sysVars
  <2>1. UNCHANGED <<pc, proc, workCh, nextIdx, verdict, ready, startPc, finishPc, good>>
    BY <1>6 DEF SysStopped, sysVars, resultVars, vars, engineVars, mainVars, workerVars
  <2> QED BY <2>1 DEF LinkOK, Taken
<1> QED
  BY <1>1, <1>2, <1>3, <1>4, <1>5, <1>6 DEF SysNext, EngineStep

LEMMA SysInvInit == SysInit => SysInv
<1>1. Init => IInv
  BY InitIInv
<1>2. SysInit => Coll!IInv
  <2>1. SysInit => Coll!Init
    BY DEF SysInit, RC!Init, RC!ReporterInit, RC!Buckets, RC!Bucket, Coll!Init,
           Coll!ReporterInit, Coll!Buckets, Coll!Bucket, RC!Counters, Coll!Counters
  <2> QED BY <2>1, CollAssumptions, Coll!InitIInv
<1> QED BY <1>1, <1>2, LinkInit DEF SysInit, SysInv

LEMMA SysInvStep == SysInv /\ [SysNext]_sysVars => SysInv'
<1> SUFFICES ASSUME SysInv, [SysNext]_sysVars PROVE SysInv'
  OBVIOUS
<1>1. IInv'
  BY EnginePart, NextIInv DEF SysInv
<1>2. Coll!IInv'
  BY CollPart, CollAssumptions, Coll!NextIInv DEF SysInv
<1> QED BY <1>1, <1>2, LinkStep DEF SysInv

LEMMA SysInvariant == SysSpec => []SysInv
BY SysInvInit, SysInvStep, PTL DEF SysSpec

-----------------------------------------------------------------------------
(* The system implements both of its components: every property of Engine  *)
(* and of ResultCollector is one of the system.                            *)
THEOREM SystemImplementsParts == SysSpec => Spec /\ Coll!Spec
<1>1. SysInit => Init /\ Coll!Init
  BY DEF SysInit, RC!Init, RC!ReporterInit, RC!Buckets, RC!Bucket, Coll!Init,
         Coll!ReporterInit, Coll!Buckets, Coll!Bucket, RC!Counters, Coll!Counters
<1>2. [SysNext]_sysVars => [Next]_vars
  BY EnginePart
<1>3. SysInv /\ [SysNext]_sysVars => [Coll!Next]_(Coll!vars)
  BY CollPart DEF SysInv
<1> QED BY <1>1, <1>2, <1>3, SysInvariant, PTL DEF SysSpec, Spec, Coll!Spec

(* Every variable of the system keeps its type.                            *)
THEOREM SysTypeCorrect == SysSpec => []SysTypeOK
<1>1. SysInv => SysTypeOK
  BY DEF SysInv, IInv, Coll!IInv, SysTypeOK, RC!TypeOK, RC!ReporterTypeOK, RC!StartPcs,
         RC!FinishPcs, RC!Counters, RC!Buckets, RC!Bucket, Coll!TypeOK,
         Coll!ReporterTypeOK, Coll!StartPcs, Coll!FinishPcs, Coll!Counters, Coll!Buckets,
         Coll!Bucket
<1> QED BY <1>1, SysInvariant, PTL

(* initBenchmarkResult has run before any goroutine uses the result, for   *)
(* the workers find nothing in the channel before it has.                  *)
THEOREM ReadyBeforeUse == SysSpec => []ResultReadyBeforeUse
<1>1. ASSUME SysInv, NEW i \in Works, startPc[i] # "none" \/ finishPc[i] # "none"
      PROVE  ready
  <2>1. i < Taken \/ verdict[i] # "none"
    BY <1>1 DEF SysInv, LinkOK
  <2>2. i < Taken
    BY <1>1, <2>1 DEF SysInv, IInv, PlaceOK, TypeOK, QueueOK, Taken, Works
  <2>3. nextIdx > 0
    BY <1>1, <2>2 DEF SysInv, IInv, TypeOK, Taken, Works
  <2> QED BY <1>1, <2>3 DEF SysInv, IInv, MainOK, LinkOK
<1>2. SysInv => ResultReadyBeforeUse
  BY <1>1 DEF ResultReadyBeforeUse
<1> QED BY <1>2, SysInvariant, PTL

(* A work has been reported as started if and only if it was taken, as     *)
(* finished if and only if doWork has returned for it.                     *)
THEOREM ReportsFollow == SysSpec => []ReportsFollowEngine
<1>1. SysInv => ReportsFollowEngine
  BY DEF SysInv, LinkOK, Taken, ReportsFollowEngine
<1> QED BY <1>1, SysInvariant, PTL

(* Each work is reported once as started and then once as finished, by any *)
(* number of workers: what the collector requires of its callers holds     *)
(* whenever they call it.                                                  *)
THEOREM EachReportedOnce == SysSpec => []ReportedOnce
<1>1. ASSUME SysInv PROVE ReportedOnce
  <2>1. pc = "warm" => ~ready
    BY <1>1 DEF SysInv, LinkOK
  <2>2. ASSUME workCh # <<>> PROVE startPc[Head(workCh)] = "none"
    <3>1. Head(workCh) = Taken /\ Taken \in Works
      BY <1>1, <2>2, HeadIsTaken DEF SysInv, IInv
    <3> QED BY <1>1, <3>1 DEF SysInv, LinkOK, Works
  <2>3. ASSUME NEW w \in Workers, wpc[w] = "answered"
        PROVE  startPc[cur[w]] # "none" /\ finishPc[cur[w]] = "none"
    <3>1. cur[w] \in Works /\ cur[w] < Taken /\ verdict[cur[w]] = "none"
      BY <1>1, <2>3 DEF SysInv, IInv, TypeOK, PlaceOK, InProgress
    <3> QED BY <1>1, <3>1 DEF SysInv, LinkOK
  <2> QED BY <2>1, <2>2, <2>3 DEF ReportedOnce
<1> QED BY <1>1, SysInvariant, PTL

(* Two parts of the first n works add up to n.                             *)
LEMMA PartsAddUp ==
  ASSUME NEW n \in Nat, NEW A, NEW B, A \cup B = 0..(n - 1), A \cap B = {}
  PROVE  Cardinality(A) + Cardinality(B) = n
<1>1. IsFiniteSet(0..(n - 1)) /\ Cardinality(0..(n - 1)) = n
  BY FS_Interval
<1>2. IsFiniteSet(A) /\ IsFiniteSet(B)
  BY <1>1, FS_Subset, A \in SUBSET (0..(n - 1)), B \in SUBSET (0..(n - 1))
<1>3. n = Cardinality(A) + Cardinality(B) - Cardinality(A \cap B)
  BY <1>1, <1>2, FS_Union
<1>4. Cardinality(A \cap B) = 0
  BY FS_EmptySet
<1>5. Cardinality(A) \in Nat /\ Cardinality(B) \in Nat
  BY <1>2, FS_CardinalityType
<1> QED BY <1>3, <1>4, <1>5

(* With a worker, what main prints at the end accounts for every work that *)
(* was sent, as succeeded, as failed, each as doWork returned for it, or   *)
(* as still being recorded, and as counted in the total or still being     *)
(* counted.                                                                *)
THEOREM FinalReportExact ==
  ASSUME NumWorkers > 0
  PROVE  SysSpec => []FinalReport
<1>1. ASSUME SysInv, proc = "exited"
      PROVE  /\ Succeeded = Cardinality(RecordedAs({"nil"}))
             /\ Failed = Cardinality(RecordedAs({"error", "timeout"}))
             /\ Succeeded + Failed + Cardinality(Pending) = nextIdx
             /\ Total + Cardinality(Uncounted) = nextIdx
  <2> DEFINE done == {i \in Works : finishPc[i] = "done"}
             counted == {i \in Works : startPc[i] = "added"}
  <2>1. /\ \A i \in Works : i < nextIdx <=> finishPc[i] # "none"
        /\ Taken = nextIdx /\ nextIdx \in 0..MaxWork
    <3>1. IInv /\ pc = "done" /\ \A i \in Works : finishPc[i] # "none" <=> verdict[i] # "none"
      BY <1>1 DEF SysInv, LinkOK
    <3>2. workCh = <<>> /\ \A i \in Works : i < nextIdx <=> verdict[i] # "none"
      BY <3>1, WaitCoversInv DEF WaitCoversAllWork
    <3> QED BY <3>1, <3>2 DEF Taken, IInv, TypeOK
  <2>2. /\ finishPc \in [Works -> {"none", "spawned", "locked", "collected", "done"}]
        /\ startPc \in [Works -> {"none", "spawned", "added"}]
    BY <1>1 DEF SysInv, Coll!IInv, Coll!TypeOK, Coll!StartPcs, Coll!FinishPcs
  <2>3. done \cup Pending = 0..(nextIdx - 1) /\ done \cap Pending = {}
    BY <2>1, WorkersFinite DEF Pending, Works
  <2>4. counted \cup Uncounted = 0..(nextIdx - 1) /\ counted \cap Uncounted = {}
    <3>1. \A i \in Works : i < nextIdx <=> startPc[i] # "none"
      BY <1>1, <2>1 DEF SysInv, LinkOK
    <3> QED BY <2>1, <2>2, <3>1, WorkersFinite DEF Uncounted, Works
  <2>5. Coll!TypeOK /\ Coll!CountsAreExact
    BY <1>1 DEF SysInv, Coll!IInv
  <2>6. Succeeded + Failed = Cardinality(done)
    <3>1. Succeeded + Failed = Coll!Cardinality(Coll!Recorded)
      BY <2>5, CollAssumptions, Coll!CountOfRecorded
    <3>2. Coll!Recorded = done
      BY DEF Coll!Recorded, Coll!FinishedIn
    <3> HIDE DEF done
    <3> QED BY <3>1, <3>2, CollSameSets
  <2>7. Total = Cardinality(counted)
    <3>1. Total = Coll!Cardinality(Coll!Started) /\ Coll!Started = counted
      BY <2>5 DEF Coll!CountsAreExact, Coll!Started
    <3> HIDE DEF counted
    <3> QED BY <3>1, CollSameSets
  <2>9. /\ Succeeded = Cardinality(RecordedAs({"nil"}))
        /\ Failed = Cardinality(RecordedAs({"error", "timeout"}))
    <3>1. /\ Succeeded = Coll!Cardinality({i \in Coll!Recorded : good[i]})
          /\ Failed = Coll!Cardinality({i \in Coll!Recorded : ~good[i]})
      BY <2>5 DEF Coll!CountsAreExact
    <3>2. \A i \in done : /\ good[i] <=> verdict[i] = "nil"
                          /\ ~good[i] <=> verdict[i] \in {"error", "timeout"}
      <4>1. ASSUME NEW i \in Works
            PROVE  verdict[i] \in {"none", "nil", "error", "timeout"}
        BY <1>1 DEF SysInv, IInv, TypeOK
      <4> QED BY <1>1, <4>1 DEF SysInv, LinkOK
    <3>3. Coll!Recorded = done
      BY DEF Coll!Recorded, Coll!FinishedIn
    <3>4. /\ {i \in Coll!Recorded : good[i]} = RecordedAs({"nil"})
          /\ {i \in Coll!Recorded : ~good[i]} = RecordedAs({"error", "timeout"})
      BY <3>2, <3>3 DEF RecordedAs
    <3> QED BY <3>1, <3>4, CollSameSets
  <2> HIDE DEF done, counted
  <2>8. nextIdx \in Nat
    BY <2>1, WorkersFinite
  <2> QED BY <2>3, <2>4, <2>6, <2>7, <2>8, <2>9, PartsAddUp
<1>2. SysInv => FinalReport
  BY <1>1 DEF FinalReport
<1> QED BY <1>2, SysInvariant, PTL
=============================================================================
