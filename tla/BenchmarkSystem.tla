--------------------------- MODULE BenchmarkSystem ---------------------------
(***************************************************************************)
(* The engine together with the collector of its results.  consumeWork     *)
(* starts two goroutines for each work, onWorkStart when it takes it and   *)
(* onWorkFinish when doWork has returned, and waits for neither: wg counts *)
(* the workers only, and the process ends when main returns.               *)
(***************************************************************************)
EXTENDS Engine

CONSTANTS Durations, BucketWidth, HasReporter, NoWork, U64

ASSUME SystemAssumption ==
  /\ Durations \in SUBSET Nat /\ BucketWidth \in Nat \ {0}
  /\ HasReporter \in BOOLEAN
  /\ NoWork \notin Works
  /\ U64 \in Nat \ {0}

VARIABLES
  ready, Total, Succeeded, Failed, MinLatency, MaxLatency, AvgLatency,
  totalExecTime, mtx, startPc, finishPc, elapsed, good,
  sinceZero, unread, shown, before,
  workBuckets, rmtx, pts, stored

RC == INSTANCE ResultCollector

resultVars ==
  <<ready, Total, Succeeded, Failed, MinLatency, MaxLatency, AvgLatency,
    totalExecTime, mtx, startPc, finishPc, elapsed, good,
    sinceZero, unread, shown, before,
    workBuckets, rmtx, pts, stored>>

sysVars == <<vars, resultVars>>

SysTypeOK == TypeOK /\ RC!TypeOK

SysInit == Init /\ RC!Init

-----------------------------------------------------------------------------
(* Run: initBenchmarkResult before the first work is produced.             *)
\* Faulty: the result is not made before works are produced.
StartWithoutResult == StartProducing /\ UNCHANGED resultVars

StartWithResult == StartProducing /\ RC!InitBenchmarkResult

(* consumeWork: the work taken from the channel goes to onWorkStart.       *)
TakeAndReport(w) == TakeWork(w) /\ RC!SpawnStart(Head(workCh))

(* consumeWork: what doWork returned goes to onWorkFinish.                 *)
\* Faulty: a work that timed out is not reported.
ConcludeSuccessOnly(w) ==
  \/ \E e \in Durations :
       /\ ReturnAnswer(w)
       /\ RC!SpawnFinish(cur[w], e, answer[cur[w]] = "nil")
  \/ ReturnTimeout(w) /\ UNCHANGED resultVars

\* Faulty: onWorkFinish is called, not started as a goroutine: the worker
\* goes on when no other call holds the mutex.
ConcludeAndWait(w) ==
  /\ mtx = NoWork
  /\ \E e \in Durations :
       \/ ReturnAnswer(w) /\ RC!SpawnFinish(cur[w], e, answer[cur[w]] = "nil")
       \/ ReturnTimeout(w) /\ RC!SpawnFinish(cur[w], e, FALSE)

\* Faulty: a time-out is reported, and DoWork is still waited for.
ReportTimeoutAndWait(w) ==
  \E e \in Durations :
    \/ ReturnAnswer(w) /\ RC!SpawnFinish(cur[w], e, answer[cur[w]] = "nil")
    \/ /\ wpc[w] = "answered" /\ w \in expired
       /\ RC!SpawnFinish(cur[w], e, FALSE)
       /\ UNCHANGED vars

ConcludeAndReport(w) ==
  \E e \in Durations :
    \/ ReturnAnswer(w) /\ RC!SpawnFinish(cur[w], e, answer[cur[w]] = "nil")
    \/ ReturnTimeout(w) /\ RC!SpawnFinish(cur[w], e, FALSE)

EngineStep ==
  \/ StartWithResult
  \/ \E w \in Workers : TakeAndReport(w) \/ ConcludeAndReport(w)
  \/ /\ \/ PlainMainStep \/ DeadlinePasses \/ TestcaseFatal
        \/ \E w \in Workers : PlainWorkerStep(w)
     /\ UNCHANGED resultVars

(* The goroutines of the collector and its monitor run beside the engine   *)
(* as long as the process is up.                                           *)
CollectorStep ==
  /\ \/ \E i \in Works : RC!AddTotal(i) \/ RC!FinishStep(i)
     \/ RC!PrintStep
     \/ RC!MonitorPublishStep
  /\ UNCHANGED vars

SysStopped == proc # "up" /\ UNCHANGED sysVars

SysNext == (proc = "up" /\ (EngineStep \/ CollectorStep)) \/ SysStopped

SysSpec == SysInit /\ [][SysNext]_sysVars

(***************************************************************************)
(* The fairness of the engine and none of the collector: a goroutine of    *)
(* the collector or the monitor may be stuck for ever, say in a write to   *)
(* the InfluxDB server.                                                    *)
(***************************************************************************)
Alone(A) == proc = "up" /\ A /\ UNCHANGED resultVars

(* Run, and each worker, is one goroutine: it is at one point at a time.   *)
MainProceeds == Alone(PlainMainStep) \/ (proc = "up" /\ StartWithResult)

WorkerProceeds(w) ==
  \/ Alone(CreateWorker(w) \/ NoClientPanic(w) \/ Leave(w) \/ Gone(w))
  \/ proc = "up" /\ (TakeAndReport(w) \/ ConcludeAndReport(w))

EngineFairness ==
  /\ WF_sysVars(MainProceeds)
  /\ WF_sysVars(Alone(DeadlinePasses))
  /\ \A w \in Workers :
       /\ WF_sysVars(WorkerProceeds(w))
       /\ WF_sysVars(Alone(CtxExpires(w)))
       /\ HonoursCtx => WF_sysVars(Alone(w \in expired /\ Answers(w)))

SysFairSpec == SysSpec /\ EngineFairness

-----------------------------------------------------------------------------
(* onWorkStart and onWorkFinish, and the monitor, use c.result, which is   *)
(* nil until Run has called initBenchmarkResult: no goroutine that uses it *)
(* is started earlier, although the workers are.                           *)
ResultReadyBeforeUse ==
  \A i \in Works : startPc[i] # "none" \/ finishPc[i] # "none" => ready

(* The result that main prints accounts for every work that was sent: it   *)
(* is succeeded or failed, as doWork returned for it, or its onWorkFinish  *)
(* was started and is still to record it, since only a sleep separates     *)
(* wg.Wait from the return; and it is in the total, or its onWorkStart was *)
(* started and is still to add it.                                         *)
Pending == {i \in Works : finishPc[i] \notin {"none", "done"}}
Uncounted == {i \in Works : startPc[i] = "spawned"}
RecordedAs(verdicts) == {i \in Works : finishPc[i] = "done" /\ verdict[i] \in verdicts}

FinalReport ==
  proc = "exited" =>
    /\ Succeeded = Cardinality(RecordedAs({"nil"}))
    /\ Failed = Cardinality(RecordedAs({"error", "timeout"}))
    /\ Succeeded + Failed + Cardinality(Pending) = nextIdx
    /\ Total + Cardinality(Uncounted) = nextIdx

(* The collector hears of a work when the engine has gone as far: what is  *)
(* started is out of the channel, what is finished is out of doWork.       *)
ReportsFollowEngine ==
  \A i \in Works :
    /\ startPc[i] # "none" <=> i < nextIdx - Len(workCh)
    /\ finishPc[i] # "none" <=> verdict[i] # "none"

(* It hears of each once: the result is made once, the work a worker will  *)
(* take was not started before, and the one it concludes was, and not yet  *)
(* finished.  So nothing that the collector requires of its callers ever   *)
(* holds a worker or Run up.                                               *)
ReportedOnce ==
  /\ pc = "warm" => ~ready
  /\ workCh # <<>> => startPc[Head(workCh)] = "none"
  /\ \A w \in Workers :
       wpc[w] = "answered" => startPc[cur[w]] # "none" /\ finishPc[cur[w]] = "none"

(* The collector never holds up the run: although onWorkFinish holds a     *)
(* mutex across the reporter's, and the reporter holds that one across its *)
(* writes, the run ends even if these never come to an end.                *)
RunTerminatesAnyway == RunTerminates
=============================================================================
