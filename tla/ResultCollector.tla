--------------------------- MODULE ResultCollector ---------------------------
(***************************************************************************)
(* The statistics of a benchmark run, internal/benchmark/result.go.        *)
(*                                                                         *)
(* The engine starts two goroutines for every work: onWorkStart, which     *)
(* counts it with an atomic add and no lock, and onWorkFinish, which       *)
(* updates the rest of the result under the collector's mutex and, while   *)
(* it holds it, calls the reporter, which has a mutex of its own.  The     *)
(* monitor goroutine prints the result, reading field after field without  *)
(* any lock, and then publishes the report.                                *)
(*                                                                         *)
(* The rates, ExecPerSec and SubmitPerSec, are left out: they are divided  *)
(* by the time since the start, printed, and used nowhere else.            *)
(***************************************************************************)
EXTENDS Naturals, Integers, FiniteSets, InfluxDBReporter

CONSTANTS
  Works,        \* the indices of the works
  HasReporter,  \* whether SetReporter was called
  NoWork,       \* no goroutine holds the mutex
  U64           \* the modulus of uint64 arithmetic, 2^64 in the code

ASSUME CollectorAssumption ==
  /\ IsFiniteSet(Works)
  /\ HasReporter \in BOOLEAN
  /\ NoWork \notin Works
  /\ U64 \in Nat \ {0}

VARIABLES
  ready,          \* result # nil: initBenchmarkResult has run
  Total,          \* BenchmarkResult.Total
  Succeeded, Failed, MinLatency, MaxLatency, AvgLatency,
  totalExecTime,  \* sum of the durations
  mtx,            \* the work whose onWorkFinish holds resultCollector.mtx
  startPc,        \* the goroutine onWorkStart of each work
  finishPc,       \* the goroutine onWorkFinish of each work
  elapsed,        \* WorkResult.Elapsed
  good,           \* WorkResult.Error = nil
  sinceZero,      \* history: the works recorded since one that took no time
  unread, shown,  \* the counters printStatus has yet to read for "Working:",
                  \* and what it has computed of their difference
  before          \* history: how many works were started and how many were
                  \* recorded when it read the first

latencyVars == <<MinLatency, MaxLatency, AvgLatency, sinceZero>>
countVars == <<Succeeded, Failed>>
startVars == <<Total, startPc>>
finishVars == <<countVars, latencyVars, totalExecTime, mtx, finishPc, elapsed, good>>
monitorVars == <<unread, shown, before>>
workVars == <<ready, startVars, finishVars>>
vars == <<workVars, monitorVars, reporterVars>>

StartPcs == {"none", "spawned", "added"}
FinishPcs == {"none", "spawned", "locked", "collected", "done"}
Counters == {"Total", "Succeeded", "Failed"}

FinishedIn(S) == {i \in Works : finishPc[i] \in S}
Started == {i \in Works : startPc[i] = "added"}
Recorded == FinishedIn({"done"})

TypeOK ==
  /\ ready \in BOOLEAN
  /\ Total \in Nat /\ Succeeded \in Nat /\ Failed \in Nat
  /\ MinLatency \in Nat /\ MaxLatency \in Nat /\ AvgLatency \in Nat
  /\ totalExecTime \in Nat
  /\ mtx \in Works \cup {NoWork}
  /\ startPc \in [Works -> StartPcs]
  /\ finishPc \in [Works -> FinishPcs]
  /\ elapsed \in [Works -> Durations \cup {0}]
  /\ good \in [Works -> BOOLEAN]
  /\ sinceZero \in SUBSET Works
  /\ unread \in SUBSET Counters
  /\ shown \in Int
  /\ before \in [started : Nat, recorded : Nat]
  /\ ReporterTypeOK

Init ==
  /\ ready = FALSE
  /\ Total = 0 /\ Succeeded = 0 /\ Failed = 0
  /\ MinLatency = 0 /\ MaxLatency = 0 /\ AvgLatency = 0
  /\ totalExecTime = 0
  /\ mtx = NoWork
  /\ startPc = [i \in Works |-> "none"]
  /\ finishPc = [i \in Works |-> "none"]
  /\ elapsed = [i \in Works |-> 0]
  /\ good = [i \in Works |-> FALSE]
  /\ sinceZero = {}
  /\ unread = Counters /\ shown = 0
  /\ before = [started |-> 0, recorded |-> 0]
  /\ ReporterInit

(* initBenchmarkResult: a new result, all of its counters zero.            *)
InitBenchmarkResult ==
  /\ ~ready
  /\ ready' = TRUE
  /\ totalExecTime' = 0
  /\ UNCHANGED <<startVars, countVars, latencyVars, mtx, finishPc, elapsed, good,
                 monitorVars, reporterVars>>

-----------------------------------------------------------------------------
(* go onWorkStart(i)                                                       *)
SpawnStart(i) ==
  /\ startPc[i] = "none"
  /\ startPc' = [startPc EXCEPT ![i] = "spawned"]
  /\ UNCHANGED <<ready, Total, finishVars, monitorVars, reporterVars>>

(* onWorkStart: an atomic add of Total, and a rate.                        *)
\* Faulty: a plain increment, lost when another work is counted meanwhile.
AddTotalLost(i) ==
  /\ ready /\ startPc[i] = "spawned"
  /\ startPc' = [startPc EXCEPT ![i] = "added"]
  /\ Total' \in {Total, Total + 1}
  /\ UNCHANGED <<ready, finishVars, monitorVars, reporterVars>>

AddTotal(i) ==
  /\ ready /\ startPc[i] = "spawned"
  /\ startPc' = [startPc EXCEPT ![i] = "added"]
  /\ Total' = Total + 1
  /\ UNCHANGED <<ready, finishVars, monitorVars, reporterVars>>

-----------------------------------------------------------------------------
(* go onWorkFinish(&WorkResult{i, e, ok ? nil : err}): the engine starts   *)
(* it after onWorkStart of the same work, which may still be to run.       *)
SpawnFinish(i, e, ok) ==
  /\ startPc[i] # "none" /\ finishPc[i] = "none"
  /\ finishPc' = [finishPc EXCEPT ![i] = "spawned"]
  /\ elapsed' = [elapsed EXCEPT ![i] = e]
  /\ good' = [good EXCEPT ![i] = ok]
  /\ UNCHANGED <<ready, startVars, countVars, latencyVars, totalExecTime, mtx,
                 monitorVars, reporterVars>>

(* onWorkFinish: takes the mutex and adds the duration, ...                *)
FinishLock(i) ==
  /\ ready /\ mtx = NoWork /\ finishPc[i] = "spawned"
  /\ mtx' = i
  /\ totalExecTime' = totalExecTime + elapsed[i]
  /\ finishPc' = [finishPc EXCEPT ![i] = IF HasReporter THEN "locked" ELSE "collected"]
  /\ UNCHANGED <<ready, startVars, countVars, latencyVars, elapsed, good,
                 monitorVars, reporterVars>>

(* ... hands the work to the reporter, if there is one, ...                *)
\* Faulty: the duration of a failed work is not handed over.
FinishCollectGoodOnly(i) ==
  /\ finishPc[i] = "locked"
  /\ finishPc' = [finishPc EXCEPT ![i] = "collected"]
  /\ CollectWorkResult(IF good[i] THEN elapsed[i] ELSE 1)
  /\ UNCHANGED <<ready, startVars, countVars, latencyVars, totalExecTime, mtx,
                 elapsed, good, monitorVars>>

FinishCollect(i) ==
  /\ finishPc[i] = "locked"
  /\ finishPc' = [finishPc EXCEPT ![i] = "collected"]
  /\ CollectWorkResult(elapsed[i])
  /\ UNCHANGED <<ready, startVars, countVars, latencyVars, totalExecTime, mtx,
                 elapsed, good, monitorVars>>

(* ... and updates the result; 0 stands for a MinLatency not yet known.    *)
Longer(d) == IF d > MaxLatency THEN d ELSE MaxLatency
\* Faulty: 0 is taken for a duration.
ShorterThanZero(d) == IF d < MinLatency THEN d ELSE MinLatency
Shorter(d) == IF MinLatency = 0 \/ d < MinLatency THEN d ELSE MinLatency

CountResult(i) ==
  /\ Succeeded' = IF good[i] THEN Succeeded + 1 ELSE Succeeded
  /\ Failed' = IF good[i] THEN Failed ELSE Failed + 1

FinishRecord(i) ==
  /\ finishPc[i] = "collected"
  /\ finishPc' = [finishPc EXCEPT ![i] = "done"]
  /\ CountResult(i)
  /\ AvgLatency' = totalExecTime \div (Succeeded + Failed + 1)
  /\ MaxLatency' = Longer(elapsed[i])
  /\ MinLatency' = Shorter(elapsed[i])
  /\ sinceZero' = IF elapsed[i] = 0 THEN {} ELSE sinceZero \cup {i}
  /\ mtx' = NoWork
  /\ UNCHANGED <<ready, startVars, totalExecTime, elapsed, good, monitorVars,
                 reporterVars>>

-----------------------------------------------------------------------------
(* monitorLoop, once a second and never while it is still publishing:     *)
(* printStatus, of which only the line "Working:" depends on more than one *)
(* counter.  It reads them one by one, in an order the language leaves     *)
(* open, ...                                                               *)
\* Faulty: a failed work counts as in progress for ever.
OperandUnlessFailed(c) ==
  CASE c = "Total" -> Total [] c = "Succeeded" -> -Succeeded [] c = "Failed" -> 0

Operand(c) ==
  CASE c = "Total" -> Total [] c = "Succeeded" -> -Succeeded [] c = "Failed" -> -Failed

ReadCounter(c) ==
  /\ ready /\ c \in unread
  /\ unread = Counters => ~rmtx
  /\ unread' = unread \ {c}
  /\ shown' = shown + Operand(c)
  /\ before' = IF unread = Counters
                THEN [started |-> Cardinality(Started), recorded |-> Cardinality(Recorded)]
                ELSE before
  /\ UNCHANGED <<workVars, reporterVars>>

(* ... prints their difference in uint64 arithmetic, and then publishes    *)
(* the report, if there is a reporter.                                     *)
Working == shown % U64

PrintAndPublish ==
  /\ unread = {}
  /\ unread' = Counters /\ shown' = 0
  /\ before' = [started |-> 0, recorded |-> 0]
  /\ IF HasReporter THEN PublishBegin ELSE UNCHANGED reporterVars
  /\ UNCHANGED workVars

PrintStep == (\E c \in Counters : ReadCounter(c)) \/ PrintAndPublish

MonitorPublishStep == PublishStep /\ UNCHANGED <<workVars, monitorVars>>

FinishStep(i) == FinishLock(i) \/ FinishCollect(i) \/ FinishRecord(i)

Next ==
  \/ InitBenchmarkResult
  \/ \E i \in Works :
       \/ SpawnStart(i)
       \/ \E e \in Durations, ok \in BOOLEAN : SpawnFinish(i, e, ok)
       \/ AddTotal(i)
       \/ FinishStep(i)
  \/ PrintStep
  \/ MonitorPublishStep

Spec == Init /\ [][Next]_vars

(***************************************************************************)
(* Fairness.  Goroutines that can run are run.  A sync.Mutex does not      *)
(* starve a waiter (its starvation mode), hence SF where a lock is taken.  *)
(* A WritePoint ends, if only by the HTTP time-out of the client.          *)
(***************************************************************************)
Fairness ==
  /\ WF_vars(InitBenchmarkResult)
  /\ \A i \in Works :
       /\ WF_vars(AddTotal(i))
       /\ SF_vars(FinishLock(i)) /\ SF_vars(FinishCollect(i))
       /\ WF_vars(FinishRecord(i))
  /\ WF_vars(MonitorPublishStep)

FairSpec == Spec /\ Fairness

-----------------------------------------------------------------------------
(* The mutex is held by the one onWorkFinish that is in its critical       *)
(* section, and by nobody when there is none.                              *)
CriticalSection == \A i \in Works : finishPc[i] \in {"locked", "collected"} <=> mtx = i

(* No update is lost, neither of Total, which no lock protects, nor of the *)
(* counters under the mutex: each is the number of works that got there.   *)
CountsAreExact ==
  /\ Total = Cardinality(Started)
  /\ Succeeded = Cardinality({i \in Recorded : good[i]})
  /\ Failed = Cardinality({i \in Recorded : ~good[i]})

(* The "Working:" line of printStatus is off by no more than the works     *)
(* that were counted or recorded while its counters were read: it is a     *)
(* number between the works in progress that this may take away and those  *)
(* it may add.  Below 0, for a work recorded after Total was read, or      *)
(* ahead of its own onWorkStart, it wraps, and nothing in the code         *)
(* prevents that.                                                          *)
WorkingIsBracketed ==
  unread = {} =>
    \E n \in (before.started - Cardinality(Recorded))
               ..(Cardinality(Started) - before.recorded) :
      Working = n % U64

(* MaxLatency is the longest of the durations recorded.                    *)
MaximumIsExact ==
  Recorded # {} => /\ \A i \in Recorded : elapsed[i] <= MaxLatency
                   /\ MaxLatency \in {elapsed[i] : i \in Recorded}

(* MinLatency is the shortest of those recorded since a work that took no  *)
(* time: such a one is taken for "not yet known", and all before it is     *)
(* forgotten.                                                              *)
MinimumIsExact ==
  /\ sinceZero = {} => MinLatency = 0
  /\ sinceZero # {} => /\ \A i \in sinceZero : MinLatency <= elapsed[i]
                       /\ MinLatency \in {elapsed[i] : i \in sinceZero}

(* The average does not exceed the maximum, and the minimum the average as *)
(* long as every work recorded took some time.                             *)
LatenciesOrdered ==
  mtx = NoWork /\ Recorded # {} => /\ AvgLatency <= MaxLatency
                                   /\ sinceZero = Recorded => MinLatency <= AvgLatency

(* All of these, whatever the order in which the works were recorded.      *)
LatenciesAreExact == MaximumIsExact /\ MinimumIsExact /\ LatenciesOrdered

(* The reporter and the result agree: a bucket counts exactly the works    *)
(* handed over, which are the recorded ones and the one between the two    *)
(* updates; the two mutexes are never held in a way that loses one.        *)
HistogramMatchesResult ==
  HasReporter =>
    \A b \in Buckets :
      workBuckets[b] = Cardinality({i \in FinishedIn({"collected", "done"}) :
                                      Bucket(elapsed[i]) = b})

(* Every result is recorded in the end, although the mutex is held while   *)
(* the reporter waits for its own, and that one across slow writes.        *)
ResultsGetRecorded ==
  \A i \in Works : finishPc[i] = "spawned" ~> finishPc[i] = "done"
=============================================================================
