-------------------------------- MODULE Engine --------------------------------
(***************************************************************************)
(* BenchmarkEngine.Run of internal/benchmark/engine.go.                    *)
(*                                                                         *)
(* The main goroutine dials the clients, prepares the test case, starts    *)
(* the workers, produces works into a buffered channel until the deadline  *)
(* has passed, closes the channel, waits for the wait group and returns.   *)
(* A worker ranges over the channel and runs the test case's DoWork on     *)
(* each work, under a context with a time-out.                             *)
(*                                                                         *)
(* The test case (Prepair, CreateWorker, DoWork) is modelled by what it    *)
(* may answer; what the collector does with a work is in BenchmarkSystem.  *)
(***************************************************************************)
EXTENDS Naturals, Sequences, FiniteSets

CONSTANTS
  NumWorkers, NumClients,  \* of Options
  QueueCap,    \* capacity of workCh, 100 * ExecuteRate in the code
  MaxWork,     \* bound: the deadline passes before this many works are sent
  HonoursCtx   \* DoWork returns once its context is done

ASSUME EngineAssumption ==
  /\ NumWorkers \in Nat /\ NumClients \in Nat
  /\ QueueCap \in Nat \ {0} /\ MaxWork \in Nat \ {0}
  /\ HonoursCtx \in BOOLEAN

Workers == 0..(NumWorkers - 1)
Works == 0..(MaxWork - 1)

VARIABLES
  proc,      \* the process: up, exited by main, log.Fatal, panicked
  pc,        \* the main goroutine
  clients,   \* len(e.clients)
  spawned,   \* workerIdx of the loop that starts the workers
  workCh, closed,  \* the channel of works
  nextIdx,   \* the number of works sent: the next index
  late,      \* the deadline has passed
  wpc,       \* the goroutine consumeWork of each worker
  cur,       \* the work it has taken
  expired,   \* workers whose doWork has a context that is done
  answer,    \* what DoWork returned for each work
  verdict    \* what doWork returned for it

(* The LimitWaitGroup wg of Run; its units are the workers.                *)
VARIABLES stage, cancelled, occupiedCh, wg, waiter, awaited

WG == INSTANCE LimitWaitGroup WITH Units <- Workers, Limit <- NumWorkers

groupVars == <<stage, cancelled, occupiedCh, wg, waiter, awaited>>
mainVars == <<pc, clients, spawned, nextIdx, late, closed>>
workerVars == <<cur, expired, answer, verdict>>
engineVars == <<proc, mainVars, workCh, wpc, workerVars>>
vars == <<engineVars, groupVars>>

MainPcs == {"dial", "prepare", "spawn", "adding", "added", "warm", "send",
            "check", "wait", "waiting", "settle", "done"}
WorkerPcs == {"none", "start", "range", "working", "answered", "leaving", "gone"}

TypeOK ==
  /\ proc \in {"up", "exited", "fatal", "panic"}
  /\ pc \in MainPcs
  /\ clients \in {0, NumClients}
  /\ spawned \in 0..NumWorkers
  /\ workCh \in Seq(Works) /\ Len(workCh) <= QueueCap
  /\ closed \in BOOLEAN /\ late \in BOOLEAN
  /\ nextIdx \in 0..MaxWork
  /\ wpc \in [Workers -> WorkerPcs]
  /\ cur \in [Workers -> Works]
  /\ expired \in SUBSET Workers
  /\ answer \in [Works -> {"none", "nil", "error"}]
  /\ verdict \in [Works -> {"none", "nil", "error", "timeout"}]
  /\ WG!TypeOK

Init ==
  /\ proc = "up" /\ pc = "dial"
  /\ clients = 0 /\ spawned = 0
  /\ workCh = <<>> /\ closed = FALSE
  /\ nextIdx = 0 /\ late = FALSE
  /\ wpc = [w \in Workers |-> "none"]
  /\ cur = [w \in Workers |-> 0]
  /\ expired = {}
  /\ answer = [i \in Works |-> "none"]
  /\ verdict = [i \in Works |-> "none"]
  /\ WG!Init

GoTo(from, to) == pc = from /\ pc' = to

-----------------------------------------------------------------------------
(* core.CreateRpcClients: all of the connections or, when one fails, nil   *)
(* and no error.                                                           *)
Dial ==
  /\ GoTo("dial", "prepare")
  /\ clients' \in {0, NumClients}
  /\ UNCHANGED <<proc, spawned, nextIdx, late, closed, workCh, wpc, workerVars,
                 groupVars>>

(* testToRun.Prepair, then the wait group, unless it rejects its size, and *)
(* the channel are made.                                                   *)
Prepair ==
  /\ ~WG!LimitRejected(NumWorkers)
  /\ GoTo("prepare", "spawn")
  /\ UNCHANGED <<proc, clients, spawned, nextIdx, late, closed, workCh, wpc,
                 workerVars, groupVars>>

(* External: Prepair, CreateWorker or the transaction pool a test case has *)
(* started call log.Fatal.                                                 *)
TestcaseFatal ==
  /\ pc # "dial"
  /\ proc' = "fatal"
  /\ UNCHANGED <<mainVars, workCh, wpc, workerVars, groupVars>>

(* wg.Add() and go consumeWork of the worker number spawned.               *)
AddWorker ==
  /\ spawned < NumWorkers
  /\ GoTo("spawn", "adding")
  /\ WG!BeginAdd(spawned)
  /\ UNCHANGED <<proc, clients, spawned, nextIdx, late, closed, workCh, wpc,
                 workerVars>>

OccupySlot ==
  /\ GoTo("adding", "added")
  /\ WG!Occupy(spawned)
  /\ UNCHANGED <<proc, clients, spawned, nextIdx, late, closed, workCh, wpc,
                 workerVars>>

GoConsume ==
  /\ GoTo("added", "spawn")
  /\ WG!CountUp(spawned)
  /\ wpc' = [wpc EXCEPT ![spawned] = "start"]
  /\ spawned' = spawned + 1
  /\ UNCHANGED <<proc, clients, nextIdx, late, closed, workCh, workerVars>>

(* All workers are started: the warm-up sleep, ...                         *)
WarmUp ==
  /\ spawned = NumWorkers
  /\ GoTo("spawn", "warm")
  /\ UNCHANGED <<proc, clients, spawned, nextIdx, late, closed, workCh, wpc,
                 workerVars, groupVars>>

(* ... initBenchmarkResult, go monitorLoop, and produceWork starts.        *)
StartProducing ==
  /\ GoTo("warm", "send")
  /\ UNCHANGED <<proc, clients, spawned, nextIdx, late, closed, workCh, wpc,
                 workerVars, groupVars>>

(* limiter.Take(), and the send, blocked while the channel is full.        *)
Send ==
  /\ Len(workCh) < QueueCap
  /\ GoTo("send", "check")
  /\ workCh' = Append(workCh, nextIdx)
  /\ nextIdx' = nextIdx + 1
  /\ UNCHANGED <<proc, clients, spawned, late, closed, wpc, workerVars, groupVars>>

DeadlinePasses ==
  /\ pc \in {"send", "check"}
  /\ ~late
  /\ late' = TRUE
  /\ UNCHANGED <<proc, pc, clients, spawned, nextIdx, closed, workCh, wpc,
                 workerVars, groupVars>>

(* time.Now().After(deadline) is false: the loop goes on.                  *)
SendAnother ==
  /\ ~late /\ nextIdx < MaxWork
  /\ GoTo("check", "send")
  /\ UNCHANGED <<proc, clients, spawned, nextIdx, late, closed, workCh, wpc,
                 workerVars, groupVars>>

(* It is true: produceWork returns and closes the channel.                 *)
\* Faulty: the channel is never closed.
StopWithoutClose ==
  /\ late
  /\ GoTo("check", "wait")
  /\ UNCHANGED <<proc, clients, spawned, nextIdx, late, closed, workCh, wpc,
                 workerVars, groupVars>>

CloseWorkCh ==
  /\ late
  /\ GoTo("check", "wait")
  /\ closed' = TRUE
  /\ UNCHANGED <<proc, clients, spawned, nextIdx, late, workCh, wpc, workerVars,
                 groupVars>>

(* wg.Wait()                                                               *)
BeginWait ==
  /\ GoTo("wait", "waiting")
  /\ WG!BeginWait
  /\ UNCHANGED <<proc, clients, spawned, nextIdx, late, closed, workCh, wpc,
                 workerVars>>

EndWait ==
  /\ GoTo("waiting", "settle")
  /\ WG!EndWait
  /\ UNCHANGED <<proc, clients, spawned, nextIdx, late, closed, workCh, wpc,
                 workerVars>>

(* The one-second sleep, OnFinish, the return, and cmd/benchmark's main    *)
(* prints the result and exits, whatever other goroutines still do.        *)
Return ==
  /\ GoTo("settle", "done")
  /\ proc' = "exited"
  /\ UNCHANGED <<clients, spawned, nextIdx, late, closed, workCh, wpc, workerVars,
                 groupVars>>

-----------------------------------------------------------------------------
WorkerGoTo(w, from, to) == wpc[w] = from /\ wpc' = [wpc EXCEPT ![w] = to]

(* consumeWork: the client of the worker, CreateWorker.                    *)
CreateWorker(w) ==
  /\ clients > 0
  /\ WorkerGoTo(w, "start", "range")
  /\ UNCHANGED <<proc, mainVars, workCh, workerVars, groupVars>>

(* workerIdx % len(e.clients) with no clients panics, and so the process.  *)
NoClientPanic(w) ==
  /\ clients = 0
  /\ wpc[w] = "start"
  /\ proc' = "panic"
  /\ UNCHANGED <<mainVars, workCh, wpc, workerVars, groupVars>>

(* The next work of the range, and doWork calls DoWork with a new context. *)
\* Faulty: the newest work is taken first.
TakeNewest(w) ==
  /\ workCh # <<>>
  /\ WorkerGoTo(w, "range", "working")
  /\ cur' = [cur EXCEPT ![w] = workCh[Len(workCh)]]
  /\ workCh' = SubSeq(workCh, 1, Len(workCh) - 1)
  /\ UNCHANGED <<proc, mainVars, expired, answer, verdict, groupVars>>

TakeWork(w) ==
  /\ workCh # <<>>
  /\ WorkerGoTo(w, "range", "working")
  /\ cur' = [cur EXCEPT ![w] = Head(workCh)]
  /\ workCh' = Tail(workCh)
  /\ UNCHANGED <<proc, mainVars, expired, answer, verdict, groupVars>>

CtxExpires(w) ==
  /\ wpc[w] \in {"working", "answered"} /\ w \notin expired
  /\ expired' = expired \cup {w}
  /\ UNCHANGED <<proc, mainVars, workCh, wpc, cur, answer, verdict, groupVars>>

(* The select of doWork evaluates DoWork before it looks at the context.   *)
DoWorkReturns(w, err) ==
  /\ WorkerGoTo(w, "working", "answered")
  /\ answer' = [answer EXCEPT ![cur[w]] = err]
  /\ UNCHANGED <<proc, mainVars, workCh, cur, expired, verdict, groupVars>>

(* Both cases may be ready then; either may be chosen.                     *)
Conclude(w, err) ==
  /\ WorkerGoTo(w, "answered", "range")
  /\ verdict' = [verdict EXCEPT ![cur[w]] = err]
  /\ expired' = expired \ {w}
  /\ UNCHANGED <<proc, mainVars, workCh, cur, answer, groupVars>>

ReturnAnswer(w) == Conclude(w, answer[cur[w]])
ReturnTimeout(w) == w \in expired /\ Conclude(w, "timeout")

(* The channel is closed and drained: the deferred wg.Done().              *)
\* Faulty: the worker leaves as soon as the channel is closed.
LeaveUndrained(w) ==
  /\ closed
  /\ WorkerGoTo(w, "range", "leaving")
  /\ WG!ReleaseSlot(w)
  /\ UNCHANGED <<proc, mainVars, workCh, workerVars>>

Leave(w) ==
  /\ closed /\ workCh = <<>>
  /\ WorkerGoTo(w, "range", "leaving")
  /\ WG!ReleaseSlot(w)
  /\ UNCHANGED <<proc, mainVars, workCh, workerVars>>

Gone(w) ==
  /\ WorkerGoTo(w, "leaving", "gone")
  /\ WG!CountDown(w)
  /\ UNCHANGED <<proc, mainVars, workCh, workerVars>>

-----------------------------------------------------------------------------
(* The steps at which Run and its workers do not call the collector, ...   *)
PlainMainStep ==
  \/ Dial \/ Prepair \/ AddWorker \/ OccupySlot \/ GoConsume \/ WarmUp
  \/ Send \/ SendAnother \/ CloseWorkCh \/ BeginWait \/ EndWait \/ Return

Answers(w) == \E err \in {"nil", "error"} : DoWorkReturns(w, err)

PlainWorkerStep(w) ==
  \/ CreateWorker(w) \/ NoClientPanic(w) \/ CtxExpires(w) \/ Answers(w)
  \/ Leave(w) \/ Gone(w)

(* ... and all of them.                                                    *)
MainStep == PlainMainStep \/ StartProducing

Concludes(w) == ReturnAnswer(w) \/ ReturnTimeout(w)

WorkerStep(w) == PlainWorkerStep(w) \/ TakeWork(w) \/ Concludes(w)

Step == MainStep \/ DeadlinePasses \/ TestcaseFatal \/ \E w \in Workers : WorkerStep(w)

Stopped == proc # "up" /\ UNCHANGED vars

Next == (proc = "up" /\ Step) \/ Stopped

Spec == Init /\ [][Next]_vars

(***************************************************************************)
(* Fairness.  A goroutine that can run is run, time passes (deadline and   *)
(* time-outs), Prepair returns, and DoWork returns if its context is done  *)
(* and it honours contexts, as the calls of go-ethereum do that get one.   *)
(***************************************************************************)
WhileUp(A) == proc = "up" /\ A

Fairness ==
  /\ WF_vars(WhileUp(MainStep))
  /\ WF_vars(WhileUp(DeadlinePasses))
  /\ \A w \in Workers :
       /\ WF_vars(WhileUp(CreateWorker(w))) /\ WF_vars(WhileUp(NoClientPanic(w)))
       /\ WF_vars(WhileUp(TakeWork(w))) /\ WF_vars(WhileUp(CtxExpires(w)))
       /\ WF_vars(WhileUp(Concludes(w)))
       /\ WF_vars(WhileUp(Leave(w))) /\ WF_vars(WhileUp(Gone(w)))
       /\ HonoursCtx => WF_vars(WhileUp(w \in expired /\ Answers(w)))

FairSpec == Spec /\ Fairness

-----------------------------------------------------------------------------
(* The wait group has as many slots as there are workers, so that its      *)
(* limit never makes Run wait in wg.Add for another worker to finish:      *)
(* workers finish only after the channel is closed, which Run does later.  *)
AddNeverBlocks == pc = "adding" => occupiedCh < NumWorkers

InProgress == {w \in Workers : wpc[w] \in {"working", "answered"}}

(* Once wg.Wait has returned, every work that was sent has been taken and  *)
(* doWork has returned for it, and no worker is left.                      *)
WaitCoversAllWork ==
  pc \in {"settle", "done"} /\ NumWorkers > 0 =>
    /\ workCh = <<>>
    /\ \A i \in Works : i < nextIdx <=> verdict[i] # "none"
    /\ \A w \in Workers : wpc[w] = "gone"

(* Run never waits for workers that wait for Run: when it cannot go on, at *)
(* a full wait group, a full channel or in wg.Wait, a worker is there that *)
(* can, in the range over the channel or on its way out.                   *)
RunIsBlocked ==
  \/ pc = "adding" /\ occupiedCh = NumWorkers
  \/ pc = "send" /\ Len(workCh) = QueueCap
  \/ pc = "waiting" /\ wg > 0

CanGoOn(w) ==
  \/ wpc[w] \in {"start", "working", "answered", "leaving"}
  \/ wpc[w] = "range" /\ (workCh # <<>> \/ closed)

NoCircularWait == NumWorkers > 0 /\ RunIsBlocked => \E w \in Workers : CanGoOn(w)

(* A work is in exactly one place: in the channel, with one worker, or     *)
(* concluded; none is lost, none is done twice.                            *)
WorkInOnePlace ==
  \A i \in 0..(nextIdx - 1) :
    Cardinality({k \in 1..Len(workCh) : workCh[k] = i})
      + Cardinality({w \in InProgress : cur[w] = i})
      + (IF verdict[i] # "none" THEN 1 ELSE 0) = 1

(* The engine implements the abstract run: issue in order, take in order,  *)
(* bounded backlog and parallelism, return only when all is done.          *)
Run == INSTANCE BenchmarkRun WITH
         Capacity <- QueueCap, Parallelism <- NumWorkers,
         open <- ~closed, issued <- nextIdx, taken <- nextIdx - Len(workCh),
         running <- {cur[w] : w \in InProgress},
         returned <- pc \in {"settle", "done"}

ImplementsRun == Run!Spec

(* If DoWork honours its context the run ends: main returns, or the        *)
(* process was ended by log.Fatal or a panic.                              *)
RunTerminates == <>(proc # "up")

(* Claimed by throttler.go, "wait group size must be greater than zero.":  *)
(* no run gets past NewLimitWaitGroup with a size of zero.                 *)
GroupSizePositive == pc \notin {"dial", "prepare"} => NumWorkers > 0

(* Claimed by the option --connections, "Number of rpc connection to       *)
(* establish": the workers are started with that many connections.         *)
ConnectionsEstablished == spawned > 0 => clients = NumClients
=============================================================================
