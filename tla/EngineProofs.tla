----------------------------- MODULE EngineProofs -----------------------------
(***************************************************************************)
(* For any number of workers, any queue and any number of works, the       *)
(* engine loses and repeats no work, wg.Wait covers all of them, and the   *)
(* engine implements the abstract run of BenchmarkRun, provided that there *)
(* is a worker.  Without one, Run returns with works still in the channel. *)
(*                                                                         *)
(* The invariants of the wait group come from its own proofs, since every  *)
(* step of the engine is a step of the group or leaves it alone.           *)
(***************************************************************************)
EXTENDS Engine, FiniteSetTheorems, SequenceTheorems, TLAPS

Group == INSTANCE LimitWaitGroupProofs WITH Units <- Workers, Limit <- NumWorkers

Spawning == {"dial", "prepare", "spawn", "adding", "added"}
Over == {"settle", "done"}

(* The program counter of main against the variables it governs.           *)
MainOK ==
  /\ closed <=> pc \in {"wait", "waiting"} \cup Over
  /\ waiter = "waiting" <=> pc = "waiting"
  /\ waiter = "returned" <=> pc \in Over
  /\ pc \in {"adding", "added"} => spawned < NumWorkers
  /\ pc \notin Spawning => spawned = NumWorkers
  /\ pc \in Spawning \cup {"warm"} => nextIdx = 0
  /\ pc = "send" => nextIdx < MaxWork
  /\ pc \notin Spawning \cup {"warm", "send"} => nextIdx > 0

(* A unit of the wait group is the Add of main and the Done of a worker.   *)
StageOK ==
  \A w \in Workers :
    /\ stage[w] = "adding" <=> pc = "adding" /\ w = spawned
    /\ stage[w] = "occupied" <=> pc = "added" /\ w = spawned
    /\ stage[w] = "in" <=> wpc[w] \in {"start", "range", "working", "answered"}
    /\ stage[w] = "released" <=> wpc[w] = "leaving"
    /\ wpc[w] = "none" <=> w >= spawned

(* Workers leave an empty, closed channel; after Wait none is left.        *)
LeaveOK ==
  /\ \A w \in Workers : wpc[w] \in {"leaving", "gone"} => closed /\ workCh = <<>>
  /\ pc \in Over => \A w \in Workers : wpc[w] = "gone"

(* The channel holds the indices not yet taken, in order.                  *)
Taken == nextIdx - Len(workCh)

QueueOK ==
  /\ Len(workCh) <= nextIdx
  /\ \A k \in 1..Len(workCh) : workCh[k] = Taken + k - 1

(* A work that was taken is concluded or in progress with one worker; one  *)
(* that was not is neither.                                                *)
PlaceOK ==
  /\ \A w \in InProgress : cur[w] < Taken /\ verdict[cur[w]] = "none"
  /\ \A v, w \in InProgress : cur[v] = cur[w] => v = w
  /\ \A w \in Workers : wpc[w] = "answered" => answer[cur[w]] # "none"
  /\ \A i \in Works : i >= Taken => verdict[i] = "none"
  /\ \A i \in Works : i < Taken /\ verdict[i] = "none" => \E w \in InProgress : cur[w] = i

IInv == TypeOK /\ Group!IInv /\ MainOK /\ StageOK /\ LeaveOK /\ QueueOK /\ PlaceOK

-----------------------------------------------------------------------------
LEMMA WorkersFinite ==
  /\ IsFiniteSet(Workers) /\ Cardinality(Workers) = NumWorkers
  /\ NumWorkers \in Nat /\ QueueCap \in Nat \ {0} /\ MaxWork \in Nat \ {0}
  BY EngineAssumption, FS_Interval DEF Workers

(* Every step of the engine is one of the wait group, or leaves it alone.  *)
LEMMA GroupStep ==
  ASSUME TypeOK, MainOK, [Next]_vars
  PROVE  [Group!Next]_(Group!vars)
  <1>1. spawned < NumWorkers => spawned \in Workers
    BY EngineAssumption DEF TypeOK, Workers
  <1>2. CASE AddWorker
    BY <1>1, <1>2 DEF AddWorker, WG!BeginAdd, Group!BeginAdd, Group!Next, Group!UnitStep
  <1>3. CASE OccupySlot
    BY <1>1, <1>3 DEF OccupySlot, GoTo, MainOK, WG!Occupy, WG!Move, Group!Occupy, Group!Move,
                      Group!Next, Group!UnitStep
  <1>4. CASE GoConsume
    BY <1>1, <1>4 DEF GoConsume, GoTo, MainOK, WG!CountUp, WG!Move, Group!CountUp, Group!Move,
                      Group!Next, Group!UnitStep
  <1>5. CASE BeginWait
    BY <1>5 DEF BeginWait, WG!BeginWait, WG!In, Group!BeginWait, Group!In, Group!Next
  <1>6. CASE EndWait
    BY <1>6 DEF EndWait, WG!EndWait, Group!EndWait, Group!Next
  <1>7. ASSUME NEW w \in Workers, Leave(w) PROVE Group!Next
    BY <1>7 DEF Leave, WG!ReleaseSlot, WG!Move, Group!ReleaseSlot, Group!Move, Group!Next,
                Group!UnitStep
  <1>8. ASSUME NEW w \in Workers, Gone(w) PROVE Group!Next
    BY <1>8 DEF Gone, WG!CountDown, WG!Move, Group!CountDown, Group!Move, Group!Next,
                Group!UnitStep
  <1>9. CASE UNCHANGED groupVars
    BY <1>9 DEF groupVars, Group!vars
  <1> QED
    BY <1>2, <1>3, <1>4, <1>5, <1>6, <1>7, <1>8, <1>9
       DEF Next, Stopped, Step, MainStep, PlainMainStep, WorkerStep, PlainWorkerStep,
           Concludes, Answers, vars, Dial, Prepair, WarmUp, StartProducing, Send,
           DeadlinePasses, SendAnother, CloseWorkCh, Return, TestcaseFatal,
           CreateWorker, NoClientPanic, TakeWork, CtxExpires, DoWorkReturns, Conclude,
           ReturnAnswer, ReturnTimeout

(* The notions of a finite set and its number of elements that the proofs  *)
(* of the wait group are written with are the same as here.                *)
LEMMA SameCardinality ==
  ASSUME NEW S
  PROVE  /\ Group!IsFiniteSet(S) <=> IsFiniteSet(S)
         /\ Group!Cardinality(S) = Cardinality(S)
  BY DEF Group!IsFiniteSet, Group!Cardinality, IsFiniteSet, Cardinality

-----------------------------------------------------------------------------
LEMMA InitIInv == Init => IInv
  <1> SUFFICES ASSUME Init PROVE IInv
    OBVIOUS
  <1> USE WorkersFinite DEF Init, WG!Init
  <1>1. workCh \in Seq(Works)
    OBVIOUS
  <1>2. WG!TypeOK
    BY DEF WG!TypeOK, WG!Stages
  <1>3. 0 \in Works
    BY DEF Works
  <1>4. TypeOK
    <2>1. /\ proc \in {"up", "exited", "fatal", "panic"} /\ pc \in MainPcs
          /\ clients \in {0, NumClients} /\ closed \in BOOLEAN /\ late \in BOOLEAN
          /\ expired \in SUBSET Workers
      BY DEF MainPcs
    <2>2. spawned \in 0..NumWorkers /\ nextIdx \in 0..MaxWork /\ Len(workCh) <= QueueCap
      OBVIOUS
    <2>3. wpc \in [Workers -> WorkerPcs] /\ cur \in [Workers -> Works]
      BY <1>3 DEF WorkerPcs
    <2>4. /\ answer \in [Works -> {"none", "nil", "error"}]
          /\ verdict \in [Works -> {"none", "nil", "error", "timeout"}]
      OBVIOUS
    <2> QED
      BY <1>1, <1>2, <2>1, <2>2, <2>3, <2>4 DEF TypeOK
  <1>5. Group!IInv
    <2>1. Group!Init
      BY DEF Group!Init
    <2>2. NumWorkers \in Nat /\ IsFiniteSet(Workers)
      OBVIOUS
    <2> QED
      BY <2>1, <2>2, SameCardinality, Group!InitIInv
  <1>6. MainOK /\ StageOK /\ LeaveOK
    BY DEF MainOK, StageOK, LeaveOK, Spawning, Over, Workers
  <1>7. QueueOK /\ PlaceOK
    BY DEF QueueOK, PlaceOK, Taken, InProgress, Works
  <1> QED
    BY <1>4, <1>5, <1>6, <1>7 DEF IInv

-----------------------------------------------------------------------------
(* The steps that change none of the channel, the works and the workers.   *)
QuietStep ==
  \/ Dial \/ Prepair \/ TestcaseFatal \/ AddWorker \/ OccupySlot \/ WarmUp
  \/ StartProducing \/ DeadlinePasses \/ SendAnother \/ CloseWorkCh
  \/ BeginWait \/ Return \/ (\E w \in Workers : NoClientPanic(w)) \/ UNCHANGED vars

LEMMA QuietFrame ==
  ASSUME QuietStep
  PROVE  UNCHANGED <<spawned, nextIdx, workCh, wpc, workerVars>>
  BY DEF QuietStep, Dial, Prepair, TestcaseFatal, AddWorker, OccupySlot, WarmUp,
         StartProducing, DeadlinePasses, SendAnother, CloseWorkCh, BeginWait, Return,
         NoClientPanic, vars, engineVars, mainVars, workerVars

LEMMA TypeStep ==
  ASSUME TypeOK, Group!IInv', MainOK, [Next]_vars
  PROVE  TypeOK'
  <1> USE WorkersFinite DEF TypeOK
  <1>0. WG!TypeOK'
    BY DEF Group!IInv, Group!TypeOK, Group!Stages, WG!TypeOK, WG!Stages
  <1>1. CASE QuietStep
    <2>1. /\ proc' \in {"up", "exited", "fatal", "panic"} /\ pc' \in MainPcs
          /\ clients' \in {0, NumClients} /\ closed' \in BOOLEAN /\ late' \in BOOLEAN
      BY <1>1 DEF QuietStep, Dial, Prepair, TestcaseFatal, AddWorker, OccupySlot, WarmUp,
                  StartProducing, DeadlinePasses, SendAnother, CloseWorkCh, BeginWait,
                  Return, NoClientPanic, GoTo, MainPcs, vars, engineVars, mainVars
    <2> QED
      BY <1>0, <1>1, <2>1, QuietFrame DEF workerVars
  <1>2. CASE EndWait \/ GoConsume
    BY <1>0, <1>2 DEF EndWait, GoConsume, GoTo, MainPcs, WorkerPcs, workerVars, MainOK
  <1>3. CASE Send
    <2>1. nextIdx \in Works /\ nextIdx + 1 \in 0..MaxWork
      BY <1>3 DEF Send, GoTo, MainOK, Works
    <2>2. workCh' \in Seq(Works) /\ Len(workCh') = Len(workCh) + 1
      BY <1>3, <2>1, AppendProperties DEF Send
    <2> QED
      BY <1>0, <1>3, <2>1, <2>2 DEF Send, GoTo, MainPcs, workerVars
  <1>4. ASSUME NEW w \in Workers, CreateWorker(w) \/ Leave(w) \/ Gone(w) \/ CtxExpires(w)
        PROVE  TypeOK'
    BY <1>0, <1>4 DEF CreateWorker, Leave, Gone, CtxExpires, WorkerGoTo, WorkerPcs, mainVars,
                      workerVars
  <1>5. ASSUME NEW w \in Workers, TakeWork(w) PROVE TypeOK'
    <2>1. Head(workCh) \in Works /\ Tail(workCh) \in Seq(Works)
          /\ Len(Tail(workCh)) = Len(workCh) - 1
      BY <1>5, HeadTailProperties DEF TakeWork
    <2> QED
      BY <1>0, <1>5, <2>1 DEF TakeWork, WorkerGoTo, WorkerPcs, mainVars
  <1>6. ASSUME NEW w \in Workers, Answers(w) PROVE TypeOK'
    BY <1>0, <1>6 DEF Answers, DoWorkReturns, WorkerGoTo, WorkerPcs, mainVars
  <1>7. ASSUME NEW w \in Workers, Concludes(w) PROVE TypeOK'
    <2>1. PICK err \in {"none", "nil", "error", "timeout"} : Conclude(w, err)
      BY <1>7 DEF Concludes, ReturnAnswer, ReturnTimeout
    <2> QED
      BY <1>0, <2>1 DEF Conclude, WorkerGoTo, WorkerPcs, mainVars
  <1> QED
    BY <1>1, <1>2, <1>3, <1>4, <1>5, <1>6, <1>7
       DEF Next, Stopped, Step, MainStep, PlainMainStep, WorkerStep, PlainWorkerStep,
           QuietStep
-----------------------------------------------------------------------------
(* The numbers of the wait group: one Add has room as long as a worker is  *)
(* outside, and nobody is inside once the sync.WaitGroup is down to zero.  *)
LEMMA RoomToAdd ==
  ASSUME IInv, pc = "adding"
  PROVE  occupiedCh < NumWorkers
  <1> USE WorkersFinite
  <1> DEFINE Slots == {u \in Workers : stage[u] \in {"occupied", "in"}}
  <1>1. occupiedCh = Cardinality(Slots)
    BY SameCardinality DEF IInv, Group!IInv, Group!CountersOK, Group!In
  <1>2. spawned \in Workers /\ spawned \notin Slots
    BY DEF IInv, TypeOK, MainOK, StageOK, Workers
  <1>3. Slots \subseteq Workers /\ Slots # Workers
    BY <1>2
  <1>4. Cardinality(Slots) < Cardinality(Workers)
    <2> HIDE DEF Slots
    <2> QED
      BY <1>3, Slots \in SUBSET Workers, FS_Subset, FS_CardinalityType
  <1> QED
    BY <1>1, <1>4

LEMMA NobodyIn ==
  ASSUME IInv, wg = 0
  PROVE  \A w \in Workers : stage[w] \notin {"in", "released"}
  <1> DEFINE Counted == {u \in Workers : stage[u] \in {"in", "released"}}
  <1>1. Cardinality(Counted) = 0
    BY SameCardinality DEF IInv, Group!IInv, Group!CountersOK, Group!In
  <1>2. IsFiniteSet(Counted)
    BY WorkersFinite, FS_Subset, Counted \subseteq Workers
  <1>3. Counted = {}
    <2> HIDE DEF Counted
    <2> QED
      BY <1>1, <1>2, FS_EmptySet
  <1> QED
    BY <1>3

-----------------------------------------------------------------------------
(* The invariants about who is where, one step per group of actions.       *)
LEMMA ControlStep ==
  ASSUME IInv, TypeOK', [Next]_vars
  PROVE  MainOK' /\ StageOK' /\ LeaveOK'
  <1> USE DEF IInv
  <1>0. NumWorkers \in Nat /\ spawned \in 0..NumWorkers /\ Workers = 0..(NumWorkers - 1)
    BY WorkersFinite DEF TypeOK, Workers
  <1>1. CASE Dial \/ Prepair \/ TestcaseFatal \/ WarmUp \/ StartProducing \/ SendAnother
             \/ DeadlinePasses \/ (\E w \in Workers : NoClientPanic(w)) \/ UNCHANGED vars
    <2>1. UNCHANGED <<spawned, nextIdx, workCh, closed, wpc, groupVars>>
      BY <1>1 DEF Dial, Prepair, TestcaseFatal, WarmUp, StartProducing, SendAnother,
                  DeadlinePasses, NoClientPanic, vars, engineVars, mainVars
    <2>2. MainOK'
      BY <1>1, <2>1, WorkersFinite DEF MainOK, Spawning, Over, GoTo, Dial, Prepair, TestcaseFatal, WarmUp,
                        StartProducing, SendAnother, DeadlinePasses, NoClientPanic, vars,
                        engineVars, mainVars, groupVars
    <2>3. pc' = pc \/ (pc \notin {"adding", "added"} \cup Over /\ pc' \notin {"adding", "added"} \cup Over)
      BY <1>1 DEF Over, GoTo, Dial, Prepair, TestcaseFatal, WarmUp, StartProducing,
                  SendAnother, DeadlinePasses, NoClientPanic, vars, engineVars, mainVars
    <2> QED
      BY <2>1, <2>2, <2>3 DEF StageOK, LeaveOK, groupVars
  <1>2. CASE AddWorker
    <2>1. MainOK'
      BY <1>2 DEF AddWorker, GoTo, WG!BeginAdd, MainOK, Spawning, Over
    <2>2. StageOK' /\ LeaveOK'
      BY <1>0, <1>2 DEF AddWorker, GoTo, WG!BeginAdd, StageOK, LeaveOK, Over, TypeOK,
                        WG!TypeOK
    <2> QED
      BY <2>1, <2>2
  <1>3. CASE OccupySlot
    <2>1. MainOK'
      BY <1>3 DEF OccupySlot, GoTo, WG!Occupy, MainOK, Spawning, Over
    <2>2. StageOK'
      BY <1>0, <1>3 DEF OccupySlot, GoTo, WG!Occupy, WG!Move, StageOK, TypeOK, WG!TypeOK
    <2>3. LeaveOK'
      BY <1>3 DEF OccupySlot, GoTo, LeaveOK, Over
    <2> QED
      BY <2>1, <2>2, <2>3
  <1>4. CASE GoConsume
    <2>1. MainOK'
      BY <1>0, <1>4 DEF GoConsume, GoTo, WG!CountUp, MainOK, Spawning, Over
    <2>2. StageOK'
      BY <1>0, <1>4 DEF GoConsume, GoTo, WG!CountUp, WG!Move, StageOK, TypeOK, WG!TypeOK
    <2>3. LeaveOK'
      BY <1>0, <1>4 DEF GoConsume, GoTo, LeaveOK, Over, TypeOK
    <2> QED
      BY <2>1, <2>2, <2>3
  <1>5. CASE Send
    <2>1. MainOK'
      BY <1>5 DEF Send, GoTo, MainOK, Spawning, Over, groupVars, TypeOK
    <2>2. StageOK' /\ LeaveOK'
      BY <1>5 DEF Send, GoTo, StageOK, LeaveOK, MainOK, Over, groupVars
    <2> QED
      BY <2>1, <2>2
  <1>6. CASE CloseWorkCh \/ BeginWait
    <2>1. MainOK'
      BY <1>6 DEF CloseWorkCh, BeginWait, WG!BeginWait, GoTo, MainOK, Spawning, Over, groupVars
    <2>2. StageOK' /\ LeaveOK'
      BY <1>6 DEF CloseWorkCh, BeginWait, WG!BeginWait, GoTo, StageOK, LeaveOK, MainOK, Over,
                  groupVars
    <2> QED
      BY <2>1, <2>2
  <1>7. CASE EndWait
    <2>1. MainOK' /\ StageOK'
      BY <1>7 DEF EndWait, WG!EndWait, GoTo, MainOK, StageOK, Spawning, Over
    <2>2. \A w \in Workers : wpc[w] = "gone"
      <3>1. wg = 0 /\ spawned = NumWorkers
        BY <1>7 DEF EndWait, WG!EndWait, GoTo, MainOK, Spawning
      <3> QED
        <4>1. SUFFICES ASSUME NEW w \in Workers PROVE wpc[w] = "gone"
          OBVIOUS
        <4>2. stage[w] \notin {"in", "released"} /\ ~(w >= spawned)
          BY <1>0, <3>1, NobodyIn
        <4>3. wpc[w] \in WorkerPcs
          BY DEF TypeOK
        <4> QED
          BY <4>2, <4>3 DEF StageOK, WorkerPcs
    <2> QED
      BY <1>7, <2>1, <2>2 DEF EndWait, LeaveOK
  <1>8. CASE Return
    BY <1>8 DEF Return, GoTo, MainOK, StageOK, LeaveOK, Spawning, Over, groupVars
  <1>9. ASSUME NEW w \in Workers,
               CreateWorker(w) \/ TakeWork(w) \/ Answers(w) \/ Concludes(w) \/ CtxExpires(w)
        PROVE  MainOK' /\ StageOK' /\ LeaveOK'
    <2>1. /\ UNCHANGED <<mainVars, groupVars>>
          /\ wpc' = wpc \/ \E from, to \in {"start", "range", "working", "answered"} :
                             WorkerGoTo(w, from, to)
      BY <1>9 DEF CreateWorker, TakeWork, Answers, DoWorkReturns, Concludes, ReturnAnswer,
                  ReturnTimeout, Conclude, CtxExpires, WorkerGoTo
    <2>2. workCh' = workCh \/ workCh # <<>>
      BY <1>9 DEF CreateWorker, TakeWork, Answers, DoWorkReturns, Concludes, ReturnAnswer,
                  ReturnTimeout, Conclude, CtxExpires
    <2>3. MainOK'
      BY <2>1 DEF MainOK, mainVars, groupVars, Spawning, Over
    <2>4. StageOK'
      BY <2>1 DEF StageOK, WorkerGoTo, mainVars, groupVars, TypeOK
    <2>5. LeaveOK'
      BY <2>1, <2>2 DEF LeaveOK, WorkerGoTo, mainVars, Over, TypeOK
    <2> QED
      BY <2>3, <2>4, <2>5
  <1>10. ASSUME NEW w \in Workers, Leave(w) \/ Gone(w)
         PROVE  MainOK' /\ StageOK' /\ LeaveOK'
    <2>1. MainOK'
      BY <1>10 DEF Leave, Gone, WG!ReleaseSlot, WG!CountDown, MainOK, mainVars, Spawning, Over
    <2>2. StageOK'
      BY <1>10 DEF Leave, Gone, WG!ReleaseSlot, WG!CountDown, WG!Move, StageOK, WorkerGoTo,
                   mainVars, TypeOK, WG!TypeOK
    <2>3. LeaveOK'
      BY <1>10 DEF Leave, Gone, LeaveOK, WorkerGoTo, mainVars, Over, TypeOK
    <2> QED
      BY <2>1, <2>2, <2>3
  <1> QED
    BY <1>1, <1>2, <1>3, <1>4, <1>5, <1>6, <1>7, <1>8, <1>9, <1>10
       DEF Next, Stopped, Step, MainStep, PlainMainStep, WorkerStep, PlainWorkerStep
-----------------------------------------------------------------------------
(* The invariants about where the works are.                               *)
LEMMA QueueStep ==
  ASSUME IInv, [Next]_vars
  PROVE  QueueOK'
  <1> USE DEF IInv
  <1>0. workCh \in Seq(Works) /\ Len(workCh) \in Nat /\ nextIdx \in Nat
    BY DEF TypeOK
  <1>1. CASE Send
    <2>1. /\ workCh' = Append(workCh, nextIdx) /\ nextIdx' = nextIdx + 1
          /\ nextIdx \in Works
      BY <1>1, WorkersFinite DEF Send, GoTo, MainOK, TypeOK, Works
    <2>2. /\ Len(workCh') = Len(workCh) + 1 /\ workCh'[Len(workCh) + 1] = nextIdx
          /\ \A k \in 1..Len(workCh) : workCh'[k] = workCh[k]
      BY <1>0, <2>1, AppendProperties
    <2>3. Taken' = Taken
      BY <1>0, <2>1, <2>2 DEF Taken
    <2>4. ASSUME NEW k \in 1..Len(workCh') PROVE workCh'[k] = Taken' + k - 1
      <3>1. k \in 1..Len(workCh) \/ k = Len(workCh) + 1
        BY <1>0, <2>2
      <3>2. CASE k \in 1..Len(workCh)
        BY <2>2, <2>3, <3>2 DEF QueueOK
      <3>3. CASE k = Len(workCh) + 1
        BY <1>0, <2>2, <2>3, <3>3 DEF Taken
      <3> QED
        BY <3>1, <3>2, <3>3
    <2> QED
      BY <1>0, <2>1, <2>2, <2>4 DEF QueueOK
  <1>2. ASSUME NEW w \in Workers, TakeWork(w) PROVE QueueOK'
    <2>1. workCh # <<>> /\ workCh' = Tail(workCh) /\ nextIdx' = nextIdx
      BY <1>2 DEF TakeWork, mainVars
    <2>2. /\ Len(workCh') = Len(workCh) - 1
          /\ \A k \in 1..Len(workCh') : workCh'[k] = workCh[k + 1]
      BY <1>0, <2>1, HeadTailProperties
    <2> QED
      BY <1>0, <2>1, <2>2 DEF QueueOK, Taken
  <1>3. CASE UNCHANGED <<workCh, nextIdx>>
    BY <1>3 DEF QueueOK, Taken
  <1> QED
    BY <1>1, <1>2, <1>3 DEF Next, Stopped, Step, MainStep, PlainMainStep, WorkerStep,
       PlainWorkerStep, vars, engineVars, mainVars, Dial, Prepair, TestcaseFatal, AddWorker,
       OccupySlot, GoConsume, WarmUp, StartProducing, DeadlinePasses, SendAnother, CloseWorkCh,
       BeginWait, EndWait, Return, CreateWorker, NoClientPanic, CtxExpires, Answers,
       DoWorkReturns, Leave, Gone, Concludes, ReturnAnswer, ReturnTimeout, Conclude

(* The head of the channel is the oldest work not yet taken.               *)
LEMMA HeadIsTaken ==
  ASSUME IInv, workCh # <<>>
  PROVE  /\ Head(workCh) = Taken /\ Taken \in Works /\ Taken < nextIdx
         /\ Len(Tail(workCh)) = Len(workCh) - 1
  <1>1. workCh \in Seq(Works) /\ Len(workCh) \in Nat \ {0} /\ nextIdx \in 0..MaxWork
    BY DEF IInv, TypeOK
  <1>2. Head(workCh) = workCh[1] /\ Len(Tail(workCh)) = Len(workCh) - 1
    BY <1>1, HeadTailProperties
  <1>3. workCh[1] = Taken /\ Taken \in Nat /\ Taken < nextIdx
    BY <1>1 DEF IInv, QueueOK, Taken
  <1> QED
    BY <1>1, <1>2, <1>3, WorkersFinite DEF Works

LEMMA PlaceStep ==
  ASSUME IInv, [Next]_vars
  PROVE  PlaceOK'
  <1> USE DEF IInv
  <1>0. /\ workCh \in Seq(Works) /\ Len(workCh) \in Nat /\ nextIdx \in Nat
        /\ wpc \in [Workers -> WorkerPcs] /\ cur \in [Workers -> Works]
        /\ verdict \in [Works -> {"none", "nil", "error", "timeout"}]
        /\ Taken \in Nat
    BY DEF TypeOK, QueueOK, Taken
  <1>1. CASE Send
    <2>1. nextIdx \in Works
      BY <1>1, WorkersFinite DEF Send, GoTo, MainOK, TypeOK, Works
    <2>2. Taken' = Taken
      BY <1>0, <1>1, <2>1, AppendProperties DEF Send, Taken
    <2> QED
      BY <1>1, <2>2 DEF Send, PlaceOK, InProgress, workerVars
  <1>2. ASSUME NEW w \in Workers, TakeWork(w) PROVE PlaceOK'
    <2>1. /\ Taken' = Taken + 1 /\ cur' = [cur EXCEPT ![w] = Taken]
          /\ verdict' = verdict /\ answer' = answer /\ Taken \in Works
      <3>1. workCh # <<>> /\ workCh' = Tail(workCh) /\ nextIdx' = nextIdx
            /\ cur' = [cur EXCEPT ![w] = Head(workCh)] /\ UNCHANGED <<answer, verdict>>
        BY <1>2 DEF TakeWork, mainVars
      <3>2. Len(workCh') = Len(workCh) - 1 /\ Head(workCh) = Taken /\ Taken \in Works
        BY <3>1, HeadIsTaken
      <3>3. Taken' = Taken + 1
        BY <1>0, <3>1, <3>2 DEF Taken
      <3> QED
        BY <3>1, <3>2, <3>3
    <2>2. InProgress' = InProgress \cup {w} /\ w \notin InProgress
      BY <1>0, <1>2 DEF TakeWork, WorkerGoTo, InProgress
    <2>3. ASSUME NEW v \in InProgress' PROVE cur'[v] < Taken' /\ verdict'[cur'[v]] = "none"
      BY <1>0, <2>1, <2>2, <2>3 DEF PlaceOK, InProgress, Works
    <2>4. ASSUME NEW v \in InProgress', NEW u \in InProgress', cur'[v] = cur'[u]
          PROVE  v = u
      BY <1>0, <2>1, <2>2, <2>4 DEF PlaceOK, InProgress, Works
    <2>5. \A i \in Works : i >= Taken' => verdict'[i] = "none"
      BY <1>0, <2>1 DEF PlaceOK, Works
    <2>6. ASSUME NEW i \in Works, i < Taken', verdict'[i] = "none"
          PROVE  \E v \in InProgress' : cur'[v] = i
      <3>1. CASE i = Taken
        BY <1>0, <2>1, <2>2, <3>1 DEF InProgress
      <3>2. CASE i < Taken
        BY <1>0, <2>1, <2>2, <2>6, <3>2 DEF PlaceOK, InProgress
      <3> QED
        BY <1>0, <2>1, <2>6, <3>1, <3>2 DEF Works
    <2>7. \A v \in Workers : wpc'[v] = "answered" => answer'[cur'[v]] # "none"
      BY <1>0, <1>2, <2>1 DEF TakeWork, WorkerGoTo, PlaceOK
    <2> QED
      BY <2>3, <2>4, <2>5, <2>6, <2>7 DEF PlaceOK
  <1>3. ASSUME NEW w \in Workers, Concludes(w) PROVE PlaceOK'
    <2>1. PICK err \in {"nil", "error", "timeout"} : Conclude(w, err)
      BY <1>0, <1>3 DEF Concludes, ReturnAnswer, ReturnTimeout, Conclude, WorkerGoTo, TypeOK,
                        PlaceOK
    <2>2. InProgress' = InProgress \ {w} /\ w \in InProgress
      BY <1>0, <2>1 DEF Conclude, WorkerGoTo, InProgress
    <2>3. /\ Taken' = Taken /\ cur' = cur /\ answer' = answer
          /\ verdict' = [verdict EXCEPT ![cur[w]] = err]
          /\ wpc' = [wpc EXCEPT ![w] = "range"]
      BY <2>1 DEF Conclude, Taken, mainVars, WorkerGoTo
    <2>4. \A v \in InProgress' : cur[v] < Taken /\ verdict'[cur[v]] = "none"
      BY <1>0, <2>2, <2>3 DEF PlaceOK, InProgress
    <2>5. \A v \in Workers : wpc'[v] = "answered" => answer[cur[v]] # "none"
      BY <1>0, <2>3 DEF PlaceOK
    <2>6. \A i \in Works : i >= Taken => verdict'[i] = "none"
      BY <1>0, <2>2, <2>3 DEF PlaceOK, Works, InProgress
    <2>7. ASSUME NEW i \in Works, i < Taken, verdict'[i] = "none"
          PROVE  \E v \in InProgress' : cur[v] = i
      BY <1>0, <2>2, <2>3, <2>7 DEF PlaceOK, InProgress
    <2> QED
      BY <2>2, <2>3, <2>4, <2>5, <2>6, <2>7 DEF PlaceOK
  <1>4. ASSUME NEW w \in Workers, Answers(w) PROVE PlaceOK'
    <2>1. PICK err \in {"nil", "error"} : DoWorkReturns(w, err)
      BY <1>4 DEF Answers
    <2>2. InProgress' = InProgress
      BY <1>0, <2>1 DEF DoWorkReturns, WorkerGoTo, InProgress
    <2>3. Taken' = Taken /\ cur' = cur /\ verdict' = verdict
      BY <2>1 DEF DoWorkReturns, mainVars, Taken
    <2>4. \A v \in Workers : wpc'[v] = "answered" => answer'[cur[v]] # "none"
      BY <1>0, <2>1 DEF DoWorkReturns, WorkerGoTo, PlaceOK, TypeOK
    <2> QED
      BY <2>2, <2>3, <2>4 DEF PlaceOK
  <1>5. ASSUME NEW w \in Workers, CreateWorker(w) \/ Leave(w) \/ Gone(w) PROVE PlaceOK'
    <2>1. Taken' = Taken /\ cur' = cur /\ verdict' = verdict /\ answer' = answer
      BY <1>5 DEF CreateWorker, Leave, Gone, mainVars, workerVars, Taken
    <2>2. /\ InProgress' = InProgress
          /\ \A v \in Workers : wpc'[v] = "answered" => wpc[v] = "answered"
      BY <1>0, <1>5 DEF CreateWorker, Leave, Gone, WorkerGoTo, InProgress
    <2> QED
      BY <2>1, <2>2 DEF PlaceOK
  <1>6. CASE GoConsume
    <2>1. spawned \in Workers /\ wpc[spawned] = "none"
      BY <1>6, WorkersFinite DEF GoConsume, GoTo, MainOK, StageOK, TypeOK, Workers
    <2>2. /\ InProgress' = InProgress
          /\ \A v \in Workers : wpc'[v] = "answered" => wpc[v] = "answered"
      BY <1>0, <1>6, <2>1 DEF GoConsume, InProgress
    <2>3. Taken' = Taken /\ cur' = cur /\ verdict' = verdict /\ answer' = answer
      BY <1>6 DEF GoConsume, workerVars, Taken
    <2> QED
      BY <2>2, <2>3 DEF PlaceOK
  <1>7. CASE UNCHANGED <<workCh, nextIdx, wpc, cur, answer, verdict>>
    BY <1>7 DEF PlaceOK, Taken, InProgress
  <1> QED
    BY <1>1, <1>2, <1>3, <1>4, <1>5, <1>6, <1>7
       DEF Next, Stopped, Step, MainStep, PlainMainStep, WorkerStep, PlainWorkerStep, vars,
           engineVars, mainVars, workerVars, Dial, Prepair, TestcaseFatal, AddWorker,
           OccupySlot, WarmUp, StartProducing, DeadlinePasses, SendAnother, CloseWorkCh,
           BeginWait, EndWait, Return, NoClientPanic, CtxExpires
-----------------------------------------------------------------------------
LEMMA NextIInv == IInv /\ [Next]_vars => IInv'
  <1> SUFFICES ASSUME IInv, [Next]_vars PROVE IInv'
    OBVIOUS
  <1>1. Group!IInv'
    <2>1. NumWorkers \in Nat /\ Group!IsFiniteSet(Workers)
      BY WorkersFinite, SameCardinality
    <2>2. [Group!Next]_(Group!vars)
      BY GroupStep DEF IInv
    <2> QED
      BY <2>1, <2>2, Group!NextIInv DEF IInv
  <1>2. TypeOK'
    BY <1>1, TypeStep DEF IInv
  <1> QED
    BY <1>1, <1>2, ControlStep, QueueStep, PlaceStep DEF IInv

LEMMA InvariantHolds == Spec => []IInv
  BY InitIInv, NextIInv, PTL DEF Spec

(* Type correctness of the engine and of its wait group, for any number of *)
(* workers, clients, works and any capacity of the channel.                *)
THEOREM TypeCorrect == Spec => []TypeOK
  <1>1. IInv => TypeOK
    BY DEF IInv
  <1> QED
    BY <1>1, InvariantHolds, PTL

(* wg.Add never makes Run wait: however many workers there are, the slot   *)
(* of the one being added is free.                                         *)
THEOREM AddsAreFree == Spec => []AddNeverBlocks
  <1>1. IInv => AddNeverBlocks
    BY RoomToAdd DEF AddNeverBlocks
  <1> QED
    BY <1>1, InvariantHolds, PTL

(* A work that was sent is in the channel once, or with one worker, or     *)
(* concluded: never lost, never in two of these places.                    *)
THEOREM OnePlace == Spec => []WorkInOnePlace
  <1>1. ASSUME IInv, NEW i \in 0..(nextIdx - 1)
        PROVE  Cardinality({k \in 1..Len(workCh) : workCh[k] = i})
                 + Cardinality({w \in InProgress : cur[w] = i})
                 + (IF verdict[i] # "none" THEN 1 ELSE 0) = 1
    <2> DEFINE queued == {k \in 1..Len(workCh) : workCh[k] = i}
               working == {w \in InProgress : cur[w] = i}
    <2>1. /\ i \in Works /\ nextIdx \in Nat /\ Len(workCh) \in Nat /\ Taken \in Nat
          /\ Len(workCh) = nextIdx - Taken
      BY <1>1, WorkersFinite DEF IInv, TypeOK, Works, Taken, QueueOK
    <2>2. \A k \in 1..Len(workCh) : workCh[k] = Taken + k - 1
      BY <1>1 DEF IInv, QueueOK
    <2>3. Cardinality({}) = 0 /\ \A e : Cardinality({e}) = 1
      BY FS_EmptySet, FS_Singleton
    <2>4. CASE i >= Taken
      <3>1. queued = {i - Taken + 1}
        BY <2>1, <2>2, <2>4
      <3>2. working = {} /\ verdict[i] = "none"
        <4>1. \A w \in InProgress : cur[w] < Taken
          BY <1>1 DEF IInv, PlaceOK
        <4>2. \A w \in InProgress : cur[w] \in Nat
          BY <1>1 DEF IInv, TypeOK, InProgress, Works
        <4> QED
          BY <1>1, <2>1, <2>4, <4>1, <4>2 DEF IInv, PlaceOK
      <3> HIDE DEF queued, working
      <3>3. Cardinality(queued) = 1 /\ Cardinality(working) = 0
        BY <2>3, <3>1, <3>2
      <3> QED
        BY <3>2, <3>3 DEF queued, working
    <2>5. CASE i < Taken
      <3>1. queued = {}
        BY <2>1, <2>2, <2>5
      <3>2. CASE verdict[i] = "none"
        <4>1. PICK w \in InProgress : cur[w] = i
          BY <1>1, <2>1, <2>5, <3>2 DEF IInv, PlaceOK
        <4>2. working = {w}
          BY <1>1, <4>1 DEF IInv, PlaceOK
        <4> HIDE DEF queued, working
        <4>3. Cardinality(queued) = 0 /\ Cardinality(working) = 1
          BY <2>3, <3>1, <4>2
        <4> QED
          BY <3>2, <4>3 DEF queued, working
      <3>3. CASE verdict[i] # "none"
        <4>1. working = {}
          BY <1>1, <3>3 DEF IInv, PlaceOK
        <4> HIDE DEF queued, working
        <4>2. Cardinality(queued) = 0 /\ Cardinality(working) = 0
          BY <2>3, <3>1, <4>1
        <4> QED
          BY <3>3, <4>2 DEF queued, working
      <3> QED
        BY <3>2, <3>3
    <2> QED
      BY <2>1, <2>4, <2>5
  <1>2. IInv => WorkInOnePlace
    BY <1>1 DEF WorkInOnePlace
  <1> QED
    BY <1>2, InvariantHolds, PTL

LEMMA WaitCoversInv == IInv => WaitCoversAllWork
  <1>1. ASSUME IInv, pc \in {"settle", "done"}, NumWorkers > 0
        PROVE  /\ workCh = <<>>
               /\ \A i \in Works : i < nextIdx <=> verdict[i] # "none"
               /\ \A w \in Workers : wpc[w] = "gone"
    <2>1. \A w \in Workers : wpc[w] = "gone"
      BY <1>1 DEF IInv, LeaveOK, Over
    <2>2. workCh = <<>>
      BY <1>1, <2>1, WorkersFinite, 0 \in Workers DEF IInv, LeaveOK, Workers
    <2>3. Taken = nextIdx
      BY <1>1, <2>2 DEF Taken, IInv, TypeOK
    <2>4. InProgress = {}
      BY <2>1 DEF InProgress
    <2> QED
      BY <1>1, <2>1, <2>2, <2>3, <2>4 DEF IInv, PlaceOK, TypeOK, Works
  <1> QED
    BY <1>1 DEF WaitCoversAllWork

(* When wg.Wait has returned, every work that was sent is concluded, if    *)
(* there is a worker at all.                                               *)
THEOREM WaitCovers == Spec => []WaitCoversAllWork
  BY WaitCoversInv, InvariantHolds, PTL

(* The engine has no deadlock: until the channel is closed no worker       *)
(* leaves, so that a full channel has a worker to take from it; after that *)
(* a worker in the wait group goes on to its Done.                         *)
THEOREM NeverDeadlocked == Spec => []NoCircularWait
  <1>1. ASSUME IInv, NumWorkers > 0, RunIsBlocked PROVE \E w \in Workers : CanGoOn(w)
    <2>1. pc # "adding"
      BY <1>1, RoomToAdd, WorkersFinite DEF RunIsBlocked
    <2>2. CASE pc = "send" /\ Len(workCh) = QueueCap
      <3>1. 0 \in Workers /\ spawned = NumWorkers /\ ~closed /\ workCh # <<>>
        BY <1>1, <2>2, WorkersFinite DEF IInv, MainOK, TypeOK, Spawning, Over, Workers
      <3>2. wpc[0] \notin {"none", "leaving", "gone"} /\ wpc[0] \in WorkerPcs
        BY <1>1, <3>1, WorkersFinite DEF IInv, StageOK, LeaveOK, TypeOK, Workers
      <3> QED
        BY <3>1, <3>2 DEF CanGoOn, WorkerPcs
    <2>3. CASE pc = "waiting" /\ wg > 0
      <3> DEFINE Counted == {u \in Workers : stage[u] \in {"in", "released"}}
      <3>1. wg = Cardinality(Counted)
        BY <1>1, SameCardinality DEF IInv, Group!IInv, Group!CountersOK, Group!In
      <3>2. Counted # {}
        <4> HIDE DEF Counted
        <4> QED
          BY <2>3, <3>1, FS_EmptySet
      <3>3. PICK w \in Workers : stage[w] \in {"in", "released"}
        BY <3>2
      <3>4. closed
        BY <1>1, <2>3 DEF IInv, MainOK
      <3> QED
        BY <1>1, <3>3, <3>4 DEF IInv, StageOK, CanGoOn
    <2> QED
      BY <1>1, <2>1, <2>2, <2>3 DEF RunIsBlocked
  <1>2. IInv => NoCircularWait
    BY <1>1 DEF NoCircularWait
  <1> QED
    BY <1>2, InvariantHolds, PTL

-----------------------------------------------------------------------------
(* Each step of the engine is a step of the abstract run or leaves it      *)
(* unchanged.                                                              *)
LEMMA RunStep ==
  ASSUME IInv, IInv', [Next]_vars, NumWorkers > 0
  PROVE  [Run!Next]_(Run!vars)
  <1> DEFINE running == {cur[w] : w \in InProgress}
  <1>0. /\ workCh \in Seq(Works) /\ Len(workCh) \in Nat /\ nextIdx \in Nat
        /\ wpc \in [Workers -> WorkerPcs] /\ cur \in [Workers -> Works]
    BY DEF IInv, TypeOK
  <1>1. CASE Send
    <2>1. Len(workCh') = Len(workCh) + 1 /\ nextIdx' = nextIdx + 1 /\ Len(workCh) < QueueCap
      BY <1>0, <1>1, WorkersFinite, AppendProperties DEF Send, GoTo, IInv, MainOK, TypeOK, Works
    <2>2. ~closed /\ pc' \notin {"settle", "done"} /\ pc \notin {"settle", "done"}
      BY <1>1 DEF Send, GoTo, IInv, MainOK, Over
    <2>3. nextIdx' - Len(workCh') = nextIdx - Len(workCh)
          /\ nextIdx - (nextIdx - Len(workCh)) < QueueCap
      BY <1>0, <2>1, WorkersFinite
    <2>4. running' = running /\ closed' = closed
      BY <1>1 DEF Send, InProgress, workerVars
    <2> HIDE DEF running
    <2>5. (~closed)' = ~closed /\ (pc \in {"settle", "done"})' = (pc \in {"settle", "done"})
      BY <2>2, <2>4
    <2>6. Run!Issue
      BY <2>1, <2>2, <2>3, <2>4, <2>5 DEF Run!Issue, running
    <2> QED
      BY <2>6 DEF Run!Next
  <1>2. CASE CloseWorkCh
    BY <1>0, <1>2 DEF CloseWorkCh, GoTo, InProgress, workerVars, IInv, MainOK, Over, Spawning,
                      TypeOK, Run!Next, Run!Close
  <1>3. CASE EndWait
    <2>1. workCh' = <<>> /\ (\A w \in Workers : wpc'[w] = "gone") /\ closed
      BY <1>3, WorkersFinite, 0 \in Workers
         DEF EndWait, GoTo, IInv, MainOK, LeaveOK, Over, Workers, TypeOK
    <2>2. InProgress' = {} /\ InProgress = {}
      BY <1>3, <2>1 DEF InProgress, EndWait
    <2>3. running = {} /\ running' = {} /\ Len(workCh) = 0
      BY <1>3, <2>1, <2>2 DEF EndWait
    <2>4. (pc \in {"settle", "done"}) = FALSE /\ (pc \in {"settle", "done"})' = TRUE
      BY <1>3 DEF EndWait, GoTo
    <2>5. UNCHANGED <<closed, nextIdx, workCh>> /\ nextIdx - Len(workCh) = nextIdx
      BY <1>0, <1>3, <2>3 DEF EndWait
    <2> QED
      BY <2>1, <2>3, <2>4, <2>5 DEF Run!Next, Run!Return
  <1>4. ASSUME NEW w \in Workers, TakeWork(w) PROVE Run!Take
    <2>1. /\ workCh # <<>> /\ workCh' = Tail(workCh) /\ cur' = [cur EXCEPT ![w] = Taken]
          /\ UNCHANGED <<nextIdx, closed, pc>> /\ Taken < nextIdx
          /\ Len(workCh') = Len(workCh) - 1
      BY <1>4, HeadIsTaken DEF TakeWork, mainVars
    <2>2. Taken' = Taken + 1
      BY <1>0, <2>1 DEF Taken
    <2>3. InProgress' = InProgress \cup {w} /\ w \notin InProgress
      BY <1>0, <1>4 DEF TakeWork, WorkerGoTo, InProgress
    <2>4. running' = running \cup {Taken}
      BY <1>0, <2>1, <2>3 DEF InProgress
    <2>5. Cardinality(running) < NumWorkers
      <3>1. InProgress \in SUBSET Workers /\ InProgress # Workers
        BY <2>3 DEF InProgress
      <3>2. /\ IsFiniteSet(InProgress) /\ Cardinality(InProgress) \in Nat
            /\ Cardinality(InProgress) < NumWorkers
        BY <3>1, WorkersFinite, FS_Subset, FS_CardinalityType
      <3> DEFINE work == [v \in InProgress |-> cur[v]]
      <3>3. work \in Surjection(InProgress, running)
        BY DEF Surjection
      <3>4. Cardinality(running) <= Cardinality(InProgress) /\ Cardinality(running) \in Nat
        <4> HIDE DEF work, running
        <4> QED
          BY <3>2, <3>3, FS_Surjection, FS_CardinalityType
      <3> HIDE DEF running
      <3> QED
        BY <3>2, <3>4, WorkersFinite
    <2>6. Run!Cardinality(running) = Cardinality(running)
      BY DEF Run!Cardinality, Cardinality
    <2> QED
      BY <2>1, <2>2, <2>4, <2>5, <2>6 DEF Run!Take, Taken
  <1>5. ASSUME NEW w \in Workers, Concludes(w) PROVE Run!Next
    <2>1. /\ wpc' = [wpc EXCEPT ![w] = "range"] /\ wpc[w] = "answered"
          /\ UNCHANGED <<nextIdx, closed, pc, workCh, cur>>
      BY <1>5 DEF Concludes, ReturnAnswer, ReturnTimeout, Conclude, WorkerGoTo, mainVars
    <2>2. InProgress' = InProgress \ {w} /\ w \in InProgress
      BY <1>0, <2>1 DEF InProgress
    <2>3. running' = running \ {cur[w]} /\ cur[w] \in running
      BY <2>1, <2>2 DEF IInv, PlaceOK
    <2>4. /\ (~closed)' = ~closed
          /\ (nextIdx - Len(workCh))' = nextIdx - Len(workCh)
          /\ (pc \in {"settle", "done"})' = (pc \in {"settle", "done"})
      BY <2>1
    <2>5. \E i \in running : i = cur[w] /\ running' = running \ {i}
      BY <2>3
    <2> QED
      BY <2>1, <2>4, <2>5 DEF Run!Next, Run!Complete
  <1>6. CASE UNCHANGED <<closed, nextIdx, workCh, cur>> /\ InProgress' = InProgress
             /\ (pc' \in {"settle", "done"} <=> pc \in {"settle", "done"})
    BY <1>6 DEF Run!vars
  <1>7. ASSUME NEW w \in Workers, CreateWorker(w) \/ Leave(w) \/ Gone(w) \/ Answers(w)
        PROVE  /\ UNCHANGED <<closed, nextIdx, workCh, cur, pc>>
               /\ InProgress' = InProgress
    BY <1>0, <1>7 DEF CreateWorker, Leave, Gone, Answers, DoWorkReturns, WorkerGoTo, InProgress,
                      mainVars, workerVars
  <1>8. CASE GoConsume
    <2>1. spawned \in Workers /\ wpc[spawned] = "none"
      BY <1>8, WorkersFinite DEF GoConsume, GoTo, IInv, MainOK, StageOK, TypeOK, Workers
    <2>2. InProgress' = InProgress
      BY <1>0, <1>8, <2>1 DEF GoConsume, InProgress
    <2> QED
      BY <1>6, <1>8, <2>2 DEF GoConsume, GoTo, workerVars
  <1>9. CASE \/ Dial \/ Prepair \/ TestcaseFatal \/ AddWorker \/ OccupySlot \/ WarmUp
             \/ StartProducing \/ DeadlinePasses \/ SendAnother \/ BeginWait \/ Return
             \/ (\E w \in Workers : NoClientPanic(w) \/ CtxExpires(w)) \/ UNCHANGED vars
    <2>1. /\ UNCHANGED <<closed, nextIdx, workCh, cur, wpc>>
          /\ pc' \in {"settle", "done"} <=> pc \in {"settle", "done"}
      BY <1>9 DEF GoTo, vars, engineVars, mainVars, workerVars, Dial, Prepair, TestcaseFatal,
                  AddWorker, OccupySlot, WarmUp, StartProducing, DeadlinePasses, SendAnother,
                  BeginWait, Return, NoClientPanic, CtxExpires
    <2> QED
      BY <1>6, <2>1 DEF InProgress
  <1> QED
    BY <1>1, <1>2, <1>3, <1>4, <1>5, <1>6, <1>7, <1>8, <1>9
       DEF Next, Stopped, Step, MainStep, PlainMainStep, WorkerStep, PlainWorkerStep, Run!Next

(* With at least one worker the engine implements the abstract run of      *)
(* BenchmarkRun: no work is lost or taken twice or out of order, and Run   *)
(* returns when nothing is left.                                           *)
THEOREM EngineImplementsRun ==
  ASSUME NumWorkers > 0
  PROVE  Spec => ImplementsRun
  <1>1. Init => Run!Init
    <2> SUFFICES ASSUME Init PROVE Run!Init
      OBVIOUS
    <2>1. {cur[w] : w \in InProgress} = {}
      BY DEF Init, InProgress
    <2>2. nextIdx = 0 /\ nextIdx - Len(workCh) = 0
      <3>1. nextIdx = 0 /\ workCh = <<>>
        BY DEF Init
      <3>2. Len(workCh) = 0
        BY <3>1
      <3>3. 0 - 0 = 0
        OBVIOUS
      <3> QED
        BY <3>1, <3>2, <3>3, Zenon
    <2>3. (~closed) = TRUE /\ (pc \in {"settle", "done"}) = FALSE
      BY DEF Init
    <2> QED
      BY <2>1, <2>2, <2>3 DEF Run!Init
  <1>2. IInv /\ IInv' /\ [Next]_vars => [Run!Next]_(Run!vars)
    BY RunStep
  <1> QED
    BY <1>1, <1>2, InvariantHolds, PTL DEF Spec, ImplementsRun, Run!Spec
=============================================================================
