--------------------------- MODULE TransferEthProofs ---------------------------
(***************************************************************************)
(* The nonces of the transfer workers agree with the node, for any set of  *)
(* workers and any transactions left with the node by earlier runs.        *)
(***************************************************************************)
EXTENDS TransferEth, TLAPS

(* The nonces the worker has used and that are not just being sent.        *)
Used(w) == {n \in Nonces : n < pendingNonce[w] /\ ~(wpc[w] = "sending" /\ n = nonce[w])}

(* The part of the invariant that is about one worker.  The count of the   *)
(* wallet, and then of the worker, runs below what the node has and what   *)
(* was lost; in turn all that the node has was there before or comes from  *)
(* a nonce that was used.  What a worker waits for is with the node; a     *)
(* lost transaction is one of those used and not with the node; what       *)
(* succeeded is mined and what was refused is old.                         *)
Part(w) ==
  /\ wpc[w] = "none" => pendingNonce[w] = 0
  /\ fetched => \A n \in Nonces : n < PendingNonces[w] => n \in AtNode(w)
  /\ wpc[w] = "sending" => pendingNonce[w] = nonce[w] + 1
  /\ wpc[w] = "waiting" => nonce[w] \in Used(w) \cap AtNode(w)
  /\ Used(w) \subseteq AtNode(w) \cup unanswered[w]
  /\ AtNode(w) \subseteq old[w] \cup Used(w)
  /\ unanswered[w] \subseteq Used(w) \ AtNode(w)
  /\ \A s \in succeeded[w] : s < mined[w]
  /\ refused[w] \subseteq old[w]

IInv == TypeOK /\ \A w \in Workers : Part(w)

-----------------------------------------------------------------------------
LEMMA InitIInv == Init => IInv
  <1> SUFFICES ASSUME Init PROVE IInv
    OBVIOUS
  <1> USE NonceAssumption DEF Nonces
  <1>1. mined \in [Workers -> Nonces] /\ held \in [Workers -> SUBSET Nonces]
    <2>1. 0..MaxOld \subseteq Nonces /\ {n \in Nonces : n < MaxOld} \subseteq Nonces
      OBVIOUS
    <2> QED
      BY <2>1 DEF Init
  <1>2. old \in [Workers -> SUBSET Nonces]
    BY DEF Init, AtNode
  <1>3. TypeOK
    <2>1. 0 \in Nonces
      OBVIOUS
    <2> HIDE NonceAssumption DEF Nonces
    <2>2. /\ fetched \in BOOLEAN
          /\ PendingNonces \in [Workers -> Nonces]
          /\ wpc \in [Workers -> {"none", "idle", "sending", "waiting"}]
          /\ pendingNonce \in [Workers -> Nonces] /\ nonce \in [Workers -> Nonces]
      BY <2>1 DEF Init
    <2>3. /\ unanswered \in [Workers -> SUBSET Nonces]
          /\ succeeded \in [Workers -> SUBSET Nonces]
          /\ refused \in [Workers -> SUBSET Nonces]
      BY DEF Init
    <2> QED
      BY <1>1, <1>2, <2>2, <2>3 DEF TypeOK
  <1>4. \A w \in Workers : Used(w) = {}
    BY DEF Init, Used
  <1>5. \A w \in Workers : old[w] = AtNode(w)
    BY DEF Init
  <1> QED
    BY <1>3, <1>4, <1>5 DEF Init, IInv, Part

(* What one worker, or the node on its account, does leaves the others'    *)
(* parts of the invariant alone.                                           *)
LEMMA OthersKeepPart ==
  ASSUME TypeOK, NEW w \in Workers, NEW v \in Workers, v # w, Part(v),
         \/ CreateWorker(w) \/ DoWork(w) \/ Mine(w)
         \/ \E n \in Nonces : Arrive(w, n)
  PROVE  Part(v)'
  <1>1. /\ wpc'[v] = wpc[v] /\ pendingNonce'[v] = pendingNonce[v] /\ nonce'[v] = nonce[v]
        /\ unanswered'[v] = unanswered[v] /\ succeeded'[v] = succeeded[v]
        /\ refused'[v] = refused[v] /\ mined'[v] = mined[v] /\ held'[v] = held[v]
        /\ old' = old /\ fetched' = fetched /\ PendingNonces' = PendingNonces
    BY DEF TypeOK, CreateWorker, DoWork, Sign, SendAccepted, SendRefused, SendFails, Confirmed,
           TimedOut, Mine, Arrive, WorkerGoTo, walletVars, workerVars, callVars, nodeVars
  <1>2. AtNode(v)' = AtNode(v) /\ Used(v)' = Used(v)
    BY <1>1 DEF AtNode, Used
  <1> QED
    BY <1>1, <1>2 DEF Part

LEMMA NextIInv == IInv /\ [Next]_vars => IInv'
  <1> SUFFICES ASSUME IInv, [Next]_vars PROVE IInv'
    OBVIOUS
  <1> USE NonceAssumption DEF Nonces
  <1>0. TypeOK /\ \A w \in Workers : Part(w)
    BY DEF IInv
  <1>1. CASE FetchNonces
    <2>1. TypeOK'
      BY <1>0, <1>1 DEF FetchNonces, TypeOK, workerVars, callVars, nodeVars
    <2>2. ASSUME NEW w \in Workers PROVE Part(w)'
      <3>1. AtNode(w)' = AtNode(w) /\ Used(w)' = Used(w)
        BY <1>1 DEF FetchNonces, AtNode, Used, workerVars, nodeVars
      <3>2. ASSUME NEW n \in Nonces, n < PendingNonces'[w] PROVE n \in AtNode(w)
        BY <1>0, <1>1, <3>2 DEF FetchNonces, IsPendingNonce, AtNode, TypeOK
      <3> QED
        BY <1>0, <1>1, <3>1, <3>2 DEF FetchNonces, Part, workerVars, callVars, nodeVars
    <2> QED
      BY <2>1, <2>2 DEF IInv
  <1>2. ASSUME NEW w \in Workers,
               \/ CreateWorker(w) \/ DoWork(w) \/ Mine(w)
               \/ \E n \in Nonces : Arrive(w, n)
        PROVE  IInv'
    <2> USE <1>0 DEF TypeOK
    <2>0. Part(w)
      OBVIOUS
    <2>a. ASSUME NEW v \in Workers, v # w PROVE Part(v)'
      BY <1>0, <1>2, <2>a, OthersKeepPart
    <2>b. TypeOK' /\ Part(w)' => IInv'
      BY <2>a DEF IInv
    <2>1. CASE CreateWorker(w)
      <3>1. TypeOK'
        BY <2>1 DEF CreateWorker, WorkerGoTo, walletVars, callVars, nodeVars
      <3>2. AtNode(w)' = AtNode(w)
        BY <2>1 DEF CreateWorker, AtNode, nodeVars
      <3>3. Used(w) = {} /\ Used(w)' = {n \in Nonces : n < PendingNonces[w]}
        BY <2>0, <2>1 DEF CreateWorker, WorkerGoTo, Used, Part
      <3>4. Part(w)'
        BY <2>0, <2>1, <3>2, <3>3 DEF CreateWorker, WorkerGoTo, Part, walletVars, callVars,
                                      nodeVars
      <3> QED
        BY <3>1, <3>4, <2>b
    <2>2. CASE Sign(w)
      <3>1. TypeOK'
        BY <2>2 DEF Sign, WorkerGoTo, walletVars, callVars, nodeVars
      <3>2. AtNode(w)' = AtNode(w)
        BY <2>2 DEF Sign, AtNode, nodeVars
      <3>3. Used(w)' = Used(w)
        BY <2>2 DEF Sign, WorkerGoTo, Used
      <3>4. Part(w)'
        BY <2>0, <2>2, <3>2, <3>3 DEF Sign, WorkerGoTo, Part, walletVars, callVars, nodeVars
      <3> QED
        BY <3>1, <3>4, <2>b
    <2>3. CASE SendAccepted(w)
      <3>1. TypeOK'
        BY <2>3 DEF SendAccepted, WorkerGoTo, walletVars, callVars
      <3>2. AtNode(w)' = AtNode(w) \cup {nonce[w]} /\ nonce[w] \notin AtNode(w)
        BY <2>3 DEF SendAccepted, AtNode
      <3>3. Used(w)' = Used(w) \cup {nonce[w]} /\ nonce[w] \notin Used(w)
        BY <2>0, <2>3 DEF SendAccepted, WorkerGoTo, Used, Part
      <3>4. Part(w)'
        BY <2>0, <2>3, <3>2, <3>3 DEF SendAccepted, WorkerGoTo, Part, walletVars, callVars
      <3> QED
        BY <3>1, <3>4, <2>b
    <2>4. CASE SendRefused(w)
      <3>1. TypeOK'
        BY <2>4 DEF SendRefused, WorkerGoTo, walletVars, nodeVars
      <3>2. AtNode(w)' = AtNode(w) /\ nonce[w] \in AtNode(w)
        BY <2>4 DEF SendRefused, AtNode, nodeVars
      <3>3. Used(w)' = Used(w) \cup {nonce[w]} /\ nonce[w] \notin Used(w)
        BY <2>0, <2>4 DEF SendRefused, WorkerGoTo, Used, Part
      <3>4. Part(w)'
        BY <2>0, <2>4, <3>2, <3>3 DEF SendRefused, WorkerGoTo, Part, walletVars, nodeVars
      <3> QED
        BY <3>1, <3>4, <2>b
    <2>5. CASE SendFails(w)
      <3>1. TypeOK'
        BY <2>5 DEF SendFails, WorkerGoTo, walletVars, nodeVars
      <3>2. AtNode(w)' = AtNode(w)
        BY <2>5 DEF SendFails, AtNode, nodeVars
      <3>3. Used(w)' = Used(w) \cup {nonce[w]} /\ nonce[w] \notin Used(w)
        BY <2>0, <2>5 DEF SendFails, WorkerGoTo, Used, Part
      <3>4. unanswered'[w] = unanswered[w] \cup ({nonce[w]} \ AtNode(w))
        BY <2>5 DEF SendFails
      <3>5. Part(w)'
        BY <2>0, <2>5, <3>2, <3>3, <3>4 DEF SendFails, WorkerGoTo, Part, walletVars, nodeVars
      <3> QED
        BY <3>1, <3>5, <2>b
    <2>6. CASE Confirmed(w) \/ TimedOut(w)
      <3>1. TypeOK'
        BY <2>6 DEF Confirmed, TimedOut, WorkerGoTo, walletVars, callVars, nodeVars
      <3>2. AtNode(w)' = AtNode(w)
        BY <2>6 DEF Confirmed, TimedOut, AtNode, nodeVars
      <3>3. Used(w)' = Used(w)
        BY <2>6 DEF Confirmed, TimedOut, WorkerGoTo, Used
      <3>4. Part(w)'
        BY <2>0, <2>6, <3>2, <3>3 DEF Confirmed, TimedOut, WorkerGoTo, Part, walletVars,
                                      callVars, nodeVars
      <3> QED
        BY <3>1, <3>4, <2>b
    <2>7. CASE Mine(w)
      <3>1. TypeOK'
        BY <2>7 DEF Mine, walletVars, workerVars, callVars
      <3>2. AtNode(w)' = AtNode(w)
        BY <2>7 DEF Mine, AtNode
      <3>3. Used(w)' = Used(w)
        BY <2>7 DEF Mine, workerVars, Used
      <3>4. Part(w)'
        BY <2>0, <2>7, <3>2, <3>3 DEF Mine, Part, walletVars, workerVars, callVars
      <3> QED
        BY <3>1, <3>4, <2>b
    <2>8. ASSUME NEW n \in Nonces, Arrive(w, n) PROVE IInv'
      <3>1. TypeOK'
        BY <2>8 DEF Arrive, walletVars, workerVars
      <3>2. AtNode(w)' = AtNode(w) \cup {n} /\ n \in Used(w)
        BY <2>0, <2>8 DEF Arrive, AtNode, Part
      <3>3. Used(w)' = Used(w)
        BY <2>8 DEF Arrive, workerVars, Used
      <3>4. unanswered'[w] = unanswered[w] \ {n}
        BY <2>8 DEF Arrive
      <3>5. Part(w)'
        BY <2>0, <2>8, <3>2, <3>3, <3>4 DEF Arrive, Part, walletVars, workerVars
      <3> QED
        BY <3>1, <3>5, <2>b
    <2> QED
      BY <1>2, <2>1, <2>2, <2>3, <2>4, <2>5, <2>6, <2>7, <2>8 DEF DoWork
  <1>3. CASE UNCHANGED vars
    BY <1>3 DEF vars, walletVars, workerVars, callVars, nodeVars, IInv, TypeOK, Part,
                AtNode, Used
  <1> QED
    BY <1>1, <1>2, <1>3 DEF Next

LEMMA InvariantHolds == Spec => []IInv
  BY InitIInv, NextIInv, PTL DEF Spec

-----------------------------------------------------------------------------
(* Every variable of the wallet, the workers and the node keeps its type.  *)
THEOREM TypeCorrect == Spec => []TypeOK
  <1>1. IInv => TypeOK
    BY DEF IInv
  <1> QED
    BY <1>1, InvariantHolds, PTL

(* Every nonce below a worker's count is with the node, being sent or      *)
(* lost, also if the query of the nonces has failed.                       *)
THEOREM CountFollowsNode == Spec => []NoncesAccounted
  <1>1. IInv => NoncesAccounted
    BY NonceAssumption DEF IInv, NoncesAccounted, Part, Used, TypeOK, Nonces
  <1> QED
    BY <1>1, InvariantHolds, PTL

(* No call succeeds beyond the gap that a failed send has left.            *)
THEOREM GapsBlock == Spec => []GapBlocksLater
  <1>1. IInv => GapBlocksLater
    BY NonceAssumption DEF IInv, GapBlocksLater, Part, AtNode, TypeOK, Nonces
  <1> QED
    BY <1>1, InvariantHolds, PTL

(* An accepted transaction can be mined, unless a send with a lower nonce  *)
(* has failed: the next nonce of the account was used, and is not lost.    *)
THEOREM OnlyGapsHold == Spec => []MinableOrBehindGap
  <1>1. ASSUME IInv, NEW w \in Workers, wpc[w] = "waiting",
               ~(nonce[w] < mined[w]), mined[w] \notin held[w]
        PROVE  \E m \in unanswered[w] : m < nonce[w]
    <2> USE NonceAssumption DEF Nonces
    <2>1. Part(w) /\ nonce[w] \in Nonces /\ mined[w] \in Nonces /\ pendingNonce[w] \in Nonces
      BY <1>1 DEF IInv, TypeOK
    <2>2. nonce[w] \in held[w] /\ nonce[w] < pendingNonce[w]
      BY <1>1, <2>1 DEF Part, AtNode, Used
    <2>3. mined[w] < nonce[w]
      BY <1>1, <2>1, <2>2
    <2>4. mined[w] \in Used(w) /\ mined[w] \notin AtNode(w)
      BY <1>1, <2>1, <2>2, <2>3 DEF Used, AtNode
    <2> QED
      BY <2>1, <2>3, <2>4 DEF Part
  <1>2. IInv => MinableOrBehindGap
    BY <1>1 DEF MinableOrBehindGap
  <1> QED
    BY <1>2, InvariantHolds, PTL

(* The node refuses only nonces it had before the run: no worker uses one  *)
(* twice.                                                                  *)
THEOREM NeverTwice == Spec => []RefusedWasOld
  <1>1. IInv => RefusedWasOld
    BY DEF IInv, RefusedWasOld, Part
  <1> QED
    BY <1>1, InvariantHolds, PTL
=============================================================================
