---------------------------- MODULE TransferSystem ----------------------------
(***************************************************************************)
(* The test case TransferEth on top of the transaction monitor: DoWork     *)
(* signs a transaction with the next nonce of its account and hands it to  *)
(* SendTransaction of TxPool, which subscribes, sends and waits for the    *)
(* signal of the event loop.  TransferEth, which knows of the wait only    *)
(* that it ends with the transaction mined or not, is the abstraction.     *)
(*                                                                         *)
(* The node is external and mines the transactions of an account in the    *)
(* order of their nonces, one in a block.  No block is replaced and the    *)
(* accounts are new: TxPool and TransferEth deal with these by themselves. *)
(***************************************************************************)
EXTENDS TxPool

CONSTANTS Workers, MaxNonce  \* as in TransferEth; Txs bounds what is signed

ASSUME TransferAssumption ==
  /\ MaxNonce \in Nat
  /\ Txs \subseteq Workers \X (0..(MaxNonce - 1))
  /\ MaxHeight >= Cardinality(Txs)

VARIABLES
  fetched, PendingNonces,  \* of TestWallet
  created,                 \* the workers that are there
  working,                 \* those in DoWork
  pendingNonce, nonce      \* of TransferEthWorker, and of its signed transaction

testVars == <<fetched, PendingNonces, created, working, pendingNonce, nonce>>
sysVars == <<vars, testVars>>

Nonces == 0..MaxNonce

SysTypeOK ==
  /\ TypeOK
  /\ fetched \in BOOLEAN /\ PendingNonces \in [Workers -> Nonces]
  /\ created \in SUBSET Workers /\ working \in SUBSET created
  /\ pendingNonce \in [Workers -> Nonces] /\ nonce \in [Workers -> Nonces]

SysInit ==
  /\ Init
  /\ fetched = FALSE /\ PendingNonces = [w \in Workers |-> 0]
  /\ created = {} /\ working = {}
  /\ pendingNonce = [w \in Workers |-> 0] /\ nonce = [w \in Workers |-> 0]

signedTx(w) == <<w, nonce[w]>>

-----------------------------------------------------------------------------
(* Prepair: the nonces, all 0 here, and then the monitor.                  *)
FetchNonces ==
  /\ ~fetched
  /\ fetched' = TRUE
  /\ UNCHANGED <<vars, PendingNonces, created, working, pendingNonce, nonce>>

StartMonitor == fetched /\ InitTxPool /\ UNCHANGED testVars

CreateWorker(w) ==
  /\ started /\ w \notin created
  /\ created' = created \cup {w}
  /\ pendingNonce' = [pendingNonce EXCEPT ![w] = PendingNonces[w]]
  /\ UNCHANGED <<vars, fetched, PendingNonces, working, nonce>>

(* DoWork: sign with the pending nonce, which goes up, ...                 *)
\* Faulty: the nonce is not advanced.
SignSameNonce(w) ==
  /\ w \in created \ working /\ <<w, pendingNonce[w]>> \in Txs
  /\ working' = working \cup {w}
  /\ nonce' = [nonce EXCEPT ![w] = pendingNonce[w]]
  /\ UNCHANGED <<vars, fetched, PendingNonces, created, pendingNonce>>

Sign(w) ==
  /\ w \in created \ working /\ <<w, pendingNonce[w]>> \in Txs
  /\ working' = working \cup {w}
  /\ nonce' = [nonce EXCEPT ![w] = pendingNonce[w]]
  /\ pendingNonce' = [pendingNonce EXCEPT ![w] = @ + 1]
  /\ UNCHANGED <<vars, fetched, PendingNonces, created>>

(* ... SendTransaction, whose steps are those of TxPool, ...               *)
Send(w) == w \in working /\ CallStep(signedTx(w)) /\ UNCHANGED testVars

(* ... and its result is that of DoWork.                                   *)
CallEnded(t) == sendPc[t] \in {"nil", "error", "timeout"}

DoWorkReturns(w) ==
  /\ w \in working /\ CallEnded(signedTx(w))
  /\ working' = working \ {w}
  /\ UNCHANGED <<vars, fetched, PendingNonces, created, pendingNonce, nonce>>

(* External: the next transaction of an account is mined.                  *)
NextToMine(w, n) == <<w, n>> \in mempool /\ \A k \in 0..(n - 1) : <<w, k>> \in minted

MineNext(w) ==
  /\ \E n \in Nonces : NextToMine(w, n) /\ Mine({<<w, n>>})
  /\ UNCHANGED testVars

-----------------------------------------------------------------------------
SysStep ==
  \/ FetchNonces \/ StartMonitor
  \/ \E w \in Workers :
       CreateWorker(w) \/ Sign(w) \/ Send(w) \/ DoWorkReturns(w) \/ MineNext(w)
  \/ /\ LoopStep \/ (started /\ Fatal) \/ \E t \in Txs : NodeAccepts(t)
     /\ UNCHANGED testVars

Idle ==
  /\ created = Workers /\ working = {}
  /\ \A w \in Workers : <<w, pendingNonce[w]>> \notin Txs

SysStopped == (proc # "up" \/ Idle) /\ UNCHANGED sysVars

SysNext == (proc = "up" /\ SysStep) \/ SysStopped

SysSpec == SysInit /\ [][SysNext]_sysVars

(* The fairness of TxPool, and a node that mines what it can.              *)
Alone(A) == proc = "up" /\ A /\ UNCHANGED testVars

SysFairSpec ==
  /\ SysSpec
  /\ WF_sysVars(Alone(LoopStep))
  /\ \A w \in Workers :
       /\ WF_sysVars(Alone(Confirmed(signedTx(w)) \/ TimedOut(signedTx(w))))
       /\ WF_sysVars(Alone(MineNext(w)))

-----------------------------------------------------------------------------
(* What TransferEth sees.  Its node and this one have the same             *)
(* transactions; a worker waits there as soon as the node has its          *)
(* transaction, even if the answer is late, and gives up if it is lost.    *)
AtNode == mempool \cup minted
NoncesOf(w, T) == {n \in Nonces : <<w, n>> \in T}

WorkerPc(w) ==
  IF w \notin created THEN "none"
  ELSE IF w \notin working \/ CallEnded(signedTx(w)) THEN "idle"
  ELSE IF signedTx(w) \in AtNode THEN "waiting" ELSE "sending"

CallsAt(pc) == {t \in Txs : sendPc[t] = pc}

Unanswered(w) == NoncesOf(w, CallsAt("error") \ AtNode)
Succeeded(w) == NoncesOf(w, CallsAt("nil"))
Mined(w) == Cardinality(NoncesOf(w, minted))
Held(w) == NoncesOf(w, mempool)

Transfers == INSTANCE TransferEth WITH
  MaxOld <- 0,
  wpc <- [w \in Workers |-> WorkerPc(w)],
  unanswered <- [w \in Workers |-> Unanswered(w)],
  succeeded <- [w \in Workers |-> Succeeded(w)],
  refused <- [w \in Workers |-> {}],
  mined <- [w \in Workers |-> Mined(w)],
  held <- [w \in Workers |-> Held(w)],
  old <- [w \in Workers |-> {}]

(* The test case with the monitor is the test case with a wait that ends   *)
(* well only if the transaction is mined: what TransferEth shows of nonces *)
(* and gaps holds of the program in which an event loop tells the workers. *)
ImplementsTransfers == Transfers!Spec

CallIs(w, n, pc) == <<w, n>> \in CallsAt(pc)

(* A work whose send was answered is never stuck: at every moment its      *)
(* confirmation is on its way through the monitor, or the node can mine    *)
(* the account's next transaction, or a lower nonce of the worker is lost. *)
WorkNeverStuck ==
  \A w \in Workers, n \in Nonces : CallIs(w, n, "sent") =>
    \/ <<w, n>> \in signalled \/ Dispatching(<<w, n>>)
    \/ \E k \in 1..Len(chain) : <<w, n>> \in chain[k] /\ HeadOnItsWay(k)
    \/ \E m \in 0..n : NextToMine(w, m) /\ Len(chain) < MaxHeight
    \/ \E m \in 0..(n - 1) : <<w, m>> \notin AtNode

(* From end to end: a work whose send was answered gets its confirmation,  *)
(* unless its context expires, a lower nonce of the worker was lost, or    *)
(* the process ends.  Neither the other workers nor the subscriptions that *)
(* failed calls have left behind can keep it from that.                    *)
WorksConfirmed ==
  \A w \in Workers, n \in Nonces :
    CallIs(w, n, "sent")
      ~> \/ CallIs(w, n, "nil") \/ <<w, n>> \in ctxDone \/ proc # "up"
         \/ \E m \in 0..(n - 1) : <<w, m>> \notin AtNode
=============================================================================
