------------------------------ MODULE TokenDeploy ------------------------------
(***************************************************************************)
(* The preparation of the test cases TransferERC20 and QueryERC20Balance:  *)
(* unless --erc20addr names a token, account 0 deploys one and its receipt *)
(* is polled for; then the workers are created.  TransferERC20 fetches the *)
(* nonces of the accounts before, and starts the transaction monitor after *)
(* that.                                                                   *)
(*                                                                         *)
(* DoWork of both changes nothing: QueryERC20Balance only calls the node,  *)
(* and TransferERC20 neither advances pendingNonce nor sends, since its    *)
(* TransactOpts have no Signer and Transfer answers with an error.         *)
(*                                                                         *)
(* The node is external.  Nobody else uses the accounts meanwhile.         *)
(***************************************************************************)
EXTENDS Naturals

CONSTANTS
  Accounts,   \* the accounts of the wallet, one for each worker
  Account0,   \* the one with index 0
  MaxNonce,   \* bound: nonces the accounts begin with
  MaxReorgs   \* bound: how often the deployment's block is replaced

\* Without a worker, PrivateKeys[0] has no element and Prepair panics.
ASSUME DeployAssumption ==
  Account0 \in Accounts /\ MaxNonce \in Nat /\ MaxReorgs \in Nat

VARIABLES
  test,           \* the test case
  pc,             \* Prepair
  erc20Addr,      \* Erc20Addr of the test case: "nil", "flag" or "deployed"
  PendingNonces,  \* of TestWallet
  workers,        \* accounts whose worker is created
  pendingNonce    \* of TransferERC20Worker

(* External: the node.                                                     *)
VARIABLES
  nonce,   \* pending nonce of each account, the deployment not counted
  tx,      \* the transaction of the deployment
  status,  \* the status in its receipt
  reorgs,  \* how often its block was replaced, ...
  undone   \* history: ... and whether this was after its receipt was read

prepairVars == <<test, pc, erc20Addr, PendingNonces>>
workerVars == <<workers, pendingNonce>>
txVars == <<tx, status, reorgs, undone>>
vars == <<prepairVars, workerVars, nonce, txVars>>

TypeOK ==
  /\ test \in {"TransferERC20", "QueryERC20Balance"}
  /\ pc \in {"nonces", "token", "poll", "sleep", "monitor", "ready", "fatal"}
  /\ erc20Addr \in {"nil", "flag", "deployed"}
  /\ PendingNonces \in [Accounts -> 0..MaxNonce]
  /\ workers \in SUBSET Accounts /\ pendingNonce \in [Accounts -> 0..MaxNonce]
  /\ nonce \in [Accounts -> 0..MaxNonce]
  /\ tx \in {"none", "pending", "mined", "dropped"} /\ status \in {0, 1}
  /\ reorgs \in 0..MaxReorgs /\ undone \in BOOLEAN

Init ==
  /\ test \in {"TransferERC20", "QueryERC20Balance"}
  /\ pc = IF test = "TransferERC20" THEN "nonces" ELSE "token"
  /\ erc20Addr \in {"nil", "flag"}
  /\ PendingNonces = [a \in Accounts |-> 0]
  /\ workers = {} /\ pendingNonce = [a \in Accounts |-> 0]
  /\ nonce \in [Accounts -> 0..MaxNonce]
  /\ tx = "none" /\ status = 0 /\ reorgs = 0 /\ undone = FALSE

(* External: eth_getTransactionCount of the pending block.                 *)
PendingNonceAt(a) == nonce[a] + (IF a = Account0 /\ tx \in {"pending", "mined"} THEN 1 ELSE 0)

-----------------------------------------------------------------------------
Polling == pc \in {"poll", "sleep"}
PrepairEnded == pc \in {"ready", "fatal"}

GoTo(from, to) == pc = from /\ pc' = to /\ UNCHANGED test

(* Every error but those of the receipt ends the process with log.Fatal.   *)
Fatal ==
  /\ ~Polling /\ ~PrepairEnded
  /\ pc' = "fatal"
  /\ UNCHANGED <<test, erc20Addr, PendingNonces, workerVars, nonce, txVars>>

(* FetchNonces: a nonce whose query fails stays 0, without an error.       *)
FetchNonces ==
  /\ GoTo("nonces", "token")
  /\ PendingNonces' \in [Accounts -> 0..MaxNonce]
  /\ \A a \in Accounts : PendingNonces'[a] \in {0, PendingNonceAt(a)}
  /\ UNCHANGED <<erc20Addr, workerVars, nonce, txVars>>

(* With its token, TransferERC20 goes on to InitTxPool.                    *)
AfterToken == IF test = "TransferERC20" THEN "monitor" ELSE "ready"

UseGivenToken ==
  /\ erc20Addr # "nil"
  /\ GoTo("token", AfterToken)
  /\ UNCHANGED <<erc20Addr, PendingNonces, workerVars, nonce, txVars>>

(* DeployERC20 asks for the pending nonce, signs and sends.                *)
SendDeployment ==
  /\ erc20Addr = "nil"
  /\ GoTo("token", "poll")
  /\ tx' = "pending"
  /\ UNCHANGED <<erc20Addr, PendingNonces, workerVars, nonce, status, reorgs, undone>>

(* The send is answered with an error, though the node has the transaction.*)
DeploymentFails ==
  /\ erc20Addr = "nil"
  /\ GoTo("token", "fatal")
  /\ tx' = "pending"
  /\ UNCHANGED <<erc20Addr, PendingNonces, workerVars, nonce, status, reorgs, undone>>

(* waitForTxConfirmed.  The receipt is there only while the transaction is *)
(* in a block; any error, of the connection too, counts as not there yet.  *)
AskAgain ==
  /\ GoTo("poll", "sleep")
  /\ UNCHANGED <<erc20Addr, PendingNonces, workerVars, nonce, txVars>>

Wake ==
  /\ GoTo("sleep", "poll")
  /\ UNCHANGED <<erc20Addr, PendingNonces, workerVars, nonce, txVars>>

(* A receipt with status 0 is an error, and log.Fatal.                     *)
\* Faulty: only the receipt of a successful deployment ends the wait.
ReceiveGoodReceipt ==
  /\ tx = "mined" /\ status = 1
  /\ GoTo("poll", AfterToken)
  /\ erc20Addr' = "deployed"
  /\ UNCHANGED <<PendingNonces, workerVars, nonce, txVars>>

\* Faulty: the status is not looked at.
ReceiveAnyReceipt ==
  /\ tx = "mined"
  /\ GoTo("poll", AfterToken)
  /\ erc20Addr' = "deployed"
  /\ UNCHANGED <<PendingNonces, workerVars, nonce, txVars>>

ReceiveReceipt ==
  /\ tx = "mined"
  /\ GoTo("poll", IF status = 0 THEN "fatal" ELSE AfterToken)
  /\ erc20Addr' = IF status = 0 THEN "nil" ELSE "deployed"
  /\ UNCHANGED <<PendingNonces, workerVars, nonce, txVars>>

InitTxPool ==
  /\ GoTo("monitor", "ready")
  /\ UNCHANGED <<erc20Addr, PendingNonces, workerVars, nonce, txVars>>

(* Run creates the workers when Prepair has returned.                      *)
\* Faulty: all workers get the nonce of the first account.
CreateWorkerWithFirst(a) ==
  /\ pc = "ready" /\ a \notin workers
  /\ workers' = workers \cup {a}
  /\ pendingNonce' = [pendingNonce EXCEPT ![a] = PendingNonces[Account0]]
  /\ UNCHANGED <<prepairVars, nonce, txVars>>

CreateWorker(a) ==
  /\ pc = "ready" /\ a \notin workers
  /\ workers' = workers \cup {a}
  /\ pendingNonce' = [pendingNonce EXCEPT ![a] = PendingNonces[a]]
  /\ UNCHANGED <<prepairVars, nonce, txVars>>

-----------------------------------------------------------------------------
(* External: the deployment is mined and executed, its block is replaced   *)
(* by one without it, or the node drops it.                                *)
Mine ==
  /\ tx = "pending"
  /\ tx' = "mined" /\ status' \in {0, 1}
  /\ UNCHANGED <<prepairVars, workerVars, nonce, reorgs, undone>>

Reorg ==
  /\ tx = "mined" /\ reorgs < MaxReorgs
  /\ tx' = "pending" /\ reorgs' = reorgs + 1
  /\ undone' = (undone \/ erc20Addr = "deployed")
  /\ UNCHANGED <<prepairVars, workerVars, nonce, status>>

Drop ==
  /\ tx = "pending"
  /\ tx' = "dropped"
  /\ UNCHANGED <<prepairVars, workerVars, nonce, status, reorgs, undone>>

-----------------------------------------------------------------------------
Deploy == SendDeployment \/ DeploymentFails \/ AskAgain \/ Wake \/ ReceiveReceipt

Prepair == FetchNonces \/ UseGivenToken \/ Deploy \/ InitTxPool

Next ==
  \/ Prepair \/ Fatal
  \/ \E a \in Accounts : CreateWorker(a)
  \/ Mine \/ Reorg \/ Drop

Spec == Init /\ [][Next]_vars

(* Prepair runs, and a call for a receipt that is there succeeds some time. *)
FairSpec == Spec /\ WF_vars(Prepair) /\ SF_vars(ReceiveReceipt)

-----------------------------------------------------------------------------
(* No worker starts with the address of a token that is not there: if the  *)
(* test case has deployed it, the deployment is in the chain and has       *)
(* succeeded, unless its block was replaced after the receipt was read.    *)
(* waitForTxConfirmed waits for one block and no longer.                   *)
TokenOnChain ==
  /\ workers # {} => erc20Addr # "nil"
  /\ erc20Addr = "deployed" /\ ~undone => tx = "mined" /\ status = 1

(* The nonces are fetched before the deployment uses one.  A worker of     *)
(* TransferERC20 whose query was answered starts with the pending nonce of *)
(* its account all the same, and only worker 0 with the one before it, the *)
(* nonce of the deployment.                                                *)
OnlyDeployerIsBehind ==
  test = "TransferERC20" =>
    \A a \in workers :
      \/ pendingNonce[a] = 0
      \/ pendingNonce[a] = PendingNonceAt(a)
      \/ a = Account0 /\ erc20Addr = "deployed" /\ pendingNonce[a] + 1 = PendingNonceAt(a)

(* Prepair comes to its end, unless it polls for ever for the receipt of a *)
(* deployment that is never mined: the node has dropped it, or its fee cap *)
(* is too low, and the context has no end.                                 *)
PrepairEnds == <>PrepairEnded \/ <>[](Polling /\ tx # "mined")
=============================================================================
