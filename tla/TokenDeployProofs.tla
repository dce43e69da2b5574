--------------------------- MODULE TokenDeployProofs ---------------------------
(***************************************************************************)
(* Proofs about TokenDeploy, for any accounts, nonces and number of        *)
(* replaced blocks.                                                        *)
(***************************************************************************)
EXTENDS TokenDeploy, TLAPS

(* What Prepair knows of the token at each of its points.                  *)
AddrOK ==
  /\ pc \in {"monitor", "ready"} => erc20Addr # "nil"
  /\ workers # {} => pc = "ready"
  /\ Polling => erc20Addr = "nil"

(* Before the deployment, and without one, the node has no transaction of  *)
(* it; the address stands for a receipt with status 1.                     *)
TxOK ==
  /\ pc \in {"nonces", "token"} \/ erc20Addr = "flag" => tx = "none"
  /\ erc20Addr = "deployed" /\ ~undone => tx = "mined" /\ status = 1

(* The nonces are those from before the deployment.                        *)
NonceOK ==
  /\ \A a \in Accounts : PendingNonces[a] \in {0, nonce[a]}
  /\ \A a \in workers : pendingNonce[a] = PendingNonces[a]

DeployInv == TypeOK /\ AddrOK /\ TxOK /\ NonceOK

LEMMA InitDeployInv == Init => DeployInv
<1> SUFFICES ASSUME Init PROVE DeployInv
  OBVIOUS
<1>1. pc \in {"nonces", "token"}
  BY Zenon DEF Init
<1>2. 0 \in 0..MaxNonce /\ 0 \in 0..MaxReorgs
  BY DeployAssumption
<1>3. TypeOK
  BY <1>1, <1>2 DEF Init, TypeOK
<1>4. AddrOK /\ TxOK /\ NonceOK
  BY <1>1 DEF Init, AddrOK, TxOK, NonceOK, Polling
<1> QED
  BY <1>3, <1>4 DEF DeployInv

LEMMA StepDeployInv == DeployInv /\ [Next]_vars => DeployInv'
<1> SUFFICES ASSUME DeployInv, [Next]_vars PROVE DeployInv'
  OBVIOUS
<1> USE DeployAssumption DEF DeployInv, TypeOK, AddrOK, TxOK, NonceOK, Polling, GoTo,
    AfterToken, prepairVars, workerVars, txVars
<1>1. CASE FetchNonces
  <2>1. \A a \in Accounts : PendingNonceAt(a) = nonce[a]
    BY <1>1 DEF FetchNonces, PendingNonceAt
  <2>2. \A a \in Accounts : PendingNonces'[a] \in {0, nonce[a]}
    BY <1>1, <2>1 DEF FetchNonces
  <2> QED
    BY <1>1, <2>2 DEF FetchNonces
<1>2. CASE UseGivenToken
  BY <1>2 DEF UseGivenToken
<1>3. CASE SendDeployment
  BY <1>3 DEF SendDeployment
<1>4. CASE DeploymentFails
  BY <1>4 DEF DeploymentFails
<1>5. CASE AskAgain
  BY <1>5 DEF AskAgain
<1>6. CASE Wake
  BY <1>6 DEF Wake
<1>7. CASE ReceiveReceipt
  BY <1>7 DEF ReceiveReceipt
<1>8. CASE InitTxPool
  BY <1>8 DEF InitTxPool
<1>9. CASE Fatal
  BY <1>9 DEF Fatal, PrepairEnded
<1>10. ASSUME NEW a \in Accounts, CreateWorker(a) PROVE DeployInv'
  BY <1>10 DEF CreateWorker
<1>11. CASE Mine
  BY <1>11 DEF Mine
<1>12. CASE Reorg
  <2>1. undone' \in BOOLEAN
    BY <1>12, Zenon DEF Reorg
  <2>2. reorgs' \in 0..MaxReorgs
    BY <1>12 DEF Reorg
  <2>3. erc20Addr' = "deployed" => undone'
    BY <1>12 DEF Reorg
  <2> QED
    BY <1>12, <2>1, <2>2, <2>3 DEF Reorg
<1>13. CASE Drop
  BY <1>13 DEF Drop
<1>14. CASE UNCHANGED vars
  BY <1>14 DEF vars
<1> QED
  BY <1>1, <1>2, <1>3, <1>4, <1>5, <1>6, <1>7, <1>8, <1>9, <1>10, <1>11, <1>12, <1>13, <1>14
  DEF Next, Prepair, Deploy

LEMMA InvariantHolds == Spec => []DeployInv
BY InitDeployInv, StepDeployInv, PTL DEF Spec

(* Every variable of the preparation keeps its type.                       *)
THEOREM TypeCorrect == Spec => []TypeOK
<1>1. DeployInv => TypeOK
  BY DEF DeployInv
<1> QED
  BY <1>1, InvariantHolds, PTL

(* No worker starts without a token, and a token that Prepair has deployed *)
(* is in the chain with success while the block of its receipt stands.     *)
THEOREM TokenIsThere == Spec => []TokenOnChain
<1>1. DeployInv => TokenOnChain
  BY DEF DeployInv, AddrOK, TxOK, TokenOnChain
<1> QED
  BY <1>1, InvariantHolds, PTL

(* Of the workers whose nonce was answered, only worker 0 starts behind    *)
(* the node, by the one nonce of the deployment.                           *)
THEOREM DeployerBehind == Spec => []OnlyDeployerIsBehind
<1>1. ASSUME DeployInv, NEW a \in workers, pendingNonce[a] # 0,
             pendingNonce[a] # PendingNonceAt(a)
      PROVE  a = Account0 /\ erc20Addr = "deployed" /\ pendingNonce[a] + 1 = PendingNonceAt(a)
  <2>1. a \in Accounts /\ pendingNonce[a] = nonce[a] /\ nonce[a] \in Nat
    BY <1>1 DEF DeployInv, TypeOK, NonceOK
  <2>2. a = Account0 /\ tx \in {"pending", "mined"}
    BY <1>1, <2>1 DEF PendingNonceAt
  <2>3. erc20Addr = "deployed"
    BY <1>1, <2>2 DEF DeployInv, TypeOK, AddrOK, TxOK
  <2> QED
    BY <2>1, <2>2, <2>3 DEF PendingNonceAt
<1>2. DeployInv => OnlyDeployerIsBehind
  BY <1>1 DEF OnlyDeployerIsBehind
<1> QED
  BY <1>2, InvariantHolds, PTL
=============================================================================
