------------------------------ MODULE TransferEth ------------------------------
(***************************************************************************)
(* The nonces of the test case TransferEth: the wallet asks the node for   *)
(* the pending nonce of every account, each worker has an account of its   *)
(* own and from then on counts the nonce itself, one up for each work,     *)
(* before the transaction is sent.                                         *)
(*                                                                         *)
(* The node is external.  It mines the transactions of an account in the   *)
(* order of their nonces without a gap, holds those that come early, and   *)
(* refuses a nonce that was mined or that it holds.  An earlier run of the *)
(* benchmark may have left transactions with it.                           *)
(***************************************************************************)
EXTENDS Naturals, FiniteSets

CONSTANTS
  Workers,   \* the workers, and with them the accounts of the wallet
  MaxNonce,  \* bound: the nonces a worker uses are below
  MaxOld     \* bound: those of earlier runs are below

ASSUME NonceAssumption == MaxNonce \in Nat /\ MaxOld \in 0..MaxNonce

Nonces == 0..MaxNonce

VARIABLES
  fetched,        \* FetchNonces has returned
  PendingNonces,  \* of TestWallet, for each account
  wpc,            \* each worker: its DoWork
  pendingNonce,   \* of TransferEthWorker
  nonce,          \* the nonce of the transaction it has signed last
  unanswered,     \* nonces of sends that failed and have not reached the node
  succeeded,      \* history: nonces of the calls of DoWork that returned nil
  refused         \* history: nonces the node has refused

(* External: the node.                                                     *)
VARIABLES
  mined,  \* the nonce of each account: those below are mined
  held,   \* nonces of the transactions the node holds
  old     \* history: nonces that were with the node before this run

walletVars == <<fetched, PendingNonces>>
workerVars == <<wpc, pendingNonce, nonce>>
callVars == <<unanswered, succeeded, refused>>
nodeVars == <<mined, held, old>>
vars == <<walletVars, workerVars, callVars, nodeVars>>

TypeOK ==
  /\ fetched \in BOOLEAN
  /\ PendingNonces \in [Workers -> Nonces]
  /\ wpc \in [Workers -> {"none", "idle", "sending", "waiting"}]
  /\ pendingNonce \in [Workers -> Nonces] /\ nonce \in [Workers -> Nonces]
  /\ unanswered \in [Workers -> SUBSET Nonces]
  /\ succeeded \in [Workers -> SUBSET Nonces] /\ refused \in [Workers -> SUBSET Nonces]
  /\ mined \in [Workers -> Nonces]
  /\ held \in [Workers -> SUBSET Nonces] /\ old \in [Workers -> SUBSET Nonces]

(* What the node has of an account, mined or held.                         *)
AtNode(w) == {n \in Nonces : n < mined[w] \/ n \in held[w]}

Init ==
  /\ fetched = FALSE
  /\ PendingNonces = [w \in Workers |-> 0]
  /\ wpc = [w \in Workers |-> "none"]
  /\ pendingNonce = [w \in Workers |-> 0] /\ nonce = [w \in Workers |-> 0]
  /\ unanswered = [w \in Workers |-> {}]
  /\ succeeded = [w \in Workers |-> {}] /\ refused = [w \in Workers |-> {}]
  /\ mined \in [Workers -> 0..MaxOld]
  /\ held \in [Workers -> SUBSET {n \in Nonces : n < MaxOld}]
  /\ \A w \in Workers : \A n \in held[w] : n >= mined[w]
  /\ old = [w \in Workers |-> AtNode(w)]

-----------------------------------------------------------------------------
(* The node's answer to eth_getTransactionCount of the pending block.      *)
IsPendingNonce(w, n) ==
  /\ n >= mined[w] /\ n \notin held[w]
  /\ \A k \in Nonces : mined[w] <= k /\ k < n => k \in held[w]

(* FetchNonces, from Prepair.  A nonce whose query fails stays 0, all of   *)
(* them if the batch fails: no error is returned in either case.           *)
FetchNonces ==
  /\ ~fetched
  /\ fetched' = TRUE
  /\ PendingNonces' \in [Workers -> Nonces]
  /\ \A w \in Workers : PendingNonces'[w] = 0 \/ IsPendingNonce(w, PendingNonces'[w])
  /\ UNCHANGED <<workerVars, callVars, nodeVars>>

WorkerGoTo(w, from, to) == wpc[w] = from /\ wpc' = [wpc EXCEPT ![w] = to]

\* Faulty: the worker starts behind the pending nonce.
CreateWorkerPastPending(w) ==
  /\ fetched
  /\ WorkerGoTo(w, "none", "idle")
  /\ pendingNonce' = [pendingNonce EXCEPT ![w] = PendingNonces[w] + 1]
  /\ UNCHANGED <<walletVars, nonce, callVars, nodeVars>>

CreateWorker(w) ==
  /\ fetched
  /\ WorkerGoTo(w, "none", "idle")
  /\ pendingNonce' = [pendingNonce EXCEPT ![w] = PendingNonces[w]]
  /\ UNCHANGED <<walletVars, nonce, callVars, nodeVars>>

(* DoWork: the transaction gets the pending nonce, which goes up, ...      *)
\* Faulty: the nonce is not advanced.
SignSameNonce(w) ==
  /\ pendingNonce[w] < MaxNonce
  /\ WorkerGoTo(w, "idle", "sending")
  /\ nonce' = [nonce EXCEPT ![w] = pendingNonce[w]]
  /\ UNCHANGED <<walletVars, pendingNonce, callVars, nodeVars>>

\* Faulty: the nonce is advanced twice.
SignSkipNonce(w) ==
  /\ pendingNonce[w] < MaxNonce
  /\ WorkerGoTo(w, "idle", "sending")
  /\ nonce' = [nonce EXCEPT ![w] = pendingNonce[w]]
  /\ pendingNonce' = [pendingNonce EXCEPT ![w] = @ + 2]
  /\ UNCHANGED <<walletVars, callVars, nodeVars>>

Sign(w) ==
  /\ pendingNonce[w] < MaxNonce
  /\ WorkerGoTo(w, "idle", "sending")
  /\ nonce' = [nonce EXCEPT ![w] = pendingNonce[w]]
  /\ pendingNonce' = [pendingNonce EXCEPT ![w] = @ + 1]
  /\ UNCHANGED <<walletVars, callVars, nodeVars>>

(* ... and SendTransaction sends it: the node accepts it, ...              *)
SendAccepted(w) ==
  /\ nonce[w] \notin AtNode(w)
  /\ WorkerGoTo(w, "sending", "waiting")
  /\ held' = [held EXCEPT ![w] = @ \cup {nonce[w]}]
  /\ UNCHANGED <<walletVars, pendingNonce, nonce, callVars, mined, old>>

(* ... refuses it, nonce too low or already known, ...                     *)
SendRefused(w) ==
  /\ nonce[w] \in AtNode(w)
  /\ WorkerGoTo(w, "sending", "idle")
  /\ refused' = [refused EXCEPT ![w] = @ \cup {nonce[w]}]
  /\ UNCHANGED <<walletVars, pendingNonce, nonce, unanswered, succeeded, nodeVars>>

(* ... or gives no answer: the connection failed or the context was done.  *)
(* It stands also for a refusal for a reason other than the nonce: that    *)
(* transaction never arrives.                                              *)
SendFails(w) ==
  /\ WorkerGoTo(w, "sending", "idle")
  /\ unanswered' = [unanswered EXCEPT ![w] = @ \cup ({nonce[w]} \ AtNode(w))]
  /\ UNCHANGED <<walletVars, pendingNonce, nonce, succeeded, refused, nodeVars>>

(* The wait for the confirmation ends with it, or with the context.        *)
\* Faulty: the node's answer to the send is taken for the confirmation.
ConfirmedUnmined(w) ==
  /\ WorkerGoTo(w, "waiting", "idle")
  /\ succeeded' = [succeeded EXCEPT ![w] = @ \cup {nonce[w]}]
  /\ UNCHANGED <<walletVars, pendingNonce, nonce, unanswered, refused, nodeVars>>

Confirmed(w) ==
  /\ nonce[w] < mined[w]
  /\ WorkerGoTo(w, "waiting", "idle")
  /\ succeeded' = [succeeded EXCEPT ![w] = @ \cup {nonce[w]}]
  /\ UNCHANGED <<walletVars, pendingNonce, nonce, unanswered, refused, nodeVars>>

TimedOut(w) ==
  /\ WorkerGoTo(w, "waiting", "idle")
  /\ UNCHANGED <<walletVars, pendingNonce, nonce, callVars, nodeVars>>

-----------------------------------------------------------------------------
(* External: a transaction whose send had failed reaches the node after    *)
(* all, any time later.                                                    *)
Arrive(w, n) ==
  /\ n \in unanswered[w] /\ n \notin AtNode(w)
  /\ unanswered' = [unanswered EXCEPT ![w] = @ \ {n}]
  /\ held' = [held EXCEPT ![w] = @ \cup {n}]
  /\ UNCHANGED <<walletVars, workerVars, succeeded, refused, mined, old>>

(* External: the next transaction of the account is mined.                 *)
Mine(w) ==
  /\ mined[w] \in held[w] /\ mined[w] < MaxNonce
  /\ held' = [held EXCEPT ![w] = @ \ {mined[w]}]
  /\ mined' = [mined EXCEPT ![w] = @ + 1]
  /\ UNCHANGED <<walletVars, workerVars, callVars, old>>

-----------------------------------------------------------------------------
DoWork(w) ==
  \/ Sign(w) \/ SendAccepted(w) \/ SendRefused(w) \/ SendFails(w)
  \/ Confirmed(w) \/ TimedOut(w)

Next ==
  \/ FetchNonces
  \/ \E w \in Workers :
       CreateWorker(w) \/ DoWork(w) \/ Mine(w) \/ (\E n \in Nonces : Arrive(w, n))

Spec == Init /\ [][Next]_vars

(* The node mines what it can; nothing else has to happen.                 *)
FairSpec == Spec /\ \A w \in Workers : WF_vars(Mine(w))

-----------------------------------------------------------------------------
(* The worker's own count never gets ahead of the node by itself: every    *)
(* nonce below it is with the node, or is that of a send in progress or    *)
(* of one that failed.  Holds also if FetchNonces has failed and the count *)
(* starts too low.                                                         *)
NoncesAccounted ==
  \A w \in Workers : wpc[w] # "none" =>
    \A n \in 0..(pendingNonce[w] - 1) :
      \/ n \in AtNode(w) \cup unanswered[w]
      \/ wpc[w] = "sending" /\ n = nonce[w]

(* The nonce is advanced before the send, so that a send that fails leaves *)
(* a gap: no later call of this worker succeeds until that transaction has *)
(* reached the node after all.                                             *)
GapBlocksLater ==
  \A w \in Workers : \A n \in unanswered[w], s \in succeeded[w] : s < n

(* What keeps the node from mining a transaction it has accepted is lost,  *)
(* and nothing else: its nonce is mined, or the node holds the account's   *)
(* next one, or a send with a lower nonce has failed.                      *)
MinableOrBehindGap ==
  \A w \in Workers : wpc[w] = "waiting" =>
    \/ nonce[w] < mined[w]
    \/ mined[w] \in held[w]
    \/ \E m \in unanswered[w] : m < nonce[w]

(* A nonce is refused only if the node had it before this run: a count     *)
(* that started too low, or a transaction left behind a gap by another     *)
(* run.  No worker uses a nonce twice, whatever its sends have met with.   *)
RefusedWasOld == \A w \in Workers : refused[w] \subseteq old[w]

(* A transaction the node has accepted is mined, unless a send with a      *)
(* lower nonce has failed.                                                 *)
AcceptedIsMined ==
  \A w \in Workers, n \in Nonces :
    wpc[w] = "waiting" /\ nonce[w] = n
      ~> n < mined[w] \/ \E m \in unanswered[w] : m < n

(* Claimed by Prepair, which ends the process with log.Fatal if            *)
(* FetchNonces returns an error: no worker is started with a nonce that    *)
(* the node has already.                                                   *)
NoncesFetched == \A w \in Workers : wpc[w] # "none" => PendingNonces[w] \notin old[w]
=============================================================================
