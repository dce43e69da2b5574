-------------------------------- MODULE TxPool --------------------------------
(***************************************************************************)
(* The transaction monitor of internal/txpool/txs_monitor.go.              *)
(*                                                                         *)
(* SendTransaction subscribes to a transaction's confirmation, sends it    *)
(* and waits for the confirmation or for its context.  One goroutine, the  *)
(* event loop, receives the new heads of the chain, fetches the block of   *)
(* that number and signals the subscribers of its transactions.  The map   *)
(* of subscriptions is shared under a mutex.                               *)
(*                                                                         *)
(* The node is external.  Every call of SendTransaction has a transaction  *)
(* of its own, since DoWork signs a new one each time.                     *)
(***************************************************************************)
EXTENDS Naturals, Sequences, FiniteSets

CONSTANTS
  Txs,        \* the transactions, one for each call of SendTransaction
  MaxHeight,  \* bound on the length of the chain
  MaxReorgs   \* bound on the replacements of the last block

ASSUME PoolAssumption ==
  /\ IsFiniteSet(Txs)
  /\ MaxHeight \in Nat /\ MaxReorgs \in Nat

VARIABLES
  proc,      \* the process: up or ended by log.Fatal
  started,   \* InitTxPool has returned
  txSubs,    \* the keys of the map of subscriptions
  signalled, \* subscription channels that hold the one value they can
  closedCh,  \* subscription channels that are closed
  locked,    \* the event loop holds the mutex
  loopPc,    \* the event loop
  head,      \* the number of the head it handles
  todo,      \* hashes of the fetched block still to be dispatched
  sendPc,    \* each call of SendTransaction
  ctxDone    \* calls whose context is done

(* External: the node.                                                     *)
VARIABLES
  mempool,   \* transactions accepted and not in a block
  chain,     \* the canonical chain, a sequence of sets of transactions
  newHeadCh, \* heads on their way to the event loop
  minted,    \* history: transactions that have been in a block
  reorgs     \* number of replacements so far

subVars == <<txSubs, signalled, closedCh, locked>>
loopVars == <<loopPc, head, todo>>
callVars == <<sendPc, ctxDone>>
nodeVars == <<mempool, chain, newHeadCh, minted, reorgs>>
vars == <<proc, started, subVars, loopVars, callVars, nodeVars>>

SendPcs == {"idle", "subscribed", "sent", "nil", "error", "timeout"}

TypeOK ==
  /\ proc \in {"up", "fatal"} /\ started \in BOOLEAN /\ locked \in BOOLEAN
  /\ txSubs \in SUBSET Txs /\ signalled \in SUBSET Txs /\ closedCh \in SUBSET Txs
  /\ loopPc \in {"select", "fetch", "lock", "dispatch"}
  /\ head \in Nat /\ todo \in SUBSET Txs
  /\ sendPc \in [Txs -> SendPcs] /\ ctxDone \in SUBSET Txs
  /\ mempool \in SUBSET Txs /\ chain \in Seq(SUBSET Txs)
  /\ newHeadCh \in Seq(Nat) /\ minted \in SUBSET Txs /\ reorgs \in Nat

Init ==
  /\ proc = "up" /\ started = FALSE
  /\ txSubs = {} /\ signalled = {} /\ closedCh = {} /\ locked = FALSE
  /\ loopPc = "select" /\ head = 0 /\ todo = {}
  /\ sendPc = [t \in Txs |-> "idle"] /\ ctxDone = {}
  /\ mempool = {} /\ chain = <<>> /\ newHeadCh = <<>> /\ minted = {} /\ reorgs = 0

InChain(t) == \E n \in 1..Len(chain) : t \in chain[n]

-----------------------------------------------------------------------------
(* InitTxPool: dial, subscribe to new heads, start the event loop.         *)
InitTxPool ==
  /\ ~started
  /\ started' = TRUE
  /\ UNCHANGED <<proc, subVars, loopVars, callVars, nodeVars>>

(* It fails, or the event loop fails later: the heads' subscription ends   *)
(* or the block cannot be fetched, and log.Fatal ends the process.         *)
Fatal ==
  /\ \/ ~started
     \/ loopPc \in {"select", "fetch"}
  /\ proc' = "fatal"
  /\ UNCHANGED <<started, subVars, loopVars, callVars, nodeVars>>

-----------------------------------------------------------------------------
SendGoTo(t, from, to) == sendPc[t] = from /\ sendPc' = [sendPc EXCEPT ![t] = to]

(* SendTransaction: subscribeTxConfirmed, under the mutex, ...             *)
\* Faulty: the subscription is made without the mutex and comes to nothing
\* when the event loop is changing the map.
SubscribeUnlocked(t) ==
  /\ started
  /\ SendGoTo(t, "idle", "subscribed")
  /\ txSubs' = IF locked THEN txSubs ELSE txSubs \cup {t}
  /\ UNCHANGED <<proc, started, signalled, closedCh, locked, loopVars, ctxDone,
                 nodeVars>>

Subscribe(t) ==
  /\ started /\ ~locked
  /\ SendGoTo(t, "idle", "subscribed")
  /\ txSubs' = txSubs \cup {t}
  /\ UNCHANGED <<proc, started, signalled, closedCh, locked, loopVars, ctxDone,
                 nodeVars>>

(* ... then client.SendTransaction, which the node has answered, ...       *)
SendReturnsNil(t) ==
  /\ t \in mempool \cup minted
  /\ SendGoTo(t, "subscribed", "sent")
  /\ UNCHANGED <<proc, started, subVars, loopVars, ctxDone, nodeVars>>

(* ... or which fails, whether or not the node has got the transaction;    *)
(* the subscription stays in the map.                                      *)
SendReturnsError(t) ==
  /\ SendGoTo(t, "subscribed", "error")
  /\ UNCHANGED <<proc, started, subVars, loopVars, ctxDone, nodeVars>>

(* ... and the wait: for the channel, or for the context.                  *)
\* Faulty: the wait does not need the signal of the event loop.
ConfirmedOnSend(t) ==
  /\ SendGoTo(t, "sent", "nil")
  /\ signalled' = signalled \ {t}
  /\ UNCHANGED <<proc, started, txSubs, closedCh, locked, loopVars, ctxDone, nodeVars>>

Confirmed(t) ==
  /\ t \in signalled \cup closedCh
  /\ SendGoTo(t, "sent", "nil")
  /\ signalled' = signalled \ {t}
  /\ UNCHANGED <<proc, started, txSubs, closedCh, locked, loopVars, ctxDone, nodeVars>>

TimedOut(t) ==
  /\ t \in ctxDone
  /\ SendGoTo(t, "sent", "timeout")
  /\ UNCHANGED <<proc, started, subVars, loopVars, ctxDone, nodeVars>>

CtxExpires(t) ==
  /\ sendPc[t] \in {"subscribed", "sent"} /\ t \notin ctxDone
  /\ ctxDone' = ctxDone \cup {t}
  /\ UNCHANGED <<proc, started, subVars, loopVars, sendPc, nodeVars>>

-----------------------------------------------------------------------------
LoopGoTo(from, to) == loopPc = from /\ loopPc' = to

(* eventLoop: a new head, ...                                              *)
ReceiveHead ==
  /\ newHeadCh # <<>>
  /\ LoopGoTo("select", "fetch")
  /\ head' = Head(newHeadCh)
  /\ newHeadCh' = Tail(newHeadCh)
  /\ UNCHANGED <<proc, started, subVars, todo, callVars, mempool, chain, minted, reorgs>>

(* ... the hashes of the block that has its number by now, ...             *)
\* Faulty: the block before the head is fetched.
FetchParentTxs ==
  /\ LoopGoTo("fetch", "lock")
  /\ todo' = IF head > 1 THEN chain[head - 1] ELSE {}
  /\ UNCHANGED <<proc, started, subVars, head, callVars, nodeVars>>

FetchBlockTxs ==
  /\ LoopGoTo("fetch", "lock")
  /\ todo' = chain[head]
  /\ UNCHANGED <<proc, started, subVars, head, callVars, nodeVars>>

(* ... and dispatchTxsConfirmed, under the mutex: for each hash that is    *)
(* in the map, send to its channel, then close it and delete the entry.    *)
DispatchLock ==
  /\ LoopGoTo("lock", "dispatch")
  /\ ~locked
  /\ locked' = TRUE
  /\ UNCHANGED <<proc, started, txSubs, signalled, closedCh, head, todo, callVars,
                 nodeVars>>

(* The send blocks while the channel is full.                              *)
\* Faulty: the entry of a signalled transaction is not deleted.
DispatchTxKeepEntry(t) ==
  /\ loopPc = "dispatch" /\ t \in todo \cap txSubs
  /\ t \notin signalled
  /\ todo' = todo \ {t}
  /\ signalled' = signalled \cup {t}
  /\ closedCh' = closedCh \cup {t}
  /\ UNCHANGED <<proc, started, txSubs, locked, loopPc, head, callVars, nodeVars>>

DispatchTx(t) ==
  /\ loopPc = "dispatch" /\ t \in todo \cap txSubs
  /\ t \notin signalled
  /\ todo' = todo \ {t}
  /\ signalled' = signalled \cup {t}
  /\ closedCh' = closedCh \cup {t}
  /\ txSubs' = txSubs \ {t}
  /\ UNCHANGED <<proc, started, locked, loopPc, head, callVars, nodeVars>>

(* Nothing is left to dispatch: the other hashes are not in the map.       *)
\* Faulty: the first hash that is not in the map ends the dispatch.
DispatchUnlockAtUnknown ==
  /\ todo \subseteq txSubs => todo = {}
  /\ LoopGoTo("dispatch", "select")
  /\ todo' = {}
  /\ locked' = FALSE
  /\ UNCHANGED <<proc, started, txSubs, signalled, closedCh, head, callVars, nodeVars>>

DispatchUnlock ==
  /\ todo \cap txSubs = {}
  /\ LoopGoTo("dispatch", "select")
  /\ todo' = {}
  /\ locked' = FALSE
  /\ UNCHANGED <<proc, started, txSubs, signalled, closedCh, head, callVars, nodeVars>>

-----------------------------------------------------------------------------
(* External: the node gets the transaction of a call in progress, whose    *)
(* answer may still be lost.                                               *)
NodeAccepts(t) ==
  /\ sendPc[t] \in {"subscribed", "error"} /\ t \notin mempool \cup minted
  /\ mempool' = mempool \cup {t}
  /\ UNCHANGED <<proc, started, subVars, loopVars, callVars, chain, newHeadCh, minted,
                 reorgs>>

(* External: a block is mined on the chain; its head is announced.         *)
Mine(B) ==
  /\ B \subseteq mempool /\ Len(chain) < MaxHeight
  /\ chain' = Append(chain, B)
  /\ mempool' = mempool \ B
  /\ minted' = minted \cup B
  /\ newHeadCh' = IF started THEN Append(newHeadCh, Len(chain) + 1) ELSE newHeadCh
  /\ UNCHANGED <<proc, started, subVars, loopVars, callVars, reorgs>>

(* External: another block takes the place of the last one; transactions   *)
(* that are only in the old one return to the mempool.                     *)
Reorg(B) ==
  /\ reorgs < MaxReorgs /\ chain # <<>>
  /\ LET n == Len(chain)
         free == mempool \cup chain[n]
     IN /\ B \subseteq free
        /\ chain' = [chain EXCEPT ![n] = B]
        /\ mempool' = free \ B
        /\ minted' = minted \cup B
        /\ newHeadCh' = IF started THEN Append(newHeadCh, n) ELSE newHeadCh
  /\ reorgs' = reorgs + 1
  /\ UNCHANGED <<proc, started, subVars, loopVars, callVars>>

-----------------------------------------------------------------------------
CallStep(t) ==
  \/ Subscribe(t) \/ SendReturnsNil(t) \/ SendReturnsError(t)
  \/ Confirmed(t) \/ TimedOut(t) \/ CtxExpires(t)

LoopStep ==
  \/ ReceiveHead \/ FetchBlockTxs \/ DispatchLock \/ DispatchUnlock
  \/ \E t \in Txs : DispatchTx(t)

NodeStep ==
  \/ \E t \in Txs : NodeAccepts(t)
  \/ \E B \in SUBSET Txs : Mine(B) \/ Reorg(B)

Step ==
  \/ InitTxPool \/ Fatal \/ LoopStep \/ NodeStep \/ \E t \in Txs : CallStep(t)

(* A process that has ended, or an idle one on a chain at its bounds.      *)
Stopped ==
  /\ \/ proc # "up"
     \/ newHeadCh = <<>> /\ loopPc = "select" /\ Len(chain) = MaxHeight
  /\ UNCHANGED vars

Next == (proc = "up" /\ Step) \/ Stopped

Spec == Init /\ [][Next]_vars

(***************************************************************************)
(* Fairness.  The event loop and a call that can go on do; a mutex waiter  *)
(* is not starved.  No context has to expire and no block has to be mined. *)
(***************************************************************************)
Fairness ==
  /\ WF_vars(proc = "up" /\ LoopStep)
  /\ \A t \in Txs : WF_vars(proc = "up" /\ (Confirmed(t) \/ TimedOut(t)))

FairSpec == Spec /\ Fairness

-----------------------------------------------------------------------------
Waiting(t) == sendPc[t] \in {"subscribed", "sent"}

(* No confirmation is missed: a call that will or does wait has its entry  *)
(* in the map, or its channel has been signalled already.  This is why it  *)
(* subscribes before it sends.                                             *)
NoLostConfirmation == \A t \in Txs : Waiting(t) => t \in txSubs \cup signalled

(* Nor does a confirmation get stuck on its way: as long as its call waits *)
(* and its block is in the chain, a transaction is signalled, or among     *)
(* those the loop is dispatching, or its block is the one the loop is to   *)
(* fetch, or the head of that block is still to be received, also when the *)
(* block has taken the place of another.                                   *)
Dispatching(t) == loopPc \in {"lock", "dispatch"} /\ t \in todo
HeadOnItsWay(n) ==
  \/ loopPc = "fetch" /\ head = n
  \/ \E k \in 1..Len(newHeadCh) : newHeadCh[k] = n

ConfirmationOnItsWay ==
  \A t \in Txs, n \in 1..Len(chain) :
    Waiting(t) /\ t \in chain[n] => t \in signalled \/ Dispatching(t) \/ HeadOnItsWay(n)

(* The event loop neither blocks nor panics under the mutex: whenever it   *)
(* is about to signal a transaction, its channel is empty and open, also   *)
(* when a reorganised chain shows it the same transaction again.           *)
DispatchNeverBlocks == txSubs \cap (signalled \cup closedCh) = {}

(* "send and wait until transaction minted": a call that returned nil has  *)
(* its transaction in a block, although heads and blocks are fetched by    *)
(* number and the block may have been replaced in between.                 *)
SucceededMeansMinted == \A t \in Txs : sendPc[t] = "nil" => t \in minted

(* An entry of the map that no call needs is the left-over of a call that  *)
(* failed or timed out, never of one that was confirmed.                   *)
OnlyFailuresLeak == \A t \in txSubs : sendPc[t] \in {"subscribed", "sent", "error", "timeout"}

(* A call whose transaction is in the chain gets its confirmation, unless  *)
(* its context expires first, the block is replaced, or the process ends.  *)
ConfirmedEventually ==
  \A t \in Txs :
    sendPc[t] = "sent" /\ InChain(t)
      ~> sendPc[t] = "nil" \/ t \in ctxDone \/ ~InChain(t) \/ proc # "up"
=============================================================================
