------------------------ MODULE TransferSystemProofs ------------------------
(***************************************************************************)
(* The transaction monitor by itself, and the transfers on top of it, for  *)
(* every set of transactions and workers, any length of the chain and any  *)
(* number of replaced blocks.                                              *)
(*                                                                         *)
(* Of the monitor: the inductive invariant relates the map and its         *)
(* channels to the calls (MapOK), and what the event loop has seen of the  *)
(* chain to the chain (ChainOK).                                           *)
(*                                                                         *)
(* Of the transfers: every step is a step of the monitor, so that its      *)
(* invariant holds; with what ties the calls to the workers (CallOK) and   *)
(* the order in which the node mines (NodeOK), every step is one of        *)
(* TransferEth or leaves alone what that sees.                             *)
(***************************************************************************)
EXTENDS TransferSystem, FiniteSetTheorems, SequenceTheorems, TLAPS

(* A call that has not subscribed has no trace in the map; one that waits  *)
(* has an entry or a signal; a signalled channel is closed, and out of the *)
(* map; a confirmed call's channel was closed.                             *)
MapOK ==
  /\ \A t \in Txs : sendPc[t] = "idle" => t \notin txSubs \cup closedCh
  /\ \A t \in Txs : Waiting(t) => t \in txSubs \cup signalled
  /\ \A t \in Txs : sendPc[t] = "nil" => t \in closedCh
  /\ signalled \subseteq closedCh
  /\ txSubs \cap closedCh = {}

(* What is dispatched, and what has been, is in a block; the numbers of    *)
(* the heads are those of blocks the chain still has.                      *)
ChainOK ==
  /\ closedCh \subseteq minted
  /\ todo \subseteq minted
  /\ \A n \in 1..Len(chain) : chain[n] \subseteq minted
  /\ \A k \in 1..Len(newHeadCh) : newHeadCh[k] \in 1..Len(chain)
  /\ loopPc = "fetch" => head \in 1..Len(chain)

IInv == TypeOK /\ MapOK /\ ChainOK

-----------------------------------------------------------------------------
(* A head is announced behind those that are on their way.                 *)
LEMMA Announce ==
  ASSUME NEW s \in Seq(Nat), NEW n \in Nat
  PROVE  /\ Append(s, n) \in Seq(Nat)
         /\ \A k \in 1..Len(Append(s, n)) :
              Append(s, n)[k] = n \/ (k \in 1..Len(s) /\ Append(s, n)[k] = s[k])
  <1> DEFINE r == Append(s, n)
  <1>1. /\ r \in Seq(Nat) /\ Len(r) = Len(s) + 1
        /\ \A i \in 1..Len(s) : r[i] = s[i]
        /\ r[Len(s) + 1] = n
    BY AppendProperties
  <1>2. Len(s) \in Nat
    OBVIOUS
  <1> HIDE DEF r
  <1>3. r \in Seq(Nat) /\ \A k \in 1..Len(r) : r[k] = n \/ (k \in 1..Len(s) /\ r[k] = s[k])
    BY <1>1, <1>2
  <1> QED
    BY <1>3 DEF r

LEMMA InitIInv == Init => IInv
  <1> SUFFICES ASSUME Init PROVE IInv
    OBVIOUS
  <1>1. chain \in Seq(SUBSET Txs) /\ newHeadCh \in Seq(Nat)
    BY DEF Init
  <1>2. TypeOK
    BY <1>1 DEF Init, TypeOK, SendPcs
  <1>3. MapOK /\ ChainOK
    BY DEF Init, MapOK, ChainOK, Waiting
  <1> QED
    BY <1>2, <1>3 DEF IInv

(* The steps of a call touch neither the chain nor the loop.               *)
LEMMA CallKeepsIInv ==
  ASSUME IInv, NEW t \in Txs, CallStep(t)
  PROVE  IInv'
  <1> USE DEF IInv, TypeOK, SendPcs, SendGoTo, callVars, loopVars, nodeVars, subVars
  <1>1. ChainOK'
    BY DEF CallStep, ChainOK, Subscribe, SendReturnsNil, SendReturnsError, Confirmed,
           TimedOut, CtxExpires
  <1>2. TypeOK'
    BY DEF CallStep, Subscribe, SendReturnsNil, SendReturnsError, Confirmed, TimedOut,
           CtxExpires
  <1>3. MapOK'
    <2> USE DEF MapOK, Waiting
    <2>1. CASE Subscribe(t)
      BY <2>1 DEF Subscribe
    <2>2. CASE SendReturnsNil(t) \/ SendReturnsError(t) \/ TimedOut(t)
      BY <2>2 DEF SendReturnsNil, SendReturnsError, TimedOut
    <2>3. CASE Confirmed(t)
      BY <2>3 DEF Confirmed
    <2>4. CASE CtxExpires(t)
      BY <2>4 DEF CtxExpires
    <2> QED
      BY <2>1, <2>2, <2>3, <2>4 DEF CallStep
  <1> QED
    BY <1>1, <1>2, <1>3

(* The event loop signals only transactions of a block it has fetched.     *)
LEMMA LoopKeepsIInv ==
  ASSUME IInv, LoopStep
  PROVE  IInv'
  <1> USE DEF IInv, TypeOK, SendPcs, LoopGoTo, callVars, loopVars, nodeVars, subVars
  <1>1. CASE ReceiveHead
    <2>1. /\ head' \in 1..Len(chain) /\ newHeadCh' \in Seq(Nat)
          /\ \A k \in 1..Len(newHeadCh') : newHeadCh'[k] = newHeadCh[k + 1]
          /\ Len(newHeadCh') = Len(newHeadCh) - 1
      BY <1>1 DEF ReceiveHead, ChainOK
    <2>2. TypeOK'
      BY <1>1, <2>1 DEF ReceiveHead
    <2>3. MapOK'
      BY <1>1 DEF ReceiveHead, MapOK, Waiting
    <2>4. ChainOK'
      BY <1>1, <2>1 DEF ReceiveHead, ChainOK
    <2> QED
      BY <2>2, <2>3, <2>4
  <1>2. CASE FetchBlockTxs
    <2>1. chain[head] \subseteq minted /\ chain[head] \in SUBSET Txs
      BY <1>2 DEF FetchBlockTxs, ChainOK
    <2> QED
      BY <1>2, <2>1 DEF FetchBlockTxs, MapOK, ChainOK, Waiting
  <1>3. CASE DispatchLock
    BY <1>3 DEF DispatchLock, MapOK, ChainOK, Waiting
  <1>4. CASE DispatchUnlock
    BY <1>4 DEF DispatchUnlock, MapOK, ChainOK, Waiting
  <1>5. ASSUME NEW t \in Txs, DispatchTx(t) PROVE IInv'
    <2>1. TypeOK'
      BY <1>5 DEF DispatchTx
    <2>2. MapOK'
      BY <1>5 DEF DispatchTx, MapOK, Waiting
    <2>3. ChainOK'
      BY <1>5 DEF DispatchTx, ChainOK
    <2> QED
      BY <2>1, <2>2, <2>3
  <1> QED
    BY <1>1, <1>2, <1>3, <1>4, <1>5 DEF LoopStep

(* The node only adds to what has been in a block, also when it replaces   *)
(* one, and never shortens its chain.                                      *)
LEMMA NodeKeepsIInv ==
  ASSUME IInv, NodeStep
  PROVE  IInv'
  <1> USE DEF IInv, TypeOK, SendPcs, callVars, loopVars, subVars
  <1>1. ASSUME NEW t \in Txs, NodeAccepts(t) PROVE IInv'
    BY <1>1 DEF NodeAccepts, MapOK, ChainOK, Waiting
  <1>2. ASSUME NEW B \in SUBSET Txs, Mine(B) PROVE IInv'
    <2>1. /\ chain' \in Seq(SUBSET Txs) /\ Len(chain') = Len(chain) + 1
          /\ \A n \in 1..Len(chain) : chain'[n] = chain[n]
          /\ chain'[Len(chain) + 1] = B
      BY <1>2 DEF Mine
    <2>2. /\ newHeadCh' \in Seq(Nat)
          /\ \A k \in 1..Len(newHeadCh') :
               newHeadCh'[k] = Len(chain) + 1
                 \/ (k \in 1..Len(newHeadCh) /\ newHeadCh'[k] = newHeadCh[k])
      <3>1. Len(chain) + 1 \in Nat
        OBVIOUS
      <3> QED
        BY <1>2, <3>1, Announce DEF Mine
    <2>3. TypeOK'
      BY <1>2, <2>1, <2>2 DEF Mine
    <2>4. MapOK'
      BY <1>2 DEF Mine, MapOK, Waiting
    <2>5. ChainOK'
      BY <1>2, <2>1, <2>2 DEF Mine, ChainOK
    <2> QED
      BY <2>3, <2>4, <2>5
  <1>3. ASSUME NEW B \in SUBSET Txs, Reorg(B) PROVE IInv'
    <2>1. /\ chain' \in Seq(SUBSET Txs) /\ Len(chain') = Len(chain)
          /\ \A n \in 1..Len(chain) : chain'[n] = chain[n] \/ chain'[n] = B
          /\ chain[Len(chain)] \in SUBSET Txs
          /\ Len(chain) \in 1..Len(chain)
      BY <1>3 DEF Reorg
    <2>2. /\ newHeadCh' \in Seq(Nat)
          /\ \A k \in 1..Len(newHeadCh') :
               newHeadCh'[k] = Len(chain)
                 \/ (k \in 1..Len(newHeadCh) /\ newHeadCh'[k] = newHeadCh[k])
      <3>1. Len(chain) \in Nat
        OBVIOUS
      <3> QED
        BY <1>3, <3>1, Announce DEF Reorg
    <2>3. TypeOK'
      BY <1>3, <2>1, <2>2 DEF Reorg
    <2>4. MapOK'
      BY <1>3 DEF Reorg, MapOK, Waiting
    <2>5. ChainOK'
      BY <1>3, <2>1, <2>2 DEF Reorg, ChainOK
    <2> QED
      BY <2>3, <2>4, <2>5
  <1> QED
    BY <1>1, <1>2, <1>3 DEF NodeStep

LEMMA NextIInv == IInv /\ [Next]_vars => IInv'
  <1> SUFFICES ASSUME IInv, [Next]_vars PROVE IInv'
    OBVIOUS
  <1>1. CASE InitTxPool \/ Fatal
    BY <1>1 DEF InitTxPool, Fatal, subVars, loopVars, callVars, nodeVars, IInv, TypeOK,
                MapOK, ChainOK, Waiting
  <1>2. CASE UNCHANGED vars
    BY <1>2 DEF vars, subVars, loopVars, callVars, nodeVars, IInv, TypeOK, MapOK,
                ChainOK, Waiting
  <1> QED
    BY <1>1, <1>2, CallKeepsIInv, LoopKeepsIInv, NodeKeepsIInv DEF Next, Step, Stopped

THEOREM InvariantHolds == Spec => []IInv
  BY InitIInv, NextIInv, PTL DEF Spec

-----------------------------------------------------------------------------
(* Every variable keeps its type: the heads the loop fetches by number are *)
(* numbers of blocks, and what it dispatches are transactions.             *)
THEOREM TypeCorrect == Spec => []TypeOK
  <1>1. IInv => TypeOK
    BY DEF IInv
  <1> QED
    BY <1>1, InvariantHolds, PTL

(* No call that waits can miss its confirmation: it has an entry in the    *)
(* map or its channel is signalled, in every interleaving.                 *)
THEOREM ConfirmationNotLost == Spec => []NoLostConfirmation
  <1>1. IInv => NoLostConfirmation
    BY DEF IInv, MapOK, NoLostConfirmation
  <1> QED
    BY <1>1, InvariantHolds, PTL

(* The event loop never blocks on a full channel or panics on a closed one *)
(* while it holds the mutex.                                               *)
THEOREM DispatchSafe == Spec => []DispatchNeverBlocks
  <1>1. IInv => DispatchNeverBlocks
    BY DEF IInv, MapOK, DispatchNeverBlocks
  <1> QED
    BY <1>1, InvariantHolds, PTL

(* SendTransaction returns nil only for a transaction that was in a block, *)
(* although blocks are fetched by number and may have been replaced.       *)
THEOREM SuccessIsMinted == Spec => []SucceededMeansMinted
  <1>1. IInv => SucceededMeansMinted
    BY DEF IInv, MapOK, ChainOK, SucceededMeansMinted
  <1> QED
    BY <1>1, InvariantHolds, PTL

(* Only calls that failed or timed out leave an entry behind.              *)
THEOREM LeaksAreFailures == Spec => []OnlyFailuresLeak
  <1>1. IInv => OnlyFailuresLeak
    BY DEF IInv, TypeOK, SendPcs, MapOK, OnlyFailuresLeak
  <1> QED
    BY <1>1, InvariantHolds, PTL

-----------------------------------------------------------------------------
(* That a confirmation is on its way needs what the node has before the    *)
(* monitor runs: nothing, for no transaction is sent before its call has   *)
(* subscribed, and no call subscribes before InitTxPool.                   *)
SentOK ==
  /\ ~started => \A t \in Txs : sendPc[t] = "idle"
  /\ \A t \in Txs : sendPc[t] = "idle" => t \notin mempool \cup minted

WayInv == IInv /\ SentOK /\ ConfirmationOnItsWay

(* Before the monitor runs every block is empty.                           *)
LEMMA NothingMinedBefore ==
  ASSUME WayInv, ~started
  PROVE  mempool = {} /\ \A n \in 1..Len(chain) : chain[n] = {}
  BY DEF WayInv, IInv, TypeOK, SentOK, ChainOK

LEMMA CallKeepsWay ==
  ASSUME WayInv, NEW u \in Txs, CallStep(u)
  PROVE  WayInv'
  <1> USE DEF WayInv, IInv, TypeOK, SendPcs, SendGoTo, callVars, loopVars, nodeVars, subVars
  <1>1. IInv'
    BY CallKeepsIInv
  <1>2. UNCHANGED <<mempool, minted, started, chain, newHeadCh, loopPc, head, todo>>
    BY DEF CallStep, Subscribe, SendReturnsNil, SendReturnsError, Confirmed, TimedOut,
           CtxExpires
  <1>3. SentOK'
    BY DEF SentOK, CallStep, Subscribe, SendReturnsNil, SendReturnsError, Confirmed,
           TimedOut, CtxExpires
  <1>4. \A t \in Txs : Waiting(t)' => Waiting(t) \/ t \notin minted
    BY DEF Waiting, SentOK, CallStep, Subscribe, SendReturnsNil, SendReturnsError,
           Confirmed, TimedOut, CtxExpires
  <1>5. \A t \in Txs : Waiting(t)' /\ t \in signalled => t \in signalled'
    BY DEF Waiting, CallStep, Subscribe, SendReturnsNil, SendReturnsError, Confirmed,
           TimedOut, CtxExpires
  <1>6. ConfirmationOnItsWay'
    <2> SUFFICES ASSUME NEW t \in Txs, NEW n \in 1..Len(chain'), Waiting(t)', t \in chain'[n]
                 PROVE  t \in signalled' \/ Dispatching(t)' \/ HeadOnItsWay(n)'
      BY DEF ConfirmationOnItsWay
    <2>1. t \in minted
      BY <1>2 DEF ChainOK
    <2>2. t \in signalled \/ Dispatching(t) \/ HeadOnItsWay(n)
      BY <1>2, <1>4, <2>1 DEF ConfirmationOnItsWay
    <2> QED
      BY <1>2, <1>5, <2>2 DEF Dispatching, HeadOnItsWay
  <1> QED
    BY <1>1, <1>3, <1>6

(* A head that is received is fetched, a block that is fetched dispatched, *)
(* and the dispatch ends when each of its calls is signalled.              *)
LEMMA LoopKeepsWay ==
  ASSUME WayInv, LoopStep
  PROVE  WayInv'
  <1> USE DEF WayInv, IInv, TypeOK, LoopGoTo, callVars, nodeVars, subVars, loopVars
  <1>1. IInv'
    BY LoopKeepsIInv
  <1>2. UNCHANGED <<started, sendPc, mempool, minted, chain>>
    BY DEF LoopStep, ReceiveHead, FetchBlockTxs, DispatchLock, DispatchUnlock, DispatchTx
  <1>3. SentOK'
    BY <1>2 DEF SentOK
  <1> SUFFICES ASSUME NEW t \in Txs, NEW n \in 1..Len(chain), Waiting(t), t \in chain[n]
               PROVE  t \in signalled' \/ Dispatching(t)' \/ HeadOnItsWay(n)'
    BY <1>1, <1>2, <1>3 DEF ConfirmationOnItsWay, Waiting
  <1>4. t \in signalled \/ Dispatching(t) \/ HeadOnItsWay(n)
    BY DEF ConfirmationOnItsWay
  <1>5. CASE ReceiveHead
    <2>1. /\ head' = newHeadCh[1]
          /\ \A k \in 1..Len(newHeadCh) : k # 1 =>
               k - 1 \in 1..Len(newHeadCh') /\ newHeadCh'[k - 1] = newHeadCh[k]
      BY <1>5 DEF ReceiveHead
    <2>2. CASE HeadOnItsWay(n)
      <3>1. PICK k \in 1..Len(newHeadCh) : newHeadCh[k] = n
        BY <1>5, <2>2 DEF ReceiveHead, HeadOnItsWay
      <3>2. CASE k = 1
        BY <1>5, <2>1, <3>1, <3>2 DEF ReceiveHead, HeadOnItsWay
      <3>3. CASE k # 1
        BY <2>1, <3>1, <3>3 DEF HeadOnItsWay
      <3> QED
        BY <3>2, <3>3
    <2>3. ~Dispatching(t) /\ signalled' = signalled
      BY <1>5 DEF ReceiveHead, Dispatching
    <2> QED
      BY <1>4, <2>2, <2>3
  <1>6. CASE FetchBlockTxs
    BY <1>4, <1>6 DEF FetchBlockTxs, Dispatching, HeadOnItsWay
  <1>7. CASE DispatchLock
    BY <1>4, <1>7 DEF DispatchLock, Dispatching, HeadOnItsWay
  <1>8. CASE DispatchUnlock
    <2>1. t \in todo => t \in signalled
      BY <1>8 DEF DispatchUnlock, MapOK
    <2> QED
      BY <1>4, <1>8, <2>1 DEF DispatchUnlock, Dispatching, HeadOnItsWay
  <1>9. ASSUME NEW u \in Txs, DispatchTx(u)
        PROVE  t \in signalled' \/ Dispatching(t)' \/ HeadOnItsWay(n)'
    BY <1>4, <1>9 DEF DispatchTx, Dispatching, HeadOnItsWay
  <1> QED
    BY <1>5, <1>6, <1>7, <1>8, <1>9 DEF LoopStep

(* The head of a new block is announced behind the others; before the      *)
(* monitor runs there is nothing in it.                                    *)
LEMMA HeadAnnounced ==
  ASSUME NEW s \in Seq(Nat), NEW n \in Nat
  PROVE  /\ \A k \in 1..Len(s) : k \in 1..Len(Append(s, n)) /\ Append(s, n)[k] = s[k]
         /\ \E k \in 1..Len(Append(s, n)) : Append(s, n)[k] = n
  <1>1. Len(Append(s, n)) = Len(s) + 1 /\ Append(s, n)[Len(s) + 1] = n
    BY AppendProperties
  <1>2. Len(s) + 1 \in 1..(Len(s) + 1)
    OBVIOUS
  <1>3. \A k \in 1..Len(s) : k \in 1..Len(Append(s, n)) /\ Append(s, n)[k] = s[k]
    BY AppendProperties
  <1> QED
    BY <1>1, <1>2, <1>3

LEMMA NodeKeepsWay ==
  ASSUME WayInv, NodeStep
  PROVE  WayInv'
  <1> USE DEF WayInv, IInv, TypeOK, callVars, subVars, loopVars
  <1>1. IInv'
    BY NodeKeepsIInv
  <1>2. UNCHANGED <<started, sendPc, signalled, loopPc, head, todo>>
    BY DEF NodeStep, NodeAccepts, Mine, Reorg
  <1>3. \A t \in Txs : Waiting(t)' <=> Waiting(t)
    BY <1>2 DEF Waiting
  <1>4. ASSUME NEW u \in Txs, NodeAccepts(u) PROVE WayInv'
    BY <1>1, <1>4 DEF NodeAccepts, SentOK, ConfirmationOnItsWay, Waiting, Dispatching,
                      HeadOnItsWay
  (* A block B is put at the number m, whose head is announced. *)
  <1> DEFINE Put(B, m) ==
        /\ B \subseteq Txs /\ m \in 1..Len(chain')
        /\ ~started => B = {}
        /\ \A n \in 1..Len(chain') : n # m => n \in 1..Len(chain) /\ chain'[n] = chain[n]
        /\ chain'[m] = B
        /\ newHeadCh' = IF started THEN Append(newHeadCh, m) ELSE newHeadCh
  <1>5. ASSUME NEW B, NEW m, Put(B, m) PROVE ConfirmationOnItsWay'
    <2> SUFFICES ASSUME NEW t \in Txs, NEW n \in 1..Len(chain'), Waiting(t), t \in chain'[n]
                 PROVE  t \in signalled \/ Dispatching(t) \/ HeadOnItsWay(n)'
      BY <1>2, <1>3 DEF ConfirmationOnItsWay, Dispatching
    <2>1. m \in Nat /\ started
      BY <1>5, NothingMinedBefore
    <2>2. newHeadCh' = Append(newHeadCh, m)
      BY <1>5, <2>1
    <2>3. CASE n = m
      BY <2>1, <2>2, <2>3, HeadAnnounced DEF HeadOnItsWay
    <2>4. CASE n # m
      <3>1. t \in signalled \/ Dispatching(t) \/ HeadOnItsWay(n)
        BY <1>5, <2>4 DEF ConfirmationOnItsWay
      <3>2. CASE HeadOnItsWay(n)
        BY <1>2, <2>1, <2>2, <3>2, HeadAnnounced DEF HeadOnItsWay
      <3> QED
        BY <3>1, <3>2
    <2> QED
      BY <2>3, <2>4
  <1>6. ASSUME NEW B \in SUBSET Txs, Mine(B) PROVE WayInv'
    <2>1. Put(B, Len(chain) + 1)
      <3>1. /\ Len(chain') = Len(chain) + 1 /\ chain'[Len(chain) + 1] = B
            /\ \A n \in 1..Len(chain) : chain'[n] = chain[n]
        BY <1>6 DEF Mine
      <3> QED
        BY <1>6, <3>1, NothingMinedBefore DEF Mine
    <2>2. SentOK'
      BY <1>2, <1>6 DEF Mine, SentOK
    <2> QED
      BY <1>1, <1>5, <2>1, <2>2
  <1>7. ASSUME NEW B \in SUBSET Txs, Reorg(B) PROVE WayInv'
    <2>1. /\ Len(chain') = Len(chain) /\ chain'[Len(chain)] = B
          /\ \A n \in 1..Len(chain) : n # Len(chain) => chain'[n] = chain[n]
          /\ Len(chain) \in 1..Len(chain)
          /\ chain[Len(chain)] \subseteq minted
      BY <1>7 DEF Reorg, ChainOK
    <2>2. B \subseteq mempool \cup chain[Len(chain)]
      BY <1>7 DEF Reorg
    <2>3. Put(B, Len(chain))
      BY <1>7, <2>1, <2>2, NothingMinedBefore DEF Reorg
    <2>4. mempool' \cup minted' \subseteq mempool \cup minted
      BY <1>7, <2>1, <2>2 DEF Reorg
    <2>5. SentOK'
      BY <1>2, <2>4 DEF SentOK
    <2> QED
      BY <1>1, <1>5, <2>3, <2>5
  <1> QED
    BY <1>4, <1>6, <1>7 DEF NodeStep

LEMMA NextWayInv == WayInv /\ [Next]_vars => WayInv'
  <1> SUFFICES ASSUME WayInv, [Next]_vars PROVE WayInv'
    OBVIOUS
  <1>1. IInv'
    BY NextIInv DEF WayInv
  <1>2. CASE InitTxPool \/ Fatal \/ UNCHANGED vars
    BY <1>1, <1>2 DEF InitTxPool, Fatal, vars, subVars, loopVars, callVars, nodeVars, WayInv,
                SentOK, ConfirmationOnItsWay, Waiting, Dispatching, HeadOnItsWay
  <1> QED
    BY <1>2, CallKeepsWay, LoopKeepsWay, NodeKeepsWay DEF Next, Step, Stopped

(* A confirmation is never stuck: while its call waits and its block is in *)
(* the chain it is signalled, being dispatched, being fetched, or its head *)
(* is to be received, for any chain and any number of replaced blocks.     *)
THEOREM NeverStuckOnItsWay == Spec => []ConfirmationOnItsWay
  <1>1. Init => WayInv
    <2>1. ASSUME Init PROVE SentOK /\ ConfirmationOnItsWay
      BY <2>1 DEF Init, SentOK, ConfirmationOnItsWay, Waiting
    <2> QED
      BY <2>1, InitIInv DEF WayInv
  <1>2. WayInv => ConfirmationOnItsWay
    BY DEF WayInv
  <1> QED
    BY <1>1, <1>2, NextWayInv, PTL DEF Spec

-----------------------------------------------------------------------------
(* The transfers on top of the monitor.                                    *)
(*                                                                         *)
(* Prepair: the nonces, then the monitor, then the workers.                *)
PrepairOK ==
  /\ PendingNonces = [w \in Workers |-> 0]
  /\ started => fetched
  /\ created # {} => started

(* A worker in DoWork has signed the nonce below its count.                *)
WorkerOK(w) ==
  /\ w \notin created => pendingNonce[w] = 0
  /\ w \in working => signedTx(w) \in Txs /\ pendingNonce[w] = nonce[w] + 1

(* A call has begun only for a nonce below the count; only the call of the *)
(* work in progress waits; the node has no transaction that was not sent,  *)
(* and has every one whose send it has answered.                           *)
CallOK(w, n) ==
  /\ pendingNonce[w] <= n => sendPc[<<w, n>>] = "idle"
  /\ Waiting(<<w, n>>) => w \in working /\ nonce[w] = n
  /\ sendPc[<<w, n>>] = "idle" => <<w, n>> \notin AtNode
  /\ sendPc[<<w, n>>] = "sent" => <<w, n>> \in AtNode

(* The node mines the nonces of an account from 0 without a gap, each one  *)
(* once.                                                                   *)
NodeOK ==
  /\ mempool \cap minted = {}
  /\ \A w \in Workers, n \in Nonces :
       <<w, n>> \in minted => \A k \in 0..(n - 1) : <<w, k>> \in minted

SysInv ==
  /\ SysTypeOK /\ IInv
  /\ PrepairOK /\ NodeOK
  /\ \A w \in Workers : WorkerOK(w)
  /\ \A w \in Workers, n \in Nonces : <<w, n>> \in Txs => CallOK(w, n)

-----------------------------------------------------------------------------
(* A transaction is a worker and a nonce below MaxNonce.                   *)
LEMMA TxsArePairs ==
  /\ MaxNonce \in Nat /\ Nonces \subseteq Nat
  /\ \A w, n : <<w, n>> \in Txs => w \in Workers /\ n \in Nonces /\ n < MaxNonce
  /\ \A t \in Txs : \E w \in Workers, n \in Nonces : t = <<w, n>>
  BY TransferAssumption DEF Nonces

(* Every step of the system is one of the monitor, or leaves it alone.     *)
LEMMA PoolPart ==
  ASSUME SysInv, [SysNext]_sysVars
  PROVE  [Next]_vars
  <1>1. ASSUME proc = "up", SysStep PROVE Next \/ UNCHANGED vars
    <2>1. CASE FetchNonces
      BY <2>1 DEF FetchNonces
    <2>2. CASE StartMonitor
      BY <1>1, <2>2 DEF StartMonitor, Next, Step
    <2>3. ASSUME NEW w \in Workers,
                 CreateWorker(w) \/ Sign(w) \/ Send(w) \/ DoWorkReturns(w) \/ MineNext(w)
          PROVE  Next \/ UNCHANGED vars
      <3>1. CASE CreateWorker(w) \/ Sign(w) \/ DoWorkReturns(w)
        BY <3>1 DEF CreateWorker, Sign, DoWorkReturns
      <3>2. CASE Send(w)
        <4>1. signedTx(w) \in Txs /\ CallStep(signedTx(w))
          BY <3>2 DEF Send, SysInv, WorkerOK
        <4> QED
          BY <1>1, <4>1 DEF Next, Step
      <3>3. CASE MineNext(w)
        <4>1. PICK n \in Nonces : <<w, n>> \in mempool /\ Mine({<<w, n>>})
          BY <3>3 DEF MineNext, NextToMine
        <4>2. {<<w, n>>} \in SUBSET Txs
          BY <4>1 DEF SysInv, IInv, TypeOK
        <4> QED
          BY <1>1, <4>1, <4>2 DEF Next, Step, NodeStep
      <3> QED
        BY <2>3, <3>1, <3>2, <3>3
    <2>4. CASE LoopStep \/ Fatal \/ \E t \in Txs : NodeAccepts(t)
      BY <1>1, <2>4 DEF Next, Step, NodeStep
    <2> QED
      BY <1>1, <2>1, <2>2, <2>3, <2>4 DEF SysStep
  <1> QED
    BY <1>1 DEF SysNext, SysStopped, sysVars

LEMMA SysInvInit == SysInit => SysInv
  <1> SUFFICES ASSUME SysInit PROVE SysInv
    OBVIOUS
  <1>1. IInv /\ TypeOK
    BY InitIInv DEF SysInit, IInv
  <1>2. SysTypeOK
    <2>1. 0 \in Nonces
      BY TransferAssumption DEF Nonces
    <2> QED
      BY <1>1, <2>1 DEF SysInit, SysTypeOK
  <1>3. PrepairOK /\ NodeOK
    BY DEF SysInit, Init, PrepairOK, NodeOK
  <1>4. ASSUME NEW w \in Workers PROVE WorkerOK(w)
    BY DEF SysInit, WorkerOK
  <1>5. ASSUME NEW w \in Workers, NEW n \in Nonces, <<w, n>> \in Txs PROVE CallOK(w, n)
    BY <1>5 DEF SysInit, Init, CallOK, Waiting, AtNode
  <1> QED
    BY <1>1, <1>2, <1>3, <1>4, <1>5 DEF SysInv

-----------------------------------------------------------------------------
(* What a step leaves alone of a worker and of its calls.                  *)
SameCall(w, n) ==
  /\ sendPc'[<<w, n>>] = sendPc[<<w, n>>]
  /\ <<w, n>> \in mempool' <=> <<w, n>> \in mempool
  /\ <<w, n>> \in minted' <=> <<w, n>> \in minted

SameWorker(w) ==
  /\ w \in created' <=> w \in created
  /\ w \in working' <=> w \in working
  /\ pendingNonce'[w] = pendingNonce[w] /\ nonce'[w] = nonce[w]

(* The parts of the invariant that are about what did not change.          *)
LEMMA SamePart ==
  ASSUME NEW w, SameWorker(w)
  PROVE  /\ WorkerOK(w) => WorkerOK(w)'
         /\ \A n : SameCall(w, n) /\ CallOK(w, n) => CallOK(w, n)'
  BY DEF SameWorker, SameCall, WorkerOK, CallOK, signedTx, Waiting, AtNode

(* A step of the event loop, and one that ends the process, changes        *)
(* nothing a call has to do with but its subscription.                     *)
LEMMA LoopChanges ==
  ASSUME LoopStep \/ Fatal \/ InitTxPool
  PROVE  UNCHANGED <<sendPc, mempool, minted>>
  BY DEF LoopStep, Fatal, InitTxPool, ReceiveHead, FetchBlockTxs, DispatchLock,
         DispatchUnlock, DispatchTx, callVars, nodeVars

(* A step of a call moves that call alone.                                 *)
LEMMA CallChanges ==
  ASSUME TypeOK, NEW t \in Txs, CallStep(t)
  PROVE  /\ UNCHANGED <<mempool, minted, started>>
         /\ sendPc' \in [Txs -> SendPcs]
         /\ \A u \in Txs : u # t => sendPc'[u] = sendPc[u]
         /\ \/ sendPc[t] = "idle" /\ sendPc'[t] = "subscribed"
            \/ sendPc[t] = "subscribed" /\ sendPc'[t] = "sent" /\ t \in AtNode
            \/ sendPc[t] = "subscribed" /\ sendPc'[t] = "error"
            \/ sendPc[t] = "sent" /\ sendPc'[t] = "nil" /\ t \in signalled \cup closedCh
            \/ sendPc[t] = "sent" /\ sendPc'[t] = "timeout"
            \/ sendPc[t] \in {"subscribed", "sent"} /\ sendPc'[t] = sendPc[t]
  BY DEF TypeOK, SendPcs, CallStep, Subscribe, SendReturnsNil, SendReturnsError, Confirmed,
         TimedOut, CtxExpires, SendGoTo, AtNode, nodeVars

LEMMA SysInvStep ==
  ASSUME SysInv, [SysNext]_sysVars
  PROVE  SysInv'
  <1>1. IInv' /\ TypeOK'
    BY PoolPart, NextIInv DEF SysInv, IInv
  <1> DEFINE Rest == /\ SysTypeOK' /\ PrepairOK' /\ NodeOK'
                     /\ \A w \in Workers : WorkerOK(w)'
                     /\ \A w \in Workers, n \in Nonces : <<w, n>> \in Txs => CallOK(w, n)'
  <1> SUFFICES Rest
    BY <1>1 DEF SysInv
  <1> HIDE DEF Rest
  <1> DEFINE Quiet == /\ UNCHANGED <<PendingNonces, created, working, pendingNonce, nonce>>
                      /\ UNCHANGED <<sendPc, mempool, minted>>
                      /\ fetched' \in BOOLEAN /\ (started' => fetched') /\ (started => started')
  <1>2. ASSUME Quiet PROVE Rest
    <2>1. \A w \in Workers : SameWorker(w) /\ \A n \in Nonces : SameCall(w, n)
      BY <1>2 DEF SameWorker, SameCall, testVars
    <2>2. SysTypeOK' /\ NodeOK' /\ PrepairOK'
      BY <1>1, <1>2 DEF SysInv, SysTypeOK, NodeOK, PrepairOK, testVars
    <2>3. \A w \in Workers : WorkerOK(w)'
      BY <2>1, SamePart DEF SysInv
    <2>4. \A w \in Workers, n \in Nonces : <<w, n>> \in Txs => CallOK(w, n)'
      BY <2>1, SamePart DEF SysInv
    <2> QED
      BY <2>2, <2>3, <2>4 DEF Rest
  <1> HIDE DEF Quiet
  <1>3. CASE FetchNonces
    <2>1. Quiet
      BY <1>3 DEF Quiet, FetchNonces, vars, callVars, nodeVars
    <2> QED
      BY <1>2, <2>1
  <1>4. CASE StartMonitor
    <2>1. Quiet
      BY <1>4, LoopChanges DEF Quiet, StartMonitor, InitTxPool, SysInv, SysTypeOK, testVars
    <2> QED
      BY <1>2, <2>1
  <1>5. ASSUME NEW w \in Workers, CreateWorker(w) PROVE Rest
    <2>1. /\ \A v \in Workers : v # w => SameWorker(v)
          /\ \A v \in Workers, n \in Nonces : SameCall(v, n)
      BY <1>5 DEF CreateWorker, SameWorker, SameCall, SysInv, SysTypeOK, vars, callVars, nodeVars
    <2>2. SysTypeOK' /\ NodeOK' /\ PrepairOK'
      BY <1>1, <1>5 DEF CreateWorker, SysInv, SysTypeOK, NodeOK, PrepairOK, vars, nodeVars
    <2>3. pendingNonce'[w] = pendingNonce[w] /\ pendingNonce'[w] = 0
      BY <1>5 DEF CreateWorker, SysInv, SysTypeOK, PrepairOK, WorkerOK
    <2>4. WorkerOK(w)' /\ \A n \in Nonces : <<w, n>> \in Txs => CallOK(w, n)'
      BY <1>5, <2>1, <2>3 DEF CreateWorker, SameCall, WorkerOK, CallOK, SysInv, SysTypeOK,
                              signedTx, Waiting, AtNode
    <2> QED
      BY <2>1, <2>2, <2>4, SamePart DEF SysInv, Rest
  <1>6. ASSUME NEW w \in Workers, Sign(w) PROVE Rest
    <2>1. /\ \A v \in Workers : v # w => SameWorker(v)
          /\ \A v \in Workers, n \in Nonces : SameCall(v, n)
      BY <1>6 DEF Sign, SameWorker, SameCall, SysInv, SysTypeOK, vars, callVars, nodeVars
    <2>2. /\ w \in working' /\ w \notin working /\ nonce'[w] = pendingNonce[w]
          /\ pendingNonce'[w] = pendingNonce[w] + 1
          /\ <<w, pendingNonce[w]>> \in Txs /\ created' = created
          /\ pendingNonce[w] \in Nat /\ pendingNonce[w] + 1 \in Nonces
      BY <1>6, TxsArePairs DEF Sign, SysInv, SysTypeOK, Nonces
    <2>3. SysTypeOK'
      BY <1>1, <1>6, <2>2 DEF Sign, SysInv, SysTypeOK
    <2>4. NodeOK' /\ PrepairOK'
      BY <1>6 DEF Sign, SysInv, NodeOK, PrepairOK, vars, nodeVars
    <2>5. WorkerOK(w)'
      BY <1>6, <2>2 DEF Sign, WorkerOK, signedTx
    <2>6. ASSUME NEW n \in Nonces, <<w, n>> \in Txs PROVE CallOK(w, n)'
      BY <2>1, <2>2, <2>6, TxsArePairs DEF CallOK, SameCall, SysInv, Waiting, AtNode
    <2> QED
      BY <2>1, <2>3, <2>4, <2>5, <2>6, SamePart DEF SysInv, Rest
  <1>7. ASSUME NEW w \in Workers, Send(w) PROVE Rest
    <2> DEFINE t == <<w, nonce[w]>>
    <2>1. w \in working /\ t \in Txs /\ CallStep(t) /\ UNCHANGED testVars
      BY <1>7 DEF Send, SysInv, WorkerOK, signedTx
    <2>2. /\ UNCHANGED <<mempool, minted, started>>
          /\ \A u \in Txs : u # t => sendPc'[u] = sendPc[u]
          /\ \/ sendPc[t] = "idle" /\ sendPc'[t] = "subscribed"
             \/ sendPc[t] = "subscribed" /\ sendPc'[t] = "sent" /\ t \in AtNode
             \/ sendPc[t] = "subscribed" /\ sendPc'[t] = "error"
             \/ sendPc[t] = "sent" /\ sendPc'[t] \in {"nil", "timeout"}
             \/ sendPc[t] \in {"subscribed", "sent"} /\ sendPc'[t] = sendPc[t]
      BY <2>1, CallChanges DEF SysInv, IInv
    <2> HIDE DEF t
    <2>3. \A v \in Workers : SameWorker(v)
      BY <2>1 DEF SameWorker, testVars
    <2>4. SysTypeOK' /\ NodeOK' /\ PrepairOK'
      BY <1>1, <2>1, <2>2 DEF SysInv, SysTypeOK, NodeOK, PrepairOK, testVars
    <2>5. ASSUME NEW v \in Workers, NEW n \in Nonces, <<v, n>> \in Txs, <<v, n>> # t
          PROVE  CallOK(v, n)'
      BY <2>2, <2>3, <2>5, SamePart DEF SysInv, SameCall
    <2>6. ASSUME NEW v \in Workers, NEW n \in Nonces, <<v, n>> \in Txs, <<v, n>> = t
          PROVE  CallOK(v, n)'
      <3>1. v = w /\ n = nonce[w] /\ pendingNonce[w] = n + 1
        BY <2>1, <2>6 DEF t, SysInv, WorkerOK
      <3>2. CallOK(v, n)
        BY <2>6 DEF SysInv
      <3>3. UNCHANGED <<pendingNonce, nonce, working>>
        BY <2>1 DEF testVars
      <3>4. n \in Nat
        BY TxsArePairs
      <3> QED
        BY <2>1, <2>2, <2>6, <3>1, <3>2, <3>3, <3>4 DEF CallOK, Waiting, AtNode
    <2> QED
      BY <2>3, <2>4, <2>5, <2>6, SamePart DEF SysInv, Rest
  <1>8. ASSUME NEW w \in Workers, DoWorkReturns(w) PROVE Rest
    <2>1. /\ \A v \in Workers : v # w => SameWorker(v)
          /\ \A v \in Workers, n \in Nonces : SameCall(v, n)
      BY <1>8 DEF DoWorkReturns, SameWorker, SameCall, vars, callVars, nodeVars
    <2>2. SysTypeOK' /\ NodeOK' /\ PrepairOK'
      BY <1>1, <1>8 DEF DoWorkReturns, SysInv, SysTypeOK, NodeOK, PrepairOK, vars, nodeVars
    <2>3. WorkerOK(w)'
      BY <1>8 DEF DoWorkReturns, SysInv, WorkerOK
    <2>4. ASSUME NEW n \in Nonces, <<w, n>> \in Txs PROVE CallOK(w, n)'
      BY <1>8, <2>1, <2>4 DEF DoWorkReturns, CallOK, SameCall, SysInv, Waiting, AtNode,
                              CallEnded, signedTx
    <2> QED
      BY <2>1, <2>2, <2>3, <2>4, SamePart DEF SysInv, Rest
  <1>9. ASSUME NEW w \in Workers, MineNext(w) PROVE Rest
    <2>1. PICK n \in Nonces : /\ \A k \in 0..(n - 1) : <<w, k>> \in minted
                              /\ <<w, n>> \in mempool
                              /\ Mine({<<w, n>>})
      BY <1>9 DEF MineNext, NextToMine
    <2>2. /\ mempool' = mempool \ {<<w, n>>} /\ minted' = minted \cup {<<w, n>>}
          /\ sendPc' = sendPc /\ started' = started /\ UNCHANGED testVars
      BY <1>9, <2>1 DEF MineNext, Mine, callVars
    <2>3. AtNode' = AtNode
      BY <2>1, <2>2 DEF AtNode
    <2>4. SysTypeOK' /\ PrepairOK'
      BY <1>1, <2>2 DEF SysInv, SysTypeOK, PrepairOK, testVars
    <2>5. NodeOK'
      BY <2>1, <2>2 DEF SysInv, NodeOK
    <2>6. \A v \in Workers : WorkerOK(v)'
      BY <2>2 DEF SysInv, WorkerOK, signedTx, testVars
    <2>7. ASSUME NEW v \in Workers, NEW m \in Nonces, <<v, m>> \in Txs PROVE CallOK(v, m)'
      BY <2>2, <2>3, <2>7 DEF SysInv, CallOK, Waiting, testVars
    <2> QED
      BY <2>4, <2>5, <2>6, <2>7 DEF Rest
  <1>10. ASSUME NEW t \in Txs, NodeAccepts(t), UNCHANGED testVars PROVE Rest
    <2>1. /\ sendPc[t] \in {"subscribed", "error"} /\ t \notin minted
          /\ mempool' = mempool \cup {t}
          /\ UNCHANGED <<sendPc, minted, started>>
      BY <1>10 DEF NodeAccepts, callVars
    <2>2. \A v \in Workers : SameWorker(v)
      BY <1>10 DEF SameWorker, testVars
    <2>3. SysTypeOK' /\ NodeOK' /\ PrepairOK'
      BY <1>1, <1>10, <2>1 DEF SysInv, SysTypeOK, NodeOK, PrepairOK, testVars
    <2>4. ASSUME NEW v \in Workers, NEW n \in Nonces, <<v, n>> \in Txs PROVE CallOK(v, n)'
      BY <1>10, <2>1, <2>4 DEF SysInv, CallOK, Waiting, AtNode, testVars
    <2> QED
      BY <2>2, <2>3, <2>4, SamePart DEF SysInv, Rest
  <1>11. CASE (LoopStep \/ Fatal) /\ UNCHANGED testVars
    <2>1. started' = started
      BY <1>11 DEF LoopStep, Fatal, ReceiveHead, FetchBlockTxs, DispatchLock,
                   DispatchUnlock, DispatchTx
    <2>2. Quiet
      BY <1>11, <2>1, LoopChanges DEF Quiet, SysInv, SysTypeOK, PrepairOK, testVars
    <2> QED
      BY <1>2, <2>2
  <1>12. CASE UNCHANGED sysVars
    <2>1. Quiet
      BY <1>12 DEF Quiet, SysInv, SysTypeOK, PrepairOK, sysVars, testVars, vars, callVars,
                   nodeVars
    <2> QED
      BY <1>2, <2>1
  <1> QED
    BY <1>3, <1>4, <1>5, <1>6, <1>7, <1>8, <1>9, <1>10, <1>11, <1>12
    DEF SysNext, SysStopped, SysStep

LEMMA SysInvariantHolds == SysSpec => []SysInv
  BY SysInvInit, SysInvStep, PTL DEF SysSpec

(* Every variable of the wallet, the workers, the monitor and the node     *)
(* keeps its type; only a worker that was created works.                   *)
THEOREM SysTypeCorrect == SysSpec => []SysTypeOK
  <1>1. SysInv => SysTypeOK
    BY DEF SysInv
  <1> QED
    BY <1>1, SysInvariantHolds, PTL

(* Every step of the system is one of the monitor: what was shown of it    *)
(* holds of the program in which workers send, too.                        *)
THEOREM SystemImplementsPool == SysSpec => Spec
  <1>1. SysInit => Init
    BY DEF SysInit
  <1>2. SysInv /\ [SysNext]_sysVars => [Next]_vars
    BY PoolPart
  <1> QED
    BY <1>1, <1>2, SysInvariantHolds, PTL DEF SysSpec, Spec

-----------------------------------------------------------------------------
(* What TransferEth sees of a worker and of its account stays the same.    *)
SameView(w) ==
  /\ WorkerPc(w)' = WorkerPc(w)
  /\ Unanswered(w)' = Unanswered(w) /\ Succeeded(w)' = Succeeded(w)
  /\ Mined(w)' = Mined(w) /\ Held(w)' = Held(w)

(* It depends on the worker and on its own calls only.                     *)
LEMMA ViewIsLocal ==
  ASSUME NEW w \in Workers, w \in created' <=> w \in created,
         w \in working' <=> w \in working, nonce'[w] = nonce[w],
         nonce[w] \in Nonces,
         \A n \in Nonces : SameCall(w, n)
  PROVE  SameView(w)
  <1>1. /\ NoncesOf(w, mempool)' = NoncesOf(w, mempool)
        /\ NoncesOf(w, minted)' = NoncesOf(w, minted)
        /\ \A pc : NoncesOf(w, CallsAt(pc))' = NoncesOf(w, CallsAt(pc))
        /\ \A pc : NoncesOf(w, CallsAt(pc) \ AtNode)' = NoncesOf(w, CallsAt(pc) \ AtNode)
    BY DEF NoncesOf, CallsAt, SameCall, AtNode
  <1>2. WorkerPc(w)' = WorkerPc(w)
    BY DEF WorkerPc, CallEnded, signedTx, SameCall, AtNode
  <1> QED
    BY <1>1, <1>2 DEF SameView, Unanswered, Succeeded, Mined, Held

(* A finite set of numbers without a gap is the numbers below its size: it *)
(* is contained in them, and as large.                                     *)
LEMMA NoGaps ==
  ASSUME NEW M \in SUBSET Nat, IsFiniteSet(M),
         \A n \in M : \A k \in 0..(n - 1) : k \in M
  PROVE  M = 0..(Cardinality(M) - 1)
  <1>1. Cardinality(M) \in Nat
    BY FS_CardinalityType
  <1> DEFINE c == Cardinality(M)
  <1>2. ASSUME NEW n \in M PROVE n < c
    <2>1. 0..n \in SUBSET M
      OBVIOUS
    <2>2. Cardinality(0..n) <= c
      BY <2>1, FS_Subset
    <2>3. Cardinality(0..n) = n + 1
      BY FS_Interval
    <2> QED
      BY <1>1, <2>2, <2>3
  <1>3. IsFiniteSet(0..(c - 1)) /\ Cardinality(0..(c - 1)) = c
    <2>1. c - 1 \in Int /\ 0 \in Int /\ (IF 0 > c - 1 THEN 0 ELSE (c - 1) - 0 + 1) = c
      BY <1>1
    <2> HIDE DEF c
    <2> QED
      BY <2>1, FS_Interval
  <1>4. M \in SUBSET (0..(c - 1))
    BY <1>1, <1>2
  <1> QED
    BY <1>3, <1>4, FS_Subset

(* The nonces of an account that are mined are those below their number.   *)
LEMMA MinedBelow ==
  ASSUME SysInv, NEW w \in Workers
  PROVE  /\ Mined(w) \in Nonces
         /\ \A n \in Nonces : <<w, n>> \in minted <=> n < Mined(w)
  <1> DEFINE M == NoncesOf(w, minted)
  <1>0. MaxNonce \in Nat
    BY TransferAssumption
  <1>1. /\ M \in SUBSET (0..(MaxNonce - 1))
        /\ \A n \in M : \A k \in 0..(n - 1) : k \in M
    BY <1>0, TxsArePairs DEF SysInv, IInv, TypeOK, NodeOK, NoncesOf, Nonces
  <1>2. \A n \in Nonces : <<w, n>> \in minted <=> n \in M
    BY DEF NoncesOf
  <1>3. Mined(w) = Cardinality(M)
    BY DEF Mined
  <1> HIDE DEF M
  <1>4. IsFiniteSet(M) /\ Cardinality(M) <= MaxNonce /\ Cardinality(M) \in Nat
    <2>1. /\ IsFiniteSet(0..(MaxNonce - 1))
          /\ Cardinality(0..(MaxNonce - 1)) = MaxNonce
      BY <1>0, FS_Interval
    <2>2. IsFiniteSet(M) /\ Cardinality(M) <= MaxNonce
      BY <1>1, <2>1, FS_Subset
    <2> QED
      BY <2>2, FS_CardinalityType
  <1>5. M = 0..(Cardinality(M) - 1)
    BY <1>0, <1>1, <1>4, NoGaps
  <1> QED
    BY <1>0, <1>2, <1>3, <1>4, <1>5 DEF Nonces

(* The node of TransferEth has of an account what this one has.            *)
LEMMA SameAtNode ==
  ASSUME SysInv, NEW w \in Workers, NEW n \in Nonces
  PROVE  <<w, n>> \in AtNode <=> n < Mined(w) \/ n \in Held(w)
  BY MinedBelow DEF AtNode, Held, NoncesOf

(* A mined nonce was the first one not mined.                              *)
LEMMA MineCounts ==
  ASSUME SysInv, NEW w \in Workers, NEW n \in Nonces, <<w, n>> \in mempool,
         \A k \in 0..(n - 1) : <<w, k>> \in minted,
         minted' = minted \cup {<<w, n>>}
  PROVE  /\ n = Mined(w) /\ n < MaxNonce
         /\ Mined(w)' = Mined(w) + 1
  <1>1. <<w, n>> \notin minted /\ n \in Nat /\ n < MaxNonce /\ MaxNonce \in Nat
    BY TxsArePairs DEF SysInv, IInv, TypeOK, NodeOK
  <1>2. n = Mined(w)
    <2>1. Mined(w) \in Nat /\ ~(n < Mined(w))
      BY <1>1, MinedBelow, TxsArePairs
    <2>2. ASSUME Mined(w) < n PROVE FALSE
      <3>1. Mined(w) \in 0..(n - 1)
        BY <1>1, <2>1, <2>2
      <3>2. Mined(w) \in Nonces /\ <<w, Mined(w)>> \in minted
        BY <3>1, MinedBelow
      <3>3. Mined(w) < Mined(w)
        BY <3>2, MinedBelow
      <3> QED
        BY <2>1, <3>3
    <2> QED
      BY <1>1, <2>1, <2>2
  <1> DEFINE M == NoncesOf(w, minted)
  <1>3. NoncesOf(w, minted)' = M \cup {n} /\ n \notin M
    BY <1>1 DEF NoncesOf
  <1>4. IsFiniteSet(M)
    <2>1. M \in SUBSET (0..MaxNonce)
      BY DEF NoncesOf, Nonces
    <2>2. IsFiniteSet(0..MaxNonce)
      BY <1>1, FS_Interval
    <2> QED
      BY <2>1, <2>2, FS_Subset
  <1>5. Mined(w)' = Cardinality(M) + 1
    <2> HIDE DEF M
    <2> QED
      BY <1>3, <1>4, FS_AddElement DEF Mined
  <1> QED
    BY <1>1, <1>2, <1>5 DEF Mined

-----------------------------------------------------------------------------
(* A step of which TransferEth sees nothing, ...                           *)
LEMMA Stutter ==
  ASSUME UNCHANGED <<fetched, PendingNonces, pendingNonce, nonce>>,
         \A w \in Workers : SameView(w)
  PROVE  UNCHANGED Transfers!vars
  BY DEF SameView, Transfers!vars, Transfers!walletVars, Transfers!workerVars,
         Transfers!callVars, Transfers!nodeVars

(* ... which is one that touches neither the workers nor the calls.        *)
LEMMA QuietStep ==
  ASSUME SysInv, UNCHANGED testVars, UNCHANGED <<sendPc, mempool, minted>>
  PROVE  UNCHANGED Transfers!vars
  <1>1. ASSUME NEW w \in Workers PROVE SameView(w)
    <2>1. \A n \in Nonces : SameCall(w, n)
      BY DEF SameCall
    <2> QED
      BY <2>1, ViewIsLocal DEF testVars, SysInv, SysTypeOK
  <1> QED
    BY <1>1, Stutter DEF testVars

LEMMA FetchNoncesMaps ==
  ASSUME SysInv, FetchNonces
  PROVE  Transfers!FetchNonces
  <1>1. ASSUME NEW w \in Workers PROVE SameView(w)
    <2>1. \A n \in Nonces : SameCall(w, n)
      BY DEF SameCall, FetchNonces, vars, callVars, nodeVars
    <2> QED
      BY <2>1, ViewIsLocal DEF FetchNonces, SysInv, SysTypeOK
  <1>2. ~fetched /\ fetched' = TRUE /\ UNCHANGED <<pendingNonce, nonce>>
    BY DEF FetchNonces
  <1>3. /\ PendingNonces' \in [Workers -> Transfers!Nonces]
        /\ \A w \in Workers : PendingNonces'[w] = 0
    BY DEF FetchNonces, SysInv, SysTypeOK, PrepairOK, Nonces, Transfers!Nonces
  <1> QED
    BY <1>1, <1>2, <1>3
    DEF SameView, Transfers!FetchNonces, Transfers!workerVars, Transfers!callVars,
        Transfers!nodeVars

LEMMA CreateWorkerMaps ==
  ASSUME SysInv, NEW w \in Workers, CreateWorker(w)
  PROVE  Transfers!CreateWorker(w)
  <1>1. \A v \in Workers, n \in Nonces : SameCall(v, n)
    BY DEF SameCall, CreateWorker, vars, callVars, nodeVars
  <1>2. ASSUME NEW v \in Workers, v # w PROVE SameView(v)
    BY <1>1, <1>2, ViewIsLocal DEF CreateWorker, SysInv, SysTypeOK
  <1>3. /\ WorkerPc(w) = "none" /\ WorkerPc(w)' = "idle"
        /\ UNCHANGED <<Unanswered(w), Succeeded(w), Mined(w), Held(w)>>
    BY DEF CreateWorker, SysInv, SysTypeOK, WorkerPc, Unanswered, Succeeded, Mined, Held,
           NoncesOf, CallsAt, AtNode, vars, callVars, nodeVars
  <1> QED
    BY <1>2, <1>3
    DEF CreateWorker, SysInv, PrepairOK, SameView, Transfers!CreateWorker, Transfers!WorkerGoTo,
        Transfers!walletVars, Transfers!callVars, Transfers!nodeVars

LEMMA SignMaps ==
  ASSUME SysInv, NEW w \in Workers, Sign(w)
  PROVE  Transfers!Sign(w)
  <1>1. \A v \in Workers, n \in Nonces : SameCall(v, n)
    BY DEF SameCall, Sign, vars, callVars, nodeVars
  <1>2. ASSUME NEW v \in Workers, v # w PROVE SameView(v)
    BY <1>1, <1>2, ViewIsLocal DEF Sign, SysInv, SysTypeOK
  <1>3. /\ pendingNonce[w] < MaxNonce /\ pendingNonce[w] \in Nonces
        /\ pendingNonce[w] <= pendingNonce[w]
    BY TxsArePairs DEF Sign, Nonces
  <1>4. sendPc[<<w, pendingNonce[w]>>] = "idle" /\ <<w, pendingNonce[w]>> \notin AtNode
    BY <1>3 DEF Sign, SysInv, CallOK
  <1>5. UNCHANGED <<sendPc, mempool, minted>>
    BY DEF Sign, vars, callVars, nodeVars
  <1>6. WorkerPc(w) = "idle"
    BY DEF Sign, WorkerPc
  <1>7. WorkerPc(w)' = "sending"
    <2>1. /\ w \in created' /\ w \in working' /\ nonce'[w] = pendingNonce[w]
      BY DEF Sign, SysInv, SysTypeOK
    <2> QED
      BY <1>4, <1>5, <2>1 DEF WorkerPc, CallEnded, signedTx, AtNode
  <1>8. UNCHANGED <<Unanswered(w), Succeeded(w), Mined(w), Held(w)>>
    BY <1>5 DEF Unanswered, Succeeded, Mined, Held, NoncesOf, CallsAt, AtNode
  <1> QED
    BY <1>2, <1>3, <1>6, <1>7, <1>8
    DEF Sign, SameView, Transfers!Sign, Transfers!WorkerGoTo,
        Transfers!walletVars, Transfers!callVars, Transfers!nodeVars

(* A call that goes on without the node getting its transaction, and one   *)
(* that the node has answered, are as before.  A failed send is, if its    *)
(* transaction is with the node, the end of a wait.                        *)
LEMMA SendMaps ==
  ASSUME SysInv, NEW w \in Workers, Send(w)
  PROVE  \/ Transfers!SendFails(w) \/ Transfers!Confirmed(w) \/ Transfers!TimedOut(w)
         \/ UNCHANGED Transfers!vars
  <1> DEFINE n == nonce[w]
             t == <<w, n>>
  <1>1. /\ w \in working /\ w \in created /\ t \in Txs /\ n \in Nonces
        /\ signedTx(w) = t /\ CallStep(t) /\ UNCHANGED testVars
    BY DEF Send, SysInv, SysTypeOK, WorkerOK, signedTx
  <1>2. /\ UNCHANGED <<mempool, minted>> /\ UNCHANGED AtNode
        /\ \A u \in Txs : u # t => sendPc'[u] = sendPc[u]
        /\ \/ sendPc[t] = "idle" /\ sendPc'[t] = "subscribed"
           \/ sendPc[t] = "subscribed" /\ sendPc'[t] = "sent" /\ t \in AtNode
           \/ sendPc[t] = "subscribed" /\ sendPc'[t] = "error"
           \/ sendPc[t] = "sent" /\ sendPc'[t] = "nil" /\ t \in signalled \cup closedCh
           \/ sendPc[t] = "sent" /\ sendPc'[t] = "timeout"
           \/ sendPc[t] \in {"subscribed", "sent"} /\ sendPc'[t] = sendPc[t]
    BY <1>1, CallChanges DEF SysInv, IInv, AtNode
  <1>3. signedTx(w)' = t
    BY <1>1 DEF signedTx, testVars
  <1>4. sendPc[t] = "sent" => t \in AtNode
    BY <1>1 DEF SysInv, CallOK
  <1> HIDE DEF t
  <1>5. ASSUME NEW v \in Workers, v # w PROVE SameView(v)
    <2>1. \A m \in Nonces : <<v, m>> \in Txs => SameCall(v, m)
      BY <1>2, <1>5 DEF t, SameCall
    <2>2. \A pc : CallsAt(pc)' \ {t} = CallsAt(pc) \ {t}
      BY <1>2 DEF CallsAt
    <2>3. \A m : <<v, m>> # t
      BY <1>5 DEF t
    <2>4. /\ Unanswered(v)' = Unanswered(v) /\ Succeeded(v)' = Succeeded(v)
          /\ Mined(v)' = Mined(v) /\ Held(v)' = Held(v)
      BY <1>2, <2>2, <2>3 DEF Unanswered, Succeeded, Mined, Held, NoncesOf
    <2>5. v \in working => signedTx(v) \in Txs /\ signedTx(v) # t /\ signedTx(v)' = signedTx(v)
      BY <1>1, <2>3 DEF SysInv, WorkerOK, signedTx, testVars
    <2>6. WorkerPc(v)' = WorkerPc(v)
      BY <1>1, <1>2, <2>5 DEF WorkerPc, CallEnded, testVars
    <2> QED
      BY <2>4, <2>6 DEF SameView
  <1>6. Mined(w)' = Mined(w) /\ Held(w)' = Held(w)
    BY <1>2 DEF Mined, Held
  <1>7. UNCHANGED <<fetched, PendingNonces, pendingNonce, nonce>>
    BY <1>1 DEF testVars
  <1> USE DEF Transfers!WorkerGoTo, Transfers!walletVars, Transfers!callVars, Transfers!nodeVars
  <1>8. CASE sendPc[t] = "subscribed" /\ sendPc'[t] = "error"
    <2>1. WorkerPc(w) = (IF t \in AtNode THEN "waiting" ELSE "sending") /\ WorkerPc(w)' = "idle"
      BY <1>1, <1>3, <1>8 DEF WorkerPc, CallEnded, testVars
    <2>2. /\ CallsAt("error")' = CallsAt("error") \cup {t}
          /\ CallsAt("nil")' = CallsAt("nil")
      BY <1>1, <1>2, <1>8 DEF CallsAt
    <2>3. Succeeded(w)' = Succeeded(w)
      BY <2>2 DEF Succeeded
    <2>4. Unanswered(w)' = Unanswered(w) \cup (IF t \in AtNode THEN {} ELSE {n})
      BY <1>1, <1>2, <2>2 DEF Unanswered, NoncesOf, t
    <2>5. CASE t \in AtNode
      <3>1. Transfers!TimedOut(w)
        BY <1>5, <1>6, <1>7, <2>1, <2>3, <2>4, <2>5 DEF SameView, Transfers!TimedOut
      <3> QED
        BY <3>1
    <2>6. CASE t \notin AtNode
      <3>1. n \notin Transfers!AtNode(w)
        BY <1>1, <2>6, SameAtNode DEF t, Transfers!AtNode
      <3>2. Transfers!SendFails(w)
        BY <1>5, <1>6, <1>7, <2>1, <2>3, <2>4, <2>6, <3>1 DEF SameView, Transfers!SendFails
      <3> QED
        BY <3>2
    <2> QED
      BY <2>5, <2>6
  <1>9. CASE sendPc[t] = "sent" /\ sendPc'[t] = "nil" /\ t \in signalled \cup closedCh
    <2>1. WorkerPc(w) = "waiting" /\ WorkerPc(w)' = "idle"
      BY <1>1, <1>3, <1>4, <1>9 DEF WorkerPc, CallEnded, testVars
    <2>2. /\ CallsAt("error")' = CallsAt("error")
          /\ CallsAt("nil")' = CallsAt("nil") \cup {t}
      BY <1>1, <1>2, <1>9 DEF CallsAt
    <2>3. Unanswered(w)' = Unanswered(w) /\ Succeeded(w)' = Succeeded(w) \cup {n}
      BY <1>1, <1>2, <2>2 DEF Unanswered, Succeeded, NoncesOf, t
    <2>4. n < Mined(w)
      <3>1. t \in minted
        BY <1>9 DEF SysInv, IInv, MapOK, ChainOK
      <3> QED
        BY <1>1, <3>1, MinedBelow DEF t
    <2>5. Transfers!Confirmed(w)
      BY <1>5, <1>6, <1>7, <2>1, <2>3, <2>4 DEF SameView, Transfers!Confirmed
    <2> QED
      BY <2>5
  <1>10. CASE sendPc[t] = "sent" /\ sendPc'[t] = "timeout"
    <2>1. WorkerPc(w) = "waiting" /\ WorkerPc(w)' = "idle"
      BY <1>1, <1>3, <1>4, <1>10 DEF WorkerPc, CallEnded, testVars
    <2>2. CallsAt("error")' = CallsAt("error") /\ CallsAt("nil")' = CallsAt("nil")
      BY <1>1, <1>2, <1>10 DEF CallsAt
    <2>3. Unanswered(w)' = Unanswered(w) /\ Succeeded(w)' = Succeeded(w)
      BY <1>2, <2>2 DEF Unanswered, Succeeded
    <2>4. Transfers!TimedOut(w)
      BY <1>5, <1>6, <1>7, <2>1, <2>3 DEF SameView, Transfers!TimedOut
    <2> QED
      BY <2>4
  <1>11. CASE \/ sendPc[t] = "idle" /\ sendPc'[t] = "subscribed"
              \/ sendPc[t] = "subscribed" /\ sendPc'[t] = "sent" /\ t \in AtNode
              \/ sendPc[t] \in {"subscribed", "sent"} /\ sendPc'[t] = sendPc[t]
    <2>1. WorkerPc(w)' = WorkerPc(w)
      BY <1>1, <1>2, <1>3, <1>11 DEF WorkerPc, CallEnded, testVars
    <2>2. CallsAt("error")' = CallsAt("error") /\ CallsAt("nil")' = CallsAt("nil")
      BY <1>1, <1>2, <1>11 DEF CallsAt
    <2>3. SameView(w)
      BY <1>2, <1>6, <2>1, <2>2 DEF SameView, Unanswered, Succeeded
    <2> QED
      BY <1>5, <1>7, <2>3, Stutter
  <1> QED
    BY <1>2, <1>8, <1>9, <1>10, <1>11

LEMMA DoWorkReturnsMaps ==
  ASSUME SysInv, NEW w \in Workers, DoWorkReturns(w)
  PROVE  UNCHANGED Transfers!vars
  <1>1. \A v \in Workers, n \in Nonces : SameCall(v, n)
    BY DEF SameCall, DoWorkReturns, vars, callVars, nodeVars
  <1>2. ASSUME NEW v \in Workers, v # w PROVE SameView(v)
    BY <1>1, <1>2, ViewIsLocal DEF DoWorkReturns, SysInv, SysTypeOK
  <1>3. WorkerPc(w)' = WorkerPc(w)
    BY DEF DoWorkReturns, SysInv, SysTypeOK, WorkerPc
  <1>4. UNCHANGED <<Unanswered(w), Succeeded(w), Mined(w), Held(w)>>
    BY DEF DoWorkReturns, Unanswered, Succeeded, Mined, Held, NoncesOf, CallsAt, AtNode,
           vars, callVars, nodeVars
  <1> QED
    BY <1>2, <1>3, <1>4, Stutter DEF SameView, DoWorkReturns

(* The node mines the nonce that TransferEth counts next.                  *)
LEMMA MineNextMaps ==
  ASSUME SysInv, NEW w \in Workers, MineNext(w)
  PROVE  Transfers!Mine(w)
  <1>1. PICK n \in Nonces : /\ \A k \in 0..(n - 1) : <<w, k>> \in minted
                            /\ <<w, n>> \in mempool
                            /\ Mine({<<w, n>>})
    BY DEF MineNext, NextToMine
  <1> DEFINE t == <<w, n>>
  <1>2. /\ mempool' = mempool \ {t} /\ minted' = minted \cup {t}
        /\ UNCHANGED sendPc /\ UNCHANGED testVars /\ UNCHANGED AtNode
    BY <1>1 DEF MineNext, Mine, callVars, AtNode
  <1>3. n = Mined(w) /\ n < MaxNonce /\ Mined(w)' = Mined(w) + 1
    BY <1>1, <1>2, MineCounts
  <1>4. n \in Held(w) /\ Held(w)' = Held(w) \ {n}
    BY <1>1, <1>2 DEF Held, NoncesOf
  <1>5. \A v \in Workers : v # w => Mined(v)' = Mined(v) /\ Held(v)' = Held(v)
    <2>1. ASSUME NEW v \in Workers, v # w
          PROVE  /\ NoncesOf(v, minted)' = NoncesOf(v, minted)
                 /\ NoncesOf(v, mempool)' = NoncesOf(v, mempool)
      BY <1>2, <2>1 DEF NoncesOf
    <2> QED
      BY <2>1 DEF Mined, Held
  <1>6. \A v \in Workers : /\ WorkerPc(v)' = WorkerPc(v)
                           /\ Unanswered(v)' = Unanswered(v) /\ Succeeded(v)' = Succeeded(v)
    BY <1>2 DEF WorkerPc, CallEnded, signedTx, CallsAt, Unanswered, Succeeded, testVars
  <1> HIDE DEF t
  <1> QED
    BY <1>2, <1>3, <1>4, <1>5, <1>6
    DEF Transfers!Mine, Transfers!walletVars, Transfers!workerVars, Transfers!callVars, testVars

(* The node gets the transaction of a call: of the one in progress, or     *)
(* late, of one that has failed.                                           *)
LEMMA NodeAcceptsMaps ==
  ASSUME SysInv, NEW t \in Txs, NodeAccepts(t), UNCHANGED testVars
  PROVE  \E w \in Workers :
           Transfers!SendAccepted(w) \/ \E n \in Nonces : Transfers!Arrive(w, n)
  <1>1. PICK w \in Workers, n \in Nonces : t = <<w, n>>
    BY TxsArePairs
  <1>2. /\ sendPc[t] \in {"subscribed", "error"} /\ t \notin AtNode
        /\ mempool' = mempool \cup {t} /\ UNCHANGED <<sendPc, minted>>
        /\ AtNode' = AtNode \cup {t}
    BY DEF NodeAccepts, callVars, AtNode
  <1>3. n \notin Transfers!AtNode(w)
    BY <1>1, <1>2, SameAtNode DEF Transfers!AtNode
  <1>4. CallOK(w, n)
    BY <1>1 DEF SysInv
  <1>5. Held(w)' = Held(w) \cup {n}
    BY <1>1, <1>2 DEF Held, NoncesOf
  <1>6. \A v \in Workers : Mined(v)' = Mined(v) /\ Succeeded(v)' = Succeeded(v)
    BY <1>2 DEF Mined, Succeeded, CallsAt
  <1>7. \A u : u # t => (u \in AtNode' <=> u \in AtNode)
    BY <1>2
  <1>8. ASSUME NEW v \in Workers, v # w
        PROVE  /\ WorkerPc(v)' = WorkerPc(v) /\ Unanswered(v)' = Unanswered(v)
               /\ Held(v)' = Held(v)
    <2>1. \A m : <<v, m>> # t
      BY <1>1, <1>8
    <2>2. WorkerPc(v)' = WorkerPc(v)
      BY <1>2, <1>7, <2>1 DEF WorkerPc, CallEnded, signedTx, testVars
    <2>3. Unanswered(v)' = Unanswered(v) /\ Held(v)' = Held(v)
      BY <1>2, <1>7, <2>1 DEF Unanswered, Held, CallsAt, NoncesOf
    <2> QED
      BY <2>2, <2>3
  <1> USE DEF Transfers!WorkerGoTo, Transfers!walletVars, Transfers!workerVars,
              Transfers!callVars, Transfers!nodeVars, testVars
  <1>9. CASE sendPc[t] = "subscribed"
    <2>1. w \in working /\ w \in created /\ nonce[w] = n
      BY <1>1, <1>4, <1>9 DEF CallOK, Waiting, SysInv, SysTypeOK
    <2>2. WorkerPc(w) = "sending" /\ WorkerPc(w)' = "waiting"
      BY <1>1, <1>2, <1>9, <2>1 DEF WorkerPc, CallEnded, signedTx
    <2>3. Unanswered(w)' = Unanswered(w)
      BY <1>2, <1>7, <1>9 DEF Unanswered, NoncesOf, CallsAt
    <2>4. Transfers!SendAccepted(w)
      BY <1>3, <1>5, <1>6, <1>8, <2>1, <2>2, <2>3 DEF Transfers!SendAccepted
    <2> QED
      BY <2>4
  <1>10. CASE sendPc[t] = "error"
    <2>1. WorkerPc(w)' = WorkerPc(w)
      BY <1>1, <1>2, <1>7, <1>10 DEF WorkerPc, CallEnded, signedTx
    <2>2. n \in Unanswered(w) /\ Unanswered(w)' = Unanswered(w) \ {n}
      BY <1>1, <1>2, <1>10 DEF Unanswered, NoncesOf, CallsAt
    <2>3. Transfers!Arrive(w, n)
      BY <1>3, <1>5, <1>6, <1>8, <2>1, <2>2 DEF Transfers!Arrive
    <2> QED
      BY <2>3
  <1> QED
    BY <1>2, <1>9, <1>10

LEMMA TransfersInit == SysInit => Transfers!Init
  <1> SUFFICES ASSUME SysInit PROVE Transfers!Init
    OBVIOUS
  <1>1. \A w, T : NoncesOf(w, {}) = {}
    BY DEF NoncesOf
  <1>2. CallsAt("error") = {} /\ CallsAt("nil") = {} /\ mempool = {} /\ minted = {}
    BY DEF SysInit, Init, CallsAt
  <1>3. ASSUME NEW w \in Workers
        PROVE  /\ WorkerPc(w) = "none" /\ Unanswered(w) = {} /\ Succeeded(w) = {}
               /\ Mined(w) = 0 /\ Held(w) = {}
    BY <1>1, <1>2, FS_EmptySet DEF SysInit, WorkerPc, Unanswered, Succeeded, Mined, Held
  <1>4. \A w \in Workers : Transfers!AtNode(w) = {}
    BY <1>3, TransferAssumption DEF Transfers!AtNode, Transfers!Nonces
  <1> QED
    BY <1>3, <1>4 DEF SysInit, Transfers!Init

LEMMA TransfersStep ==
  ASSUME SysInv, [SysNext]_sysVars
  PROVE  [Transfers!Next]_(Transfers!vars)
  <1>1. CASE FetchNonces
    BY <1>1, FetchNoncesMaps DEF Transfers!Next
  <1>2. CASE StartMonitor
    BY <1>2, LoopChanges, QuietStep DEF StartMonitor
  <1>3. ASSUME NEW w \in Workers,
               CreateWorker(w) \/ Sign(w) \/ Send(w) \/ DoWorkReturns(w) \/ MineNext(w)
        PROVE  [Transfers!Next]_(Transfers!vars)
    BY <1>3, CreateWorkerMaps, SignMaps, SendMaps, DoWorkReturnsMaps, MineNextMaps
    DEF Transfers!Next, Transfers!DoWork
  <1>4. ASSUME NEW t \in Txs, NodeAccepts(t), UNCHANGED testVars
        PROVE  [Transfers!Next]_(Transfers!vars)
    <2>1. PICK w \in Workers :
            Transfers!SendAccepted(w) \/ \E n \in Transfers!Nonces : Transfers!Arrive(w, n)
      BY <1>4, NodeAcceptsMaps DEF Nonces, Transfers!Nonces
    <2> QED
      BY <2>1 DEF Transfers!Next, Transfers!DoWork
  <1>5. CASE (LoopStep \/ Fatal) /\ UNCHANGED testVars
    BY <1>5, LoopChanges, QuietStep
  <1>6. CASE UNCHANGED sysVars
    BY <1>6, QuietStep DEF sysVars, vars, callVars, nodeVars
  <1> QED
    BY <1>1, <1>2, <1>3, <1>4, <1>5, <1>6 DEF SysNext, SysStopped, SysStep

(* The test case on top of the monitor is the test case with a wait that   *)
(* ends well only if the transaction is mined.                             *)
THEOREM SystemImplementsTransfers == SysSpec => ImplementsTransfers
  BY TransfersInit, TransfersStep, SysInvariantHolds, PTL
  DEF SysSpec, ImplementsTransfers, Transfers!Spec

-----------------------------------------------------------------------------
(* In the system no block is replaced and each holds one transaction: what *)
(* was mined is in the chain, and the chain is no longer than that.        *)
BlocksOK ==
  /\ \A t \in minted : \E k \in 1..Len(chain) : t \in chain[k]
  /\ Len(chain) <= Cardinality(minted)

CustodyInv == SysInv /\ WayInv /\ BlocksOK

(* Only MineNext changes the chain.                                        *)
LEMMA ChainChanges ==
  ASSUME [SysNext]_sysVars
  PROVE  UNCHANGED <<chain, minted>> \/ \E w \in Workers : MineNext(w)
  BY DEF SysNext, SysStep, SysStopped, FetchNonces, StartMonitor, InitTxPool, CreateWorker,
         Sign, Send, DoWorkReturns, CallStep, Subscribe, SendReturnsNil, SendReturnsError,
         Confirmed, TimedOut, CtxExpires, LoopStep, ReceiveHead, FetchBlockTxs,
         DispatchLock, DispatchUnlock, DispatchTx, Fatal, NodeAccepts, sysVars, vars, nodeVars

LEMMA CustodyStep == CustodyInv /\ [SysNext]_sysVars => CustodyInv'
  <1> SUFFICES ASSUME CustodyInv, [SysNext]_sysVars PROVE CustodyInv'
    OBVIOUS
  <1>1. SysInv' /\ WayInv'
    BY SysInvStep, PoolPart, NextWayInv DEF CustodyInv
  <1>2. CASE UNCHANGED <<chain, minted>>
    BY <1>1, <1>2 DEF CustodyInv, BlocksOK
  <1>3. ASSUME NEW w \in Workers, MineNext(w) PROVE BlocksOK'
    <2>1. PICK n \in Nonces : <<w, n>> \in mempool /\ Mine({<<w, n>>})
      BY <1>3 DEF MineNext, NextToMine
    <2> DEFINE t == <<w, n>>
    <2>2. /\ minted' = minted \cup {t} /\ chain' = Append(chain, {t})
          /\ t \notin minted /\ minted \in SUBSET Txs /\ chain \in Seq(SUBSET Txs)
      BY <2>1 DEF Mine, CustodyInv, SysInv, NodeOK, IInv, TypeOK
    <2>3. {t} \in SUBSET Txs
      BY <2>1 DEF CustodyInv, SysInv, IInv, TypeOK
    <2> HIDE DEF t
    <2>4. /\ Len(chain') = Len(chain) + 1 /\ chain'[Len(chain) + 1] = {t}
          /\ \A k \in 1..Len(chain) : chain'[k] = chain[k]
          /\ Len(chain) \in Nat
      BY <2>2, <2>3
    <2>5. IsFiniteSet(minted)
      BY <2>2, PoolAssumption, FS_Subset
    <2>6. Cardinality(minted') = Cardinality(minted) + 1 /\ Cardinality(minted) \in Nat
      BY <2>2, <2>5, FS_AddElement, FS_CardinalityType
    <2>7. \A u \in minted' : \E k \in 1..Len(chain') : u \in chain'[k]
      <3>1. Len(chain) + 1 \in 1..Len(chain') /\ t \in chain'[Len(chain) + 1]
        BY <2>4
      <3>2. \A k \in 1..Len(chain) : k \in 1..Len(chain')
        BY <2>4
      <3> QED
        BY <2>2, <2>4, <3>1, <3>2 DEF CustodyInv, BlocksOK
    <2> QED
      BY <2>4, <2>6, <2>7 DEF CustodyInv, BlocksOK
  <1> QED
    BY <1>1, <1>2, <1>3, ChainChanges DEF CustodyInv

(* A transaction the node has and has not mined leaves room in the chain.  *)
LEMMA RoomToMine ==
  ASSUME CustodyInv, NEW t \in mempool
  PROVE  Len(chain) < MaxHeight
  <1>1. t \in Txs \ minted /\ minted \in SUBSET Txs /\ Len(chain) <= Cardinality(minted)
    BY DEF CustodyInv, SysInv, NodeOK, IInv, TypeOK, BlocksOK
  <1>2. Len(chain) \in Nat
    BY DEF CustodyInv, SysInv, IInv, TypeOK
  <1>3. IsFiniteSet(Txs) /\ MaxHeight \in Nat /\ MaxHeight >= Cardinality(Txs)
    BY PoolAssumption, TransferAssumption
  <1>4. Cardinality(minted) < Cardinality(Txs)
    <2>1. Cardinality(minted) <= Cardinality(Txs) /\ minted # Txs
      BY <1>1, <1>3, FS_Subset
    <2>2. Cardinality(minted) # Cardinality(Txs)
      BY <1>1, <1>3, <2>1, FS_Subset
    <2>3. IsFiniteSet(minted)
      BY <1>1, <1>3, FS_Subset
    <2>4. Cardinality(minted) \in Nat /\ Cardinality(Txs) \in Nat
      BY <1>3, <2>3, FS_CardinalityType
    <2> QED
      BY <2>1, <2>2, <2>4
  <1>5. Cardinality(minted) \in Nat /\ Cardinality(Txs) \in Nat
    BY <1>1, <1>3, FS_Subset, FS_CardinalityType
  <1> QED
    BY <1>1, <1>2, <1>3, <1>4, <1>5

(* From the send to the confirmation a work is never stuck.  Its           *)
(* transaction is mined, and the monitor has its confirmation on the way;  *)
(* or it is not, and the lowest nonce of the account that is not mined is  *)
(* with the node, which can mine it, or lost.                              *)
THEOREM NeverStuck == SysSpec => []WorkNeverStuck
  <1>1. SysInit => CustodyInv
    <2>1. ASSUME SysInit PROVE WayInv /\ BlocksOK
      BY <2>1, InitIInv, FS_EmptySet
      DEF SysInit, Init, WayInv, SentOK, ConfirmationOnItsWay, BlocksOK, Waiting
    <2> QED
      BY <2>1, SysInvInit DEF CustodyInv
  <1>2. ASSUME CustodyInv, NEW w \in Workers, NEW n \in Nonces, CallIs(w, n, "sent"),
               \A m \in 0..(n - 1) : <<w, m>> \in AtNode
        PROVE  \/ <<w, n>> \in signalled \/ Dispatching(<<w, n>>)
               \/ \E k \in 1..Len(chain) : <<w, n>> \in chain[k] /\ HeadOnItsWay(k)
               \/ \E m \in 0..n : NextToMine(w, m) /\ Len(chain) < MaxHeight
    <2> DEFINE t == <<w, n>>
    <2>1. t \in Txs /\ sendPc[t] = "sent" /\ t \in AtNode /\ Waiting(t)
      BY <1>2 DEF CallIs, CallsAt, CustodyInv, SysInv, CallOK, Waiting
    <2>2. CASE t \in minted
      <3>1. PICK k \in 1..Len(chain) : t \in chain[k]
        BY <1>2, <2>2 DEF CustodyInv, BlocksOK
      <3> QED
        BY <1>2, <2>1, <3>1 DEF CustodyInv, WayInv, ConfirmationOnItsWay
    <2>3. CASE t \notin minted
      <3> DEFINE m == Mined(w)
      <3>1. n \in Nat /\ m \in Nat /\ m \in Nonces /\ \A k \in Nonces : <<w, k>> \in minted <=> k < m
        BY <1>2, MinedBelow, TxsArePairs DEF CustodyInv
      <3> HIDE DEF m
      <3>2. m <= n
        BY <2>3, <3>1
      <3>3. <<w, m>> \in AtNode /\ <<w, m>> \notin minted
        BY <1>2, <2>1, <3>1, <3>2
      <3>4. \A k \in 0..(m - 1) : <<w, k>> \in minted
        BY <3>1, TransferAssumption DEF Nonces
      <3>5. NextToMine(w, m)
        BY <3>3, <3>4 DEF NextToMine, AtNode
      <3>6. Len(chain) < MaxHeight
        BY <1>2, <3>5, RoomToMine DEF NextToMine
      <3> QED
        BY <3>1, <3>2, <3>5, <3>6
    <2> QED
      BY <2>2, <2>3
  <1>3. CustodyInv => WorkNeverStuck
    BY <1>2 DEF WorkNeverStuck
  <1> QED
    BY <1>1, <1>3, CustodyStep, PTL DEF SysSpec

=============================================================================
