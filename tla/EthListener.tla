------------------------------ MODULE EthListener ------------------------------
(***************************************************************************)
(* The node listener of internal/core/listener.go, with TryConnect of      *)
(* internal/core/rpc.go and the handlers of cmd/reporter/main.go.          *)
(*                                                                         *)
(* One goroutine dials the node, subscribes to new heads and to pending    *)
(* transactions, and hands the events to their handlers: a head to a       *)
(* goroutine of its own, a transaction to a call that the loop waits for.  *)
(* Whatever error ends this, it sleeps and starts over with a new client.  *)
(*                                                                         *)
(* The node, its connections and the client's end of a subscription are    *)
(* external.  Start gives a context that is never done, so that the cases  *)
(* of ctx.Done() are left out.                                             *)
(***************************************************************************)
EXTENDS Naturals, Sequences, FiniteSets, Functions

CONSTANTS
  Conns,     \* bound: the connections the node keeps at a time
  Nil,       \* no client yet
  BufCap,    \* events a subscription of go-ethereum holds for its reader
  MaxEvents  \* bound: the events the node announces

ASSUME ListenerAssumption ==
  /\ Nil \notin Conns
  /\ BufCap \in Nat /\ MaxEvents \in Nat

EventNewHeads == "newHeads"
EventNewPendingTx == "newPendingTransactions"
Kinds == {EventNewHeads, EventNewPendingTx}

VARIABLES
  proc,    \* the process: up, or ended by a panic
  pc,      \* listenEventsWorker
  client,  \* of EthListener: its connection
  onHead,  \* the heads whose OnNewHead goroutine runs
  onTx,    \* the transaction given to OnNewPendingTx, 0 between calls
  blocks,  \* the lines of blocks.txt
  txs      \* the lines of txs.txt

(* External: the node and the connections to it.                           *)
VARIABLES
  open,       \* connections that are open
  sub,        \* each connection: its subscription of each kind
  queue,      \* and what that holds for the reader of its channel
  announced,  \* number of events announced: they are 1 .. announced[k]
  since       \* history: announced[k] when client subscribed to k

recordVars == <<onHead, blocks, txs>>
connVars == <<open, sub, queue>>
vars == <<proc, pc, client, onTx, recordVars, connVars, announced, since>>

Pcs == {"dial", "retry", "subHeads", "subTxs", "select", "onTx", "restart"}

TypeOK ==
  /\ proc \in {"up", "panic"} /\ pc \in Pcs
  /\ client \in Conns \cup {Nil} /\ (client = Nil => pc \in {"dial", "retry"})
  /\ onHead \in SUBSET Nat /\ onTx \in Nat
  /\ blocks \in Seq(Nat) /\ txs \in Seq(Nat)
  /\ open \in SUBSET Conns
  /\ sub \in [Conns -> [Kinds -> {"none", "live", "ended"}]]
  /\ queue \in [Conns -> [Kinds -> Seq(Nat)]]
  /\ \A c \in Conns, k \in Kinds : Len(queue[c][k]) <= BufCap
  /\ announced \in [Kinds -> 0..MaxEvents] /\ since \in [Kinds -> 0..MaxEvents]

(* run of cmd/reporter: the files are removed, the listener is started.    *)
Init ==
  /\ proc = "up" /\ pc = "dial" /\ client = Nil
  /\ onHead = {} /\ onTx = 0
  /\ blocks = <<>> /\ txs = <<>>
  /\ open = {}
  /\ sub = [c \in Conns |-> [k \in Kinds |-> "none"]]
  /\ queue = [c \in Conns |-> [k \in Kinds |-> <<>>]]
  /\ announced = [k \in Kinds |-> 0] /\ since = [k \in Kinds |-> 0]

GoTo(from, to) == pc = from /\ pc' = to

-----------------------------------------------------------------------------
(* TryConnect: DialRpc makes a connection, ...                             *)
DialSucceeds(c) ==
  /\ c \notin open
  /\ GoTo("dial", "subHeads")
  /\ client' = c
  /\ open' = open \cup {c}
  /\ sub' = [sub EXCEPT ![c] = [k \in Kinds |-> "none"]]
  /\ queue' = [queue EXCEPT ![c] = [k \in Kinds |-> <<>>]]
  /\ UNCHANGED <<proc, onTx, recordVars, announced, since>>

(* ... or fails, if only by its time-out, and is called again after a      *)
(* delay.                                                                  *)
DialFails ==
  /\ GoTo("dial", "retry")
  /\ UNCHANGED <<proc, client, onTx, recordVars, connVars, announced, since>>

RetryDial ==
  /\ GoTo("retry", "dial")
  /\ UNCHANGED <<proc, client, onTx, recordVars, connVars, announced, since>>

(* EthSubscribe, which reconnects a client that has lost its connection.   *)
EthSubscribe(k) ==
  /\ open' = open \cup {client}
  /\ sub' = [sub EXCEPT ![client][k] = "live"]
  /\ since' = [since EXCEPT ![k] = announced[k]]
  /\ UNCHANGED <<proc, client, onTx, recordVars, queue, announced>>

SubscribeHeads == GoTo("subHeads", "subTxs") /\ EthSubscribe(EventNewHeads)

SubscribeTxs == GoTo("subTxs", "select") /\ EthSubscribe(EventNewPendingTx)

(* The first error of a subscription ends the attempt; what was subscribed *)
(* to before stays, and so does the connection.                            *)
SubscribeFails ==
  /\ \/ GoTo("subHeads", "restart")
     \/ GoTo("subTxs", "restart")
  /\ UNCHANGED <<proc, client, onTx, recordVars, connVars, announced, since>>

-----------------------------------------------------------------------------
(* The select: a head, for which a goroutine is started, ...               *)
\* Faulty: the channel of the heads is shared by all connections.
ReceiveHeadShared ==
  /\ pc = "select"
  /\ \E c \in Conns :
       /\ queue[c][EventNewHeads] # <<>>
       /\ onHead' = onHead \cup {Head(queue[c][EventNewHeads])}
       /\ queue' = [queue EXCEPT ![c][EventNewHeads] = Tail(@)]
  /\ UNCHANGED <<proc, pc, client, onTx, blocks, txs, open, sub, announced, since>>

\* Faulty: a head is dropped while the handler of another one runs.
ReceiveHeadIfIdle ==
  /\ pc = "select" /\ queue[client][EventNewHeads] # <<>>
  /\ onHead' = IF onHead = {} THEN {Head(queue[client][EventNewHeads])} ELSE onHead
  /\ queue' = [queue EXCEPT ![client][EventNewHeads] = Tail(@)]
  /\ UNCHANGED <<proc, pc, client, onTx, blocks, txs, open, sub, announced, since>>

ReceiveHead ==
  /\ pc = "select" /\ queue[client][EventNewHeads] # <<>>
  /\ onHead' = onHead \cup {Head(queue[client][EventNewHeads])}
  /\ queue' = [queue EXCEPT ![client][EventNewHeads] = Tail(@)]
  /\ UNCHANGED <<proc, pc, client, onTx, blocks, txs, open, sub, announced, since>>

(* ... a transaction, which is handled at once, ...                        *)
ReceiveTx ==
  /\ GoTo("select", "onTx")
  /\ queue[client][EventNewPendingTx] # <<>>
  /\ onTx' = Head(queue[client][EventNewPendingTx])
  /\ queue' = [queue EXCEPT ![client][EventNewPendingTx] = Tail(@)]
  /\ UNCHANGED <<proc, client, recordVars, open, sub, announced, since>>

(* ... or the end of one of the subscriptions, also of one that still has  *)
(* events for its channel.                                                 *)
\* Faulty: only the subscription of the heads is looked at.
HeadsSubscriptionEnds ==
  /\ GoTo("select", "restart")
  /\ sub[client][EventNewHeads] = "ended"
  /\ UNCHANGED <<proc, client, onTx, recordVars, connVars, announced, since>>

SubscriptionEnds ==
  /\ pc = "select" /\ \E k \in Kinds : sub[client][k] = "ended"
  /\ pc' = "restart"
  /\ UNCHANGED <<proc, client, onTx, recordVars, connVars, announced, since>>

(* The sleep before the next turn of the outer loop.                       *)
Restart ==
  /\ GoTo("restart", "dial")
  /\ UNCHANGED <<proc, client, onTx, recordVars, connVars, announced, since>>

-----------------------------------------------------------------------------
(* onNewHeads appends a line to blocks.txt, in a goroutine, ...            *)
\* Faulty: the handler leaves its head to be written again.
OnNewHeadTwice(h) ==
  /\ h \in onHead
  /\ blocks' = Append(blocks, h)
  /\ onHead' = IF h \in Range(blocks) THEN onHead \ {h} ELSE onHead
  /\ UNCHANGED <<proc, pc, client, onTx, txs, connVars, announced, since>>

OnNewHead(h) ==
  /\ h \in onHead
  /\ blocks' = Append(blocks, h)
  /\ onHead' = onHead \ {h}
  /\ UNCHANGED <<proc, pc, client, onTx, txs, connVars, announced, since>>

(* ... and onNewPendingTx one to txs.txt, in the loop.                     *)
OnNewPendingTx ==
  /\ GoTo("onTx", "select")
  /\ txs' = Append(txs, onTx) /\ onTx' = 0
  /\ UNCHANGED <<proc, client, onHead, blocks, connVars, announced, since>>

(* Either panics if its file cannot be opened or written.                  *)
HandlerPanics ==
  /\ onHead # {} \/ pc = "onTx"
  /\ proc' = "panic"
  /\ UNCHANGED <<pc, client, onTx, recordVars, connVars, announced, since>>

-----------------------------------------------------------------------------
(* External: an event goes to all live subscriptions of its kind, those of *)
(* abandoned connections included.  One whose buffer is full ends.         *)
Announce(k) ==
  LET n == announced[k] + 1
      fits(c) == Len(queue[c][k]) < BufCap
      reached == {c \in Conns : sub[c][k] = "live"}
  IN /\ announced[EventNewHeads] + announced[EventNewPendingTx] < MaxEvents
     /\ announced' = [announced EXCEPT ![k] = n]
     /\ queue' = [c \in Conns |->
                    IF c \notin reached THEN queue[c]
                    ELSE [queue[c] EXCEPT ![k] = IF fits(c) THEN Append(@, n) ELSE <<>>]]
     /\ sub' = [c \in Conns |->
                  IF c \in reached /\ ~fits(c) THEN [sub[c] EXCEPT ![k] = "ended"] ELSE sub[c]]
     /\ UNCHANGED <<proc, pc, client, onTx, recordVars, open, since>>

(* External: a connection is lost; its subscriptions end, and their        *)
(* readers may still get some of what is in the buffers.                   *)
Disconnect(c) ==
  /\ c \in open
  /\ open' = open \ {c}
  /\ sub' = [sub EXCEPT ![c] = [k \in Kinds |-> IF @[k] = "live" THEN "ended" ELSE @[k]]]
  /\ UNCHANGED <<proc, pc, client, onTx, recordVars, queue, announced, since>>

-----------------------------------------------------------------------------
Listen ==
  \/ \E c \in Conns : DialSucceeds(c)
  \/ DialFails \/ RetryDial \/ SubscribeHeads \/ SubscribeTxs \/ SubscribeFails
  \/ ReceiveHead \/ ReceiveTx \/ SubscriptionEnds \/ Restart

Handle == OnNewPendingTx \/ HandlerPanics \/ \E h \in onHead : OnNewHead(h)

Node == (\E k \in Kinds : Announce(k)) \/ (\E c \in Conns : Disconnect(c))

Stopped == proc # "up" /\ UNCHANGED vars

Next == (proc = "up" /\ (Listen \/ Handle \/ Node)) \/ Stopped

Spec == Init /\ [][Next]_vars

(***************************************************************************)
(* Fairness.  Goroutines that can run are run, sleeps end, and a select    *)
(* chooses among its ready cases at random.  Of the node: dials and        *)
(* subscriptions that are tried again and again do not fail for ever.      *)
(***************************************************************************)
WhileUp(A) == proc = "up" /\ A

Fairness ==
  /\ WF_vars(WhileUp(RetryDial)) /\ WF_vars(WhileUp(Restart))
  /\ WF_vars(WhileUp(OnNewPendingTx))
  /\ \A h \in 1..MaxEvents : WF_vars(WhileUp(OnNewHead(h)))
  /\ WF_vars(WhileUp(DialFails \/ \E c \in Conns : DialSucceeds(c)))
  /\ WF_vars(WhileUp(SubscribeFails \/ SubscribeHeads \/ SubscribeTxs))
  /\ SF_vars(WhileUp(\E c \in Conns : DialSucceeds(c)))
  /\ SF_vars(WhileUp(SubscribeHeads)) /\ SF_vars(WhileUp(SubscribeTxs))
  /\ SF_vars(WhileUp(ReceiveHead)) /\ SF_vars(WhileUp(ReceiveTx))
  /\ SF_vars(WhileUp(SubscriptionEnds))

FairSpec == Spec /\ Fairness

-----------------------------------------------------------------------------
Received(k) ==
  IF k = EventNewHeads THEN onHead \cup Range(blocks)
  ELSE Range(txs) \cup (IF pc = "onTx" THEN {onTx} ELSE {})

(* While a subscription of the current client lives, nothing is missed: an *)
(* event announced since it was made is in its buffer or was received,     *)
(* also one announced before the loop was entered or while a handler kept  *)
(* the loop from its channel.                                              *)
NothingMissedWhileListening ==
  \A k \in Kinds :
    client # Nil /\ sub[client][k] = "live" =>
      (since[k] + 1)..announced[k] \subseteq Range(queue[client][k]) \cup Received(k)

(* The loop receives the heads in the order of their announcement, across  *)
(* restarts too: subscriptions that were abandoned on connections still    *)
(* open go on filling, and none of what they hold comes up later.          *)
HeadsReceivedInOrder ==
  [][\A h \in onHead' \ onHead : \A g \in onHead \cup Range(blocks) : g < h]_vars

(* The files are what EventRecord promises.                                *)
Record == INSTANCE EventRecord

ImplementsRecord == Record!Spec

(* An event that has reached the client is recorded, although a loop with  *)
(* many cases and goroutines without order are between, unless the         *)
(* listener restarts or a handler panics.                                  *)
Recorded(k) == IF k = EventNewHeads THEN Range(blocks) ELSE Range(txs)

RecordedEventually ==
  \A k \in Kinds, n \in 1..MaxEvents :
    pc = "select" /\ n \in Range(queue[client][k])
      ~> n \in Recorded(k) \/ pc = "restart" \/ proc # "up"

(* If connections are not lost for ever, the listener comes back to its    *)
(* loop with both subscriptions, unless it dials a node that keeps no      *)
(* further connection, for all those the listener has given up without     *)
(* closing them.                                                           *)
Listening ==
  /\ pc \in {"select", "onTx"}
  /\ \A k \in Kinds : sub[client][k] = "live"

NodeStays == <>[][~\E c \in Conns : Disconnect(c)]_vars

Exhausted == open = Conns /\ pc \in {"dial", "retry"}

ListensAgain == NodeStays => (~Listening ~> Listening \/ Exhausted \/ proc # "up")
=============================================================================
