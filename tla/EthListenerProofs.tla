--------------------------- MODULE EthListenerProofs ---------------------------
(***************************************************************************)
(* Proofs about EthListener, for any number of connections, buffers of any *)
(* size and any number of events: the type invariant, that nothing is      *)
(* missed while a subscription lives, that heads are received in order,    *)
(* and that the two files implement EventRecord.                           *)
(*                                                                         *)
(* The inductive invariant says of the client the listener has now, and of *)
(* no other, that its buffers hold events in order, all of them later than *)
(* whatever was received: a new client starts with empty buffers, and what *)
(* the node announces is later than all it announced before.               *)
(***************************************************************************)
EXTENDS EthListener, SequenceTheorems, TLAPS

Buffer(k) == IF client = Nil THEN <<>> ELSE queue[client][k]

Increasing(q) == \A i, j \in 1..Len(q) : i < j => q[i] < q[j]

(* A buffer q goes on after the set R of received events, up to event n.   *)
Fresh(q, R, n) ==
  /\ q \in Seq(Nat) /\ R \subseteq 1..n
  /\ Increasing(q)
  /\ \A i \in 1..Len(q) : q[i] \in 1..n
  /\ \A r \in R, i \in 1..Len(q) : r < q[i]

Covered(s, q, R, n) == (s + 1)..n \subseteq Range(q) \cup R

Live(k) == client # Nil /\ sub[client][k] = "live"

KindOK(k) ==
  /\ Fresh(Buffer(k), Received(k), announced[k])
  /\ Live(k) => Covered(since[k], Buffer(k), Received(k), announced[k])

HandledOnce ==
  /\ onHead \cap Range(blocks) = {}
  /\ pc = "onTx" => \A t \in Range(txs) : t < onTx

IInv == TypeOK /\ (\A k \in Kinds : KindOK(k)) /\ HandledOnce

-----------------------------------------------------------------------------
(* Sequences: what an element put at the end or taken from the front does. *)
LEMMA RangeOfAppend ==
  ASSUME NEW S, NEW s \in Seq(S), NEW e \in S
  PROVE  Range(Append(s, e)) = Range(s) \cup {e}
<1>1. /\ Append(s, e) \in Seq(S) /\ Len(Append(s, e)) = Len(s) + 1
      /\ \A i \in 1..Len(s) : Append(s, e)[i] = s[i]
      /\ Append(s, e)[Len(s) + 1] = e
  BY AppendProperties
<1>2. DOMAIN Append(s, e) = 1..(Len(s) + 1) /\ DOMAIN s = 1..Len(s) /\ Len(s) \in Nat
  BY <1>1, LenProperties
<1>3. Range(Append(s, e)) \subseteq Range(s) \cup {e}
  BY <1>1, <1>2 DEF Range
<1>4. Range(s) \cup {e} \subseteq Range(Append(s, e))
  BY <1>1, <1>2 DEF Range
<1> QED BY <1>3, <1>4

LEMMA RangeOfTail ==
  ASSUME NEW S, NEW s \in Seq(S), s # <<>>
  PROVE  Range(s) = {Head(s)} \cup Range(Tail(s))
<1>1. /\ Head(s) \in S /\ Tail(s) \in Seq(S) /\ Len(Tail(s)) = Len(s) - 1
      /\ \A i \in 1..Len(Tail(s)) : Tail(s)[i] = s[i + 1]
  BY HeadTailProperties
<1>2. /\ Head(s) = s[1] /\ Len(s) \in Nat /\ Len(s) >= 1
      /\ DOMAIN s = 1..Len(s) /\ DOMAIN Tail(s) = 1..(Len(s) - 1)
  BY <1>1, LenProperties, EmptySeq
<1>3. ASSUME NEW x \in Range(s) PROVE x \in {Head(s)} \cup Range(Tail(s))
  <2>1. PICK i \in 1..Len(s) : x = s[i]
    BY <1>2, <1>3 DEF Range
  <2>2. CASE i = 1
    BY <2>1, <2>2, <1>2
  <2>3. CASE i # 1
    <3>1. i - 1 \in 1..(Len(s) - 1) /\ (i - 1) + 1 = i
      BY <2>3, <1>2
    <3>2. Tail(s)[i - 1] = x
      BY <3>1, <2>1, <1>1
    <3> QED BY <3>1, <3>2, <1>2 DEF Range
  <2> QED BY <2>2, <2>3
<1>4. Head(s) \in Range(s)
  BY <1>2 DEF Range
<1>5. ASSUME NEW x \in Range(Tail(s)) PROVE x \in Range(s)
  <2>1. PICK i \in 1..(Len(s) - 1) : x = Tail(s)[i]
    BY <1>2, <1>5 DEF Range
  <2>2. i + 1 \in 1..Len(s) /\ s[i + 1] = x
    BY <2>1, <1>1, <1>2
  <2> QED BY <2>2, <1>2 DEF Range
<1> QED BY <1>3, <1>4, <1>5

-----------------------------------------------------------------------------
(* Fresh buffers: an empty one, one that an event is taken from, and one   *)
(* that the next event is put in.                                          *)
LEMMA EmptyIsFresh ==
  ASSUME NEW n \in Nat, NEW R \in SUBSET (1..n)
  PROVE  Fresh(<<>>, R, n) /\ Fresh(<<>>, R, n + 1)
BY EmptySeq DEF Fresh, Increasing

LEMMA FreshLater ==
  ASSUME NEW n \in Nat, NEW R, NEW q, Fresh(q, R, n)
  PROVE  Fresh(q, R, n + 1)
<1>1. 1..n \subseteq 1..(n + 1)
  OBVIOUS
<1> QED BY <1>1 DEF Fresh

LEMMA TakeFresh ==
  ASSUME NEW n \in Nat, NEW R, NEW q, Fresh(q, R, n), q # <<>>
  PROVE  Fresh(Tail(q), R \cup {Head(q)}, n)
<1>1. /\ q \in Seq(Nat) /\ Head(q) = q[1] /\ Tail(q) \in Seq(Nat)
      /\ Len(q) \in Nat /\ Len(q) >= 1 /\ Len(Tail(q)) = Len(q) - 1
      /\ \A i \in 1..Len(Tail(q)) : Tail(q)[i] = q[i + 1]
  BY HeadTailProperties, LenProperties, EmptySeq DEF Fresh
<1>2. Head(q) \in 1..n
  BY <1>1 DEF Fresh
<1>3. \A i \in 1..Len(Tail(q)) : i + 1 \in 1..Len(q) /\ 1 < i + 1
  BY <1>1
<1>4. \A i \in 1..Len(Tail(q)) : Tail(q)[i] \in 1..n /\ Head(q) < Tail(q)[i]
  BY <1>1, <1>3 DEF Fresh, Increasing
<1>5. Increasing(Tail(q))
  BY <1>1, <1>3 DEF Fresh, Increasing
<1>6. \A r \in R, i \in 1..Len(Tail(q)) : r < Tail(q)[i]
  BY <1>1, <1>3 DEF Fresh
<1> QED BY <1>1, <1>2, <1>4, <1>5, <1>6 DEF Fresh

LEMMA AppendFresh ==
  ASSUME NEW n \in Nat, NEW R, NEW q, Fresh(q, R, n)
  PROVE  Fresh(Append(q, n + 1), R, n + 1)
<1> DEFINE p == Append(q, n + 1)
<1>1. /\ q \in Seq(Nat) /\ Len(q) \in Nat
      /\ p \in Seq(Nat) /\ Len(p) = Len(q) + 1
      /\ \A i \in 1..Len(q) : p[i] = q[i]
      /\ p[Len(q) + 1] = n + 1
  BY AppendProperties, LenProperties DEF Fresh
<1> HIDE DEF p
<1>2. \A i \in 1..Len(p) : (i \in 1..Len(q) /\ p[i] = q[i]) \/ (i = Len(q) + 1 /\ p[i] = n + 1)
  BY <1>1
<1>3. \A i \in 1..Len(q) : q[i] \in 1..n
  BY DEF Fresh
<1>4. \A i \in 1..Len(p) : p[i] \in 1..(n + 1)
  BY <1>2, <1>3
<1>5. Increasing(p)
  <2>1. \A i, j \in 1..Len(q) : i < j => q[i] < q[j]
    BY DEF Fresh, Increasing
  <2>2. ASSUME NEW i \in 1..Len(p), NEW j \in 1..Len(p), i < j PROVE p[i] < p[j]
    <3>1. i \in 1..Len(q) /\ p[i] = q[i]
      BY <2>2, <1>1
    <3>2. CASE j \in 1..Len(q)
      BY <3>1, <3>2, <2>1, <2>2, <1>1
    <3>3. CASE j = Len(q) + 1
      BY <3>1, <3>3, <1>1, <1>3
    <3> QED BY <3>2, <3>3, <1>2
  <2> QED BY <2>2 DEF Increasing
<1>6. \A r \in R, i \in 1..Len(p) : r < p[i]
  BY <1>2, <1>3 DEF Fresh
<1>7. R \subseteq 1..(n + 1)
  BY DEF Fresh
<1> QED BY <1>1, <1>4, <1>5, <1>6, <1>7 DEF Fresh, p

-----------------------------------------------------------------------------
LEMMA KindsAre ==
  /\ EventNewHeads \in Kinds /\ EventNewPendingTx \in Kinds
  /\ EventNewHeads # EventNewPendingTx
  /\ \A k \in Kinds : k = EventNewHeads \/ k = EventNewPendingTx
BY DEF Kinds, EventNewHeads, EventNewPendingTx

LEMMA ClientThere ==
  ASSUME TypeOK, pc \notin {"dial", "retry"}
  PROVE  client \in Conns /\ client # Nil
BY ListenerAssumption DEF TypeOK

QueueType ==
  /\ queue \in [Conns -> [Kinds -> Seq(Nat)]]
  /\ \A c \in Conns, k \in Kinds : Len(queue[c][k]) <= BufCap

LEMMA QueueUpdated ==
  ASSUME QueueType, NEW c \in Conns, NEW k \in Kinds,
         NEW q \in Seq(Nat), Len(q) <= BufCap,
         queue' = [queue EXCEPT ![c][k] = q]
  PROVE  /\ QueueType'
         /\ \A d \in Conns, l \in Kinds :
              queue'[d][l] = IF d = c /\ l = k THEN q ELSE queue[d][l]
<1>1. \A d \in Conns, l \in Kinds :
        queue'[d][l] = IF d = c /\ l = k THEN q ELSE queue[d][l]
  BY DEF QueueType
<1>2. queue' \in [Conns -> [Kinds -> Seq(Nat)]]
  BY DEF QueueType
<1>3. \A d \in Conns, l \in Kinds : Len(queue'[d][l]) <= BufCap
  BY <1>1 DEF QueueType
<1> QED BY <1>1, <1>2, <1>3 DEF QueueType

(* An event is taken from a buffer of the client.                          *)
Take(k) ==
  /\ client \in Conns /\ queue[client][k] # <<>>
  /\ queue' = [queue EXCEPT ![client][k] = Tail(@)]

LEMMA TakeUpdates ==
  ASSUME QueueType, NEW k \in Kinds, Take(k)
  PROVE  /\ QueueType' /\ Head(queue[client][k]) \in Nat
         /\ \A d \in Conns, l \in Kinds :
              queue'[d][l] = IF d = client /\ l = k THEN Tail(queue[d][l]) ELSE queue[d][l]
<1> DEFINE q == queue[client][k]
<1>1. q \in Seq(Nat) /\ q # <<>> /\ Len(q) <= BufCap
  BY DEF QueueType, Take
<1>2. Head(q) \in Nat /\ Tail(q) \in Seq(Nat) /\ Len(Tail(q)) = Len(q) - 1
  BY <1>1, HeadTailProperties
<1>3. Len(Tail(q)) <= BufCap
  BY <1>1, <1>2, ListenerAssumption, LenProperties
<1>4. queue' = [queue EXCEPT ![client][k] = Tail(q)]
  BY DEF Take
<1>5. client \in Conns
  BY DEF Take
<1> HIDE DEF q
<1>6. /\ QueueType'
      /\ \A d \in Conns, l \in Kinds :
           queue'[d][l] = IF d = client /\ l = k THEN Tail(q) ELSE queue[d][l]
  BY <1>2, <1>3, <1>4, <1>5, QueueUpdated
<1> QED BY <1>2, <1>6 DEF q

(* Announce puts an event in every live buffer that has room.              *)
LEMMA AnnounceUpdates ==
  ASSUME TypeOK, NEW k \in Kinds, Announce(k)
  PROVE  /\ announced[k] \in Nat /\ announced[k] + 1 <= MaxEvents
         /\ announced' \in [Kinds -> 0..MaxEvents]
         /\ \A l \in Kinds : announced'[l] = IF l = k THEN announced[k] + 1 ELSE announced[l]
         /\ QueueType' /\ sub' \in [Conns -> [Kinds -> {"none", "live", "ended"}]]
         /\ \A c \in Conns, l \in Kinds :
              \/ l # k /\ queue'[c][l] = queue[c][l] /\ sub'[c][l] = sub[c][l]
              \/ l = k /\ sub[c][k] # "live" /\ sub'[c][k] = sub[c][k] /\ queue'[c][k] = queue[c][k]
              \/ l = k /\ sub'[c][k] = "ended" /\ queue'[c][k] = <<>>
              \/ l = k /\ queue'[c][k] = Append(queue[c][k], announced[k] + 1)
<1> DEFINE n == announced[k] + 1
           fits(c) == Len(queue[c][k]) < BufCap
           new(c) == IF fits(c) THEN Append(queue[c][k], n) ELSE <<>>
           reached == {c \in Conns : sub[c][k] = "live"}
<1>1. \A l \in Kinds : announced[l] \in 0..MaxEvents
  BY DEF TypeOK
<1>2. /\ announced[k] \in Nat /\ n \in Nat /\ n <= MaxEvents
      /\ announced' = [announced EXCEPT ![k] = n]
  <2>1. announced[EventNewHeads] + announced[EventNewPendingTx] < MaxEvents
    BY DEF Announce
  <2>2. announced[k] < MaxEvents
    BY <2>1, <1>1, KindsAre, ListenerAssumption
  <2> QED BY <1>1, <2>2, ListenerAssumption DEF Announce
<1>3. /\ announced' \in [Kinds -> 0..MaxEvents]
      /\ \A l \in Kinds : announced'[l] = IF l = k THEN n ELSE announced[l]
  BY <1>2, ListenerAssumption DEF TypeOK
<1>4. /\ queue' = [c \in Conns |->
                    IF c \notin reached THEN queue[c] ELSE [queue[c] EXCEPT ![k] = new(c)]]
      /\ sub' = [c \in Conns |->
                  IF c \in reached /\ ~fits(c) THEN [sub[c] EXCEPT ![k] = "ended"] ELSE sub[c]]
  BY DEF Announce
<1>5. \A c \in Conns : queue[c] \in [Kinds -> Seq(Nat)] /\ sub[c] \in [Kinds -> {"none", "live", "ended"}]
  BY DEF TypeOK
<1>6. \A c \in Conns : queue[c][k] \in Seq(Nat) /\ Len(queue[c][k]) <= BufCap
  BY DEF TypeOK
<1>7. \A c \in Conns : new(c) \in Seq(Nat) /\ Len(new(c)) <= BufCap
  <2> SUFFICES ASSUME NEW c \in Conns PROVE new(c) \in Seq(Nat) /\ Len(new(c)) <= BufCap
    OBVIOUS
  <2>1. CASE fits(c)
    <3>1. Append(queue[c][k], n) \in Seq(Nat) /\ Len(Append(queue[c][k], n)) = Len(queue[c][k]) + 1
      BY <1>2, <1>6, AppendProperties
    <3>2. Len(queue[c][k]) \in Nat
      BY <1>6, LenProperties
    <3> QED BY <2>1, <3>1, <3>2, ListenerAssumption
  <2>2. CASE ~fits(c)
    BY <2>2, ListenerAssumption, EmptySeq
  <2> QED BY <2>1, <2>2
<1>8. \A c \in Conns, l \in Kinds :
        queue'[c][l] = IF c \in reached /\ l = k THEN new(c) ELSE queue[c][l]
  <2> HIDE DEF new, reached
  <2> QED BY <1>4, <1>5
<1>9. QueueType'
  <2>1. \A c \in Conns : queue'[c] \in [Kinds -> Seq(Nat)]
    <3> HIDE DEF new, reached
    <3> QED BY <1>4, <1>5, <1>7
  <2>2. queue' = [c \in Conns |-> queue'[c]]
    BY <1>4
  <2>3. \A c \in Conns, l \in Kinds : Len(queue'[c][l]) <= BufCap
    <3> HIDE DEF new, reached
    <3> QED BY <1>7, <1>8 DEF TypeOK
  <2> QED BY <2>1, <2>2, <2>3 DEF QueueType
<1>10. /\ sub' \in [Conns -> [Kinds -> {"none", "live", "ended"}]]
       /\ \A c \in Conns, l \in Kinds :
            sub'[c][l] = IF c \in reached /\ ~fits(c) /\ l = k THEN "ended" ELSE sub[c][l]
  <2> HIDE DEF fits, reached
  <2> QED BY <1>4, <1>5
<1>11. ASSUME NEW c \in Conns, NEW l \in Kinds
       PROVE  \/ l # k /\ queue'[c][l] = queue[c][l] /\ sub'[c][l] = sub[c][l]
              \/ l = k /\ sub[c][k] # "live" /\ sub'[c][k] = sub[c][k] /\ queue'[c][k] = queue[c][k]
              \/ l = k /\ sub'[c][k] = "ended" /\ queue'[c][k] = <<>>
              \/ l = k /\ queue'[c][k] = Append(queue[c][k], n)
  <2>1. CASE l # k
    BY <2>1, <1>8, <1>10
  <2>2. CASE l = k /\ c \notin reached
    BY <2>2, <1>8, <1>10
  <2>3. CASE l = k /\ c \in reached /\ ~fits(c)
    BY <2>3, <1>8, <1>10
  <2>4. CASE l = k /\ c \in reached /\ fits(c)
    BY <2>4, <1>8
  <2> QED BY <2>1, <2>2, <2>3, <2>4
<1> QED BY <1>2, <1>3, <1>9, <1>10, <1>11

-----------------------------------------------------------------------------
(* Type correctness.                                                       *)
Moves ==
  \/ DialFails \/ RetryDial \/ SubscribeFails \/ SubscriptionEnds \/ Restart \/ HandlerPanics

LEMMA MovesChange ==
  ASSUME TypeOK, Moves
  PROVE  /\ proc' \in {"up", "panic"} /\ pc' \in Pcs
         /\ UNCHANGED <<client, onTx, recordVars, connVars, announced, since>>
         /\ (pc' = "onTx" <=> pc = "onTx")
         /\ (client = Nil => pc' \in {"dial", "retry"})
<1>1. pc \in Pcs /\ proc \in {"up", "panic"} /\ (client = Nil => pc \in {"dial", "retry"})
  BY DEF TypeOK
<1>2. CASE DialFails
  BY <1>1, <1>2 DEF DialFails, GoTo, Pcs
<1>3. CASE RetryDial
  BY <1>1, <1>3 DEF RetryDial, GoTo, Pcs
<1>4. CASE SubscribeFails
  BY <1>1, <1>4 DEF SubscribeFails, GoTo, Pcs
<1>5. CASE SubscriptionEnds
  BY <1>1, <1>5 DEF SubscriptionEnds, Pcs
<1>6. CASE Restart
  BY <1>1, <1>6 DEF Restart, GoTo, Pcs
<1>7. CASE HandlerPanics
  BY <1>1, <1>7 DEF HandlerPanics
<1> QED BY <1>2, <1>3, <1>4, <1>5, <1>6, <1>7 DEF Moves

LEMMA TypeInit == Init => TypeOK
<1> SUFFICES ASSUME Init PROVE TypeOK
  OBVIOUS
<1>1. <<>> \in Seq(Nat) /\ Len(<<>>) = 0
  BY EmptySeq
<1> QED BY <1>1, ListenerAssumption DEF Init, TypeOK, Pcs

LEMMA TypeStep ==
  ASSUME TypeOK, [Next]_vars
  PROVE  TypeOK'
<1> USE DEF TypeOK
<1>1. ASSUME NEW c \in Conns, DialSucceeds(c) PROVE TypeOK'
  <2>1. <<>> \in Seq(Nat) /\ Len(<<>>) = 0
    BY EmptySeq
  <2>2. /\ queue' \in [Conns -> [Kinds -> Seq(Nat)]]
        /\ sub' \in [Conns -> [Kinds -> {"none", "live", "ended"}]]
    BY <1>1, <2>1 DEF DialSucceeds
  <2>3. \A d \in Conns, k \in Kinds : queue'[d][k] = IF d = c THEN <<>> ELSE queue[d][k]
    BY <1>1 DEF DialSucceeds
  <2>4. \A d \in Conns, k \in Kinds : Len(queue'[d][k]) <= BufCap
    BY <2>1, <2>3, ListenerAssumption
  <2>5. pc' = "subHeads" /\ client' = c /\ open' \in SUBSET Conns
    BY <1>1 DEF DialSucceeds, GoTo
  <2> QED BY <1>1, <2>2, <2>4, <2>5, ListenerAssumption DEF DialSucceeds, recordVars, Pcs
<1>2. CASE Moves
  BY <1>2, MovesChange DEF recordVars, connVars
<1>3. ASSUME NEW k \in Kinds, EthSubscribe(k), pc' \in Pcs, client \in Conns, client # Nil
      PROVE  TypeOK'
  BY <1>3 DEF EthSubscribe, recordVars
<1>4. CASE SubscribeHeads
  BY <1>3, <1>4, ClientThere, KindsAre DEF SubscribeHeads, GoTo, Pcs
<1>5. CASE SubscribeTxs
  BY <1>3, <1>5, ClientThere, KindsAre DEF SubscribeTxs, GoTo, Pcs
<1>6. CASE ReceiveHead
  <2>1. client \in Conns /\ client # Nil /\ Take(EventNewHeads)
    BY <1>6, ClientThere DEF ReceiveHead, Take
  <2>2. QueueType' /\ Head(queue[client][EventNewHeads]) \in Nat
    BY <2>1, KindsAre, TakeUpdates DEF QueueType
  <2> QED BY <1>6, <2>1, <2>2 DEF ReceiveHead, QueueType
<1>7. CASE ReceiveTx
  <2>1. client \in Conns /\ client # Nil /\ Take(EventNewPendingTx)
    BY <1>7, ClientThere DEF ReceiveTx, GoTo, Take
  <2>2. QueueType' /\ Head(queue[client][EventNewPendingTx]) \in Nat
    BY <2>1, KindsAre, TakeUpdates DEF QueueType
  <2> QED BY <1>7, <2>1, <2>2 DEF ReceiveTx, GoTo, QueueType, recordVars, Pcs
<1>8. ASSUME NEW h \in onHead, OnNewHead(h) PROVE TypeOK'
  BY <1>8, AppendProperties DEF OnNewHead, connVars
<1>9. CASE OnNewPendingTx
  BY <1>9, ClientThere, AppendProperties DEF OnNewPendingTx, GoTo, connVars, Pcs
<1>10. ASSUME NEW k \in Kinds, Announce(k) PROVE TypeOK'
  <2>1. /\ announced' \in [Kinds -> 0..MaxEvents] /\ QueueType'
        /\ sub' \in [Conns -> [Kinds -> {"none", "live", "ended"}]]
    BY <1>10, AnnounceUpdates
  <2>2. UNCHANGED <<proc, pc, client, onTx, onHead, blocks, txs, open, since>>
    BY <1>10 DEF Announce, recordVars
  <2> QED BY <2>1, <2>2 DEF QueueType
<1>11. ASSUME NEW c \in Conns, Disconnect(c) PROVE TypeOK'
  <2>1. sub' \in [Conns -> [Kinds -> {"none", "live", "ended"}]]
    BY <1>11 DEF Disconnect
  <2> QED BY <1>11, <2>1 DEF Disconnect, recordVars
<1>12. CASE UNCHANGED vars
  BY <1>12 DEF vars, recordVars, connVars
<1> QED
  BY <1>1, <1>2, <1>4, <1>5, <1>6, <1>7, <1>8, <1>9, <1>10, <1>11, <1>12
  DEF Next, Listen, Handle, Node, Stopped, Moves

(* Every variable keeps its type: in particular the loop runs, and uses    *)
(* its client, only with a client that a dial has returned.                *)
THEOREM TypeCorrect == Spec => []TypeOK
BY TypeInit, TypeStep, PTL DEF Spec

-----------------------------------------------------------------------------
(* The inductive invariant.  A step that leaves all that KindOK(k) speaks  *)
(* of, or ends the subscription, keeps it.                                 *)
LEMMA KindKept ==
  ASSUME NEW k \in Kinds, KindOK(k),
         Buffer(k)' = Buffer(k), Received(k)' = Received(k), announced'[k] = announced[k],
         Live(k)' => Live(k) /\ since'[k] = since[k]
  PROVE  KindOK(k)'
BY DEF KindOK

LEMMA InvInit == Init => IInv
<1> SUFFICES ASSUME Init PROVE IInv
  OBVIOUS
<1>1. TypeOK
  BY TypeInit
<1>2. Range(<<>>) = {}
  BY DEF Range
<1>3. ASSUME NEW k \in Kinds PROVE KindOK(k)
  <2>1. Buffer(k) = <<>> /\ announced[k] = 0 /\ ~Live(k) /\ Received(k) = {}
    BY <1>2 DEF Init, Buffer, Live, Received
  <2>2. Fresh(<<>>, {}, 0)
    BY EmptyIsFresh
  <2> QED BY <2>1, <2>2 DEF KindOK
<1> QED BY <1>1, <1>2, <1>3 DEF IInv, HandledOnce, Init

LEMMA AnnouncedNat ==
  ASSUME TypeOK
  PROVE  \A k \in Kinds : announced[k] \in Nat /\ since[k] \in Nat
BY ListenerAssumption DEF TypeOK

LEMMA BlocksTyped ==
  ASSUME TypeOK
  PROVE  blocks \in Seq(Nat) /\ txs \in Seq(Nat)
BY DEF TypeOK

LEMMA DialStep ==
  ASSUME IInv, NEW c \in Conns, DialSucceeds(c)
  PROVE  (\A k \in Kinds : KindOK(k)') /\ HandledOnce'
<1>1. /\ pc = "dial" /\ pc' = "subHeads" /\ client' = c /\ c # Nil
      /\ UNCHANGED <<onTx, onHead, blocks, txs, announced>>
  BY ListenerAssumption DEF DialSucceeds, GoTo, recordVars
<1>2. ASSUME NEW k \in Kinds PROVE KindOK(k)'
  <2>1. Buffer(k)' = <<>> /\ ~Live(k)'
    BY <1>1 DEF Buffer, Live, DialSucceeds, IInv, TypeOK
  <2>2. Received(k)' = Received(k)
    BY <1>1 DEF Received
  <2>3. announced[k] \in Nat /\ Received(k) \subseteq 1..announced[k]
    BY AnnouncedNat DEF IInv, KindOK, Fresh
  <2>4. Fresh(<<>>, Received(k), announced[k])
    BY <2>3, EmptyIsFresh
  <2> QED BY <1>1, <2>1, <2>2, <2>4 DEF KindOK
<1> QED BY <1>1, <1>2 DEF IInv, HandledOnce

LEMMA MoveStep ==
  ASSUME IInv, Moves
  PROVE  (\A k \in Kinds : KindOK(k)') /\ HandledOnce'
<1>1. /\ UNCHANGED <<client, onTx, onHead, blocks, txs, queue, sub, announced, since>>
      /\ (pc' = "onTx" <=> pc = "onTx")
  BY MovesChange DEF IInv, recordVars, connVars
<1>2. ASSUME NEW k \in Kinds PROVE KindOK(k)'
  <2>1. Buffer(k)' = Buffer(k) /\ Received(k)' = Received(k) /\ (Live(k)' => Live(k))
    BY <1>1 DEF Buffer, Received, Live
  <2> QED BY <1>1, <2>1, KindKept DEF IInv
<1> QED BY <1>1, <1>2 DEF IInv, HandledOnce

LEMMA SubscribeStep ==
  ASSUME IInv, NEW l \in Kinds, EthSubscribe(l), pc # "onTx", pc' # "onTx", client \in Conns
  PROVE  (\A k \in Kinds : KindOK(k)') /\ HandledOnce'
<1>1. UNCHANGED <<client, onTx, onHead, blocks, txs, queue, announced>>
  BY DEF EthSubscribe, recordVars
<1>2. ASSUME NEW k \in Kinds PROVE KindOK(k)'
  <2>1. Buffer(k)' = Buffer(k) /\ Received(k)' = Received(k)
    BY <1>1 DEF Buffer, Received
  <2>2. CASE k = l
    <3>1. since'[k] = announced[k] /\ announced[k] \in Nat
      BY <2>2, AnnouncedNat DEF EthSubscribe, IInv, TypeOK
    <3>2. Covered(since'[k], Buffer(k), Received(k), announced[k])
      BY <3>1 DEF Covered
    <3> QED BY <1>1, <2>1, <3>2 DEF IInv, KindOK
  <2>3. CASE k # l
    <3>1. (Live(k)' => Live(k)) /\ since'[k] = since[k]
      BY <1>1, <2>3 DEF Live, EthSubscribe, IInv, TypeOK
    <3> QED BY <1>1, <2>1, <3>1, KindKept DEF IInv
  <2> QED BY <2>2, <2>3
<1> QED BY <1>1, <1>2 DEF IInv, HandledOnce

(* What is taken from a buffer of the client is received.                  *)
LEMMA TakeStep ==
  ASSUME IInv, NEW k \in Kinds, Take(k), client # Nil,
         UNCHANGED <<client, sub, announced, since>>,
         Received(k)' = Received(k) \cup {Head(queue[client][k])}
  PROVE  /\ KindOK(k)'
         /\ \A r \in Received(k) : r < Head(queue[client][k])
         /\ \A l \in Kinds \ {k} : Received(l)' = Received(l) => KindOK(l)'
<1> DEFINE q == queue[client][k]
           n == announced[k]
<1>1. client \in Conns /\ q # <<>> /\ Buffer(k) = q
  BY DEF Take, Buffer
<1>2. /\ n \in Nat /\ Fresh(q, Received(k), n) /\ q \in Seq(Nat)
      /\ Live(k) => Covered(since[k], q, Received(k), n)
  BY <1>1, AnnouncedNat DEF IInv, KindOK, Fresh
<1>3. \A l \in Kinds : queue'[client][l] = IF l = k THEN Tail(q) ELSE queue[client][l]
  BY <1>1, TakeUpdates DEF IInv, TypeOK, QueueType
<1>4. Fresh(Tail(q), Received(k) \cup {Head(q)}, n)
  BY <1>1, <1>2, TakeFresh
<1>5. Range(q) = {Head(q)} \cup Range(Tail(q))
  BY <1>1, <1>2, RangeOfTail
<1>6. KindOK(k)'
  <2>1. Buffer(k)' = Tail(q)
    BY <1>3 DEF Buffer
  <2>2. Live(k) => Covered(since[k], Tail(q), Received(k) \cup {Head(q)}, n)
    BY <1>2, <1>5 DEF Covered
  <2> QED BY <1>4, <2>1, <2>2 DEF KindOK, Live
<1>7. \A r \in Received(k) : r < Head(q)
  <2>1. Len(q) >= 1 /\ Head(q) = q[1] /\ Len(q) \in Nat
    BY <1>1, <1>2, EmptySeq, LenProperties, HeadTailProperties
  <2> QED BY <1>2, <2>1 DEF Fresh
<1>8. ASSUME NEW l \in Kinds \ {k}, Received(l)' = Received(l) PROVE KindOK(l)'
  <2>1. Buffer(l)' = Buffer(l) /\ (Live(l)' => Live(l))
    BY <1>3 DEF Buffer, Live
  <2> QED BY <1>8, <2>1, KindKept DEF IInv
<1> QED BY <1>6, <1>7, <1>8

LEMMA ReceiveHeadStep ==
  ASSUME IInv, ReceiveHead
  PROVE  /\ (\A k \in Kinds : KindOK(k)') /\ HandledOnce'
         /\ \A g \in onHead \cup Range(blocks) : g < Head(queue[client][EventNewHeads])
<1> DEFINE h == Head(queue[client][EventNewHeads])
<1>1. client \in Conns /\ client # Nil /\ pc = "select"
  BY ClientThere DEF IInv, ReceiveHead
<1>2. /\ Take(EventNewHeads)
      /\ onHead' = onHead \cup {h}
      /\ UNCHANGED <<pc, client, onTx, blocks, txs, sub, announced, since>>
  BY <1>1 DEF ReceiveHead, Take
<1>3. Received(EventNewHeads) = onHead \cup Range(blocks)
  BY DEF Received
<1>4. /\ Received(EventNewHeads)' = Received(EventNewHeads) \cup {h}
      /\ Received(EventNewPendingTx)' = Received(EventNewPendingTx)
  BY <1>2, KindsAre DEF Received
<1>5. /\ \A k \in Kinds : KindOK(k)'
      /\ \A r \in Received(EventNewHeads) : r < h
  BY <1>1, <1>2, <1>4, KindsAre, TakeStep
<1>6. HandledOnce'
  <2>1. h \notin Range(blocks)
    <3>1. \A b \in Range(blocks) : b \in Nat /\ b < h
      BY <1>3, <1>5, BlocksTyped, RangeEquality DEF IInv, Range
    <3> QED BY <3>1
  <2> QED BY <1>1, <1>2, <2>1 DEF IInv, HandledOnce
<1> QED BY <1>3, <1>5, <1>6

LEMMA ReceiveTxStep ==
  ASSUME IInv, ReceiveTx
  PROVE  (\A k \in Kinds : KindOK(k)') /\ HandledOnce'
<1> DEFINE t == Head(queue[client][EventNewPendingTx])
<1>1. client \in Conns /\ client # Nil /\ pc = "select" /\ pc' = "onTx"
  BY ClientThere DEF IInv, ReceiveTx, GoTo
<1>2. /\ Take(EventNewPendingTx)
      /\ onTx' = t
      /\ UNCHANGED <<client, onHead, blocks, txs, sub, announced, since>>
  BY <1>1 DEF ReceiveTx, Take, recordVars
<1>3. Received(EventNewPendingTx) = Range(txs)
  BY <1>1, KindsAre DEF Received
<1>4. /\ Received(EventNewPendingTx)' = Received(EventNewPendingTx) \cup {t}
      /\ Received(EventNewHeads)' = Received(EventNewHeads)
  BY <1>1, <1>2, KindsAre DEF Received
<1>5. /\ \A k \in Kinds : KindOK(k)'
      /\ \A r \in Received(EventNewPendingTx) : r < t
  BY <1>1, <1>2, <1>4, KindsAre, TakeStep
<1> QED BY <1>2, <1>3, <1>5 DEF IInv, HandledOnce

LEMMA OnNewHeadStep ==
  ASSUME IInv, NEW h \in onHead, OnNewHead(h)
  PROVE  (\A k \in Kinds : KindOK(k)') /\ HandledOnce'
<1>1. /\ blocks' = Append(blocks, h) /\ onHead' = onHead \ {h}
      /\ UNCHANGED <<pc, client, onTx, txs, queue, sub, announced, since>>
  BY DEF OnNewHead, connVars
<1>2. Range(blocks') = Range(blocks) \cup {h}
  <2>1. blocks \in Seq(Nat) /\ h \in Nat
    BY DEF IInv, TypeOK
  <2>2. Range(Append(blocks, h)) = Range(blocks) \cup {h}
    BY <2>1, RangeOfAppend
  <2> QED BY <1>1, <2>2
<1>3. \A k \in Kinds : Received(k)' = Received(k)
  BY <1>1, <1>2 DEF Received
<1>4. ASSUME NEW k \in Kinds PROVE KindOK(k)'
  <2>1. Buffer(k)' = Buffer(k) /\ (Live(k)' => Live(k))
    BY <1>1 DEF Buffer, Live
  <2> QED BY <1>1, <1>3, <2>1, KindKept DEF IInv
<1> QED BY <1>1, <1>2, <1>4 DEF IInv, HandledOnce

LEMMA OnNewPendingTxStep ==
  ASSUME IInv, OnNewPendingTx
  PROVE  (\A k \in Kinds : KindOK(k)') /\ HandledOnce'
<1>1. /\ pc = "onTx" /\ pc' = "select" /\ txs' = Append(txs, onTx)
      /\ UNCHANGED <<client, onHead, blocks, queue, sub, announced, since>>
  BY DEF OnNewPendingTx, GoTo, connVars
<1>2. Range(txs') = Range(txs) \cup {onTx}
  <2>1. txs \in Seq(Nat) /\ onTx \in Nat
    BY DEF IInv, TypeOK
  <2>2. Range(Append(txs, onTx)) = Range(txs) \cup {onTx}
    BY <2>1, RangeOfAppend
  <2> QED BY <1>1, <2>2
<1>3. \A k \in Kinds : Received(k)' = Received(k)
  BY <1>1, <1>2 DEF Received
<1>4. ASSUME NEW k \in Kinds PROVE KindOK(k)'
  <2>1. Buffer(k)' = Buffer(k) /\ (Live(k)' => Live(k))
    BY <1>1 DEF Buffer, Live
  <2> QED BY <1>1, <1>3, <2>1, KindKept DEF IInv
<1> QED BY <1>1, <1>4 DEF IInv, HandledOnce

LEMMA AnnounceStep ==
  ASSUME IInv, NEW l \in Kinds, Announce(l)
  PROVE  (\A k \in Kinds : KindOK(k)') /\ HandledOnce'
<1> DEFINE n == announced[l]
<1>1. UNCHANGED <<pc, client, onTx, onHead, blocks, txs, since>>
  BY DEF Announce, recordVars
<1>2. ASSUME NEW k \in Kinds PROVE KindOK(k)'
  <2>1. Received(k)' = Received(k) /\ KindOK(k)
    BY <1>1 DEF Received, IInv
  <2>2. n \in Nat /\ since[k] \in Nat /\ announced'[k] = IF k = l THEN n + 1 ELSE announced[k]
    BY AnnouncedNat, AnnounceUpdates DEF IInv
  <2>3. client # Nil => client \in Conns
    BY DEF IInv, TypeOK
  <2>4. CASE client = Nil /\ k # l
    <3>1. Buffer(k)' = Buffer(k) /\ ~Live(k)'
      BY <1>1, <2>4 DEF Buffer, Live
    <3> QED BY <2>1, <2>2, <2>4, <3>1, KindKept
  <2>5. CASE k = l /\ (client = Nil \/ (Buffer(k)' = Buffer(k) /\ ~Live(k)'))
    <3>1. Buffer(k)' = Buffer(k) /\ ~Live(k)'
      BY <1>1, <2>5 DEF Buffer, Live
    <3>2. Fresh(Buffer(k), Received(k), n + 1)
      BY <2>1, <2>2, <2>5, FreshLater DEF KindOK
    <3> QED BY <2>1, <2>2, <2>5, <3>1, <3>2 DEF KindOK
  <2>6. CASE client # Nil /\ k # l
    <3>1. queue'[client][k] = queue[client][k] /\ sub'[client][k] = sub[client][k]
      BY <2>3, <2>6, AnnounceUpdates DEF IInv
    <3>2. Buffer(k)' = Buffer(k) /\ (Live(k)' => Live(k))
      BY <1>1, <3>1 DEF Buffer, Live
    <3> QED BY <1>1, <2>1, <2>2, <2>6, <3>2, KindKept
  <2>7. CASE client # Nil /\ k = l
    <3>1. \/ sub'[client][k] # "live" /\ queue'[client][k] = queue[client][k]
          \/ sub'[client][k] # "live" /\ queue'[client][k] = <<>>
          \/ queue'[client][k] = Append(queue[client][k], n + 1)
      BY <2>3, <2>7, AnnounceUpdates DEF IInv
    <3>2. Buffer(k) = queue[client][k] /\ Buffer(k)' = queue'[client][k]
      BY <1>1, <2>7 DEF Buffer
    <3>3. CASE sub'[client][k] # "live" /\ queue'[client][k] = queue[client][k]
      BY <1>1, <2>5, <2>7, <3>2, <3>3 DEF Live
    <3>4. CASE sub'[client][k] # "live" /\ queue'[client][k] = <<>>
      <4>1. Fresh(<<>>, Received(k), n + 1)
        BY <2>1, <2>2, <2>7, EmptyIsFresh DEF KindOK, Fresh
      <4> QED BY <1>1, <2>1, <2>2, <2>7, <3>2, <3>4, <4>1 DEF KindOK, Live
    <3>5. CASE queue'[client][k] = Append(queue[client][k], n + 1)
      <4>1. Fresh(Append(Buffer(k), n + 1), Received(k), n + 1)
        BY <2>1, <2>2, <2>7, AppendFresh DEF KindOK
      <4>2. Live(k)' => Live(k)
        BY <1>1, <2>3, <2>7, <3>5, AnnounceUpdates DEF Live, IInv, Announce, TypeOK
      <4>3. Range(Append(Buffer(k), n + 1)) = Range(Buffer(k)) \cup {n + 1}
        BY <2>1, <2>2, RangeOfAppend DEF KindOK, Fresh
      <4>4. ((since[k] + 1)..(n + 1)) \subseteq ((since[k] + 1)..n) \cup {n + 1}
        BY <2>2
      <4>5. Live(k) => Covered(since[k], Append(Buffer(k), n + 1), Received(k), n + 1)
        BY <2>1, <2>7, <4>3, <4>4 DEF KindOK, Covered
      <4> QED BY <1>1, <2>1, <2>2, <2>7, <3>2, <3>5, <4>1, <4>2, <4>5 DEF KindOK
    <3> QED BY <3>1, <3>3, <3>4, <3>5
  <2> QED BY <2>4, <2>5, <2>6, <2>7
<1> QED BY <1>1, <1>2 DEF IInv, HandledOnce

LEMMA DisconnectStep ==
  ASSUME IInv, NEW c \in Conns, Disconnect(c)
  PROVE  (\A k \in Kinds : KindOK(k)') /\ HandledOnce'
<1>1. UNCHANGED <<pc, client, onTx, onHead, blocks, txs, queue, announced, since>>
  BY DEF Disconnect, recordVars
<1>2. ASSUME NEW k \in Kinds PROVE KindOK(k)'
  <2>1. Buffer(k)' = Buffer(k) /\ Received(k)' = Received(k)
    BY <1>1 DEF Buffer, Received
  <2>2. Live(k)' => Live(k)
    BY <1>1 DEF Live, Disconnect, IInv, TypeOK
  <2> QED BY <1>1, <2>1, <2>2, KindKept DEF IInv
<1> QED BY <1>1, <1>2 DEF IInv, HandledOnce

LEMMA InvStep ==
  ASSUME IInv, [Next]_vars
  PROVE  IInv'
<1>1. TypeOK'
  BY TypeStep DEF IInv
<1>2. (\A k \in Kinds : KindOK(k)') /\ HandledOnce'
  <2>1. CASE \E c \in Conns : DialSucceeds(c)
    BY <2>1, DialStep
  <2>2. CASE Moves
    BY <2>2, MoveStep
  <2>3. CASE SubscribeHeads
    BY <2>3, KindsAre, ClientThere, SubscribeStep DEF SubscribeHeads, GoTo, IInv
  <2>4. CASE SubscribeTxs
    BY <2>4, KindsAre, ClientThere, SubscribeStep DEF SubscribeTxs, GoTo, IInv
  <2>5. CASE ReceiveHead
    BY <2>5, ReceiveHeadStep
  <2>6. CASE ReceiveTx
    BY <2>6, ReceiveTxStep
  <2>7. CASE OnNewPendingTx
    BY <2>7, OnNewPendingTxStep
  <2>8. CASE \E h \in onHead : OnNewHead(h)
    BY <2>8, OnNewHeadStep
  <2>9. CASE Node
    BY <2>9, AnnounceStep, DisconnectStep DEF Node
  <2>10. CASE UNCHANGED vars
    <3>1. UNCHANGED <<pc, client, onTx, onHead, blocks, txs, sub, queue, announced, since>>
      BY <2>10 DEF vars, recordVars, connVars
    <3>2. ASSUME NEW k \in Kinds PROVE KindOK(k)'
      <4>1. Buffer(k)' = Buffer(k) /\ Received(k)' = Received(k) /\ (Live(k)' => Live(k))
        BY <3>1 DEF Buffer, Received, Live
      <4> QED BY <3>1, <4>1, KindKept DEF IInv
    <3> QED BY <3>1, <3>2 DEF IInv, HandledOnce
  <2> QED
    BY <2>1, <2>2, <2>3, <2>4, <2>5, <2>6, <2>7, <2>8, <2>9, <2>10
    DEF Next, Listen, Handle, Stopped, Moves
<1> QED BY <1>1, <1>2 DEF IInv

LEMMA Invariant == Spec => []IInv
BY InvInit, InvStep, PTL DEF Spec

LEMMA InvCovers == IInv => NothingMissedWhileListening
BY DEF IInv, KindOK, Live, Buffer, Covered, NothingMissedWhileListening

(* Whatever a subscription of the current client has been told of since it *)
(* was made is in its buffer, being handled, or recorded.                  *)
THEOREM NothingMissed == Spec => []NothingMissedWhileListening
BY Invariant, InvCovers, PTL

-----------------------------------------------------------------------------
(* What steps may not do.                                                  *)
LEMMA OrderStep ==
  ASSUME IInv, [Next]_vars
  PROVE  \A h \in onHead' \ onHead : \A g \in onHead \cup Range(blocks) : g < h
<1>1. CASE ReceiveHead
  <2>1. onHead' = onHead \cup {Head(queue[client][EventNewHeads])}
    BY <1>1 DEF ReceiveHead
  <2> QED BY <1>1, <2>1, ReceiveHeadStep
<1>2. CASE ~ReceiveHead
  <2>1. onHead' \subseteq onHead
    <3> USE DEF recordVars
    <3>1. CASE \E c \in Conns : DialSucceeds(c)
      BY <3>1 DEF DialSucceeds
    <3>2. CASE Moves
      BY <3>2, MovesChange DEF IInv
    <3>3. CASE SubscribeHeads \/ SubscribeTxs
      BY <3>3 DEF SubscribeHeads, SubscribeTxs, EthSubscribe
    <3>4. CASE ReceiveTx \/ OnNewPendingTx
      BY <3>4 DEF ReceiveTx, OnNewPendingTx
    <3>5. CASE \E h \in onHead : OnNewHead(h)
      BY <3>5 DEF OnNewHead
    <3>6. CASE Node
      BY <3>6 DEF Node, Announce, Disconnect
    <3>7. CASE UNCHANGED vars
      BY <3>7 DEF vars
    <3> QED
      BY <1>2, <3>1, <3>2, <3>3, <3>4, <3>5, <3>6, <3>7 DEF Next, Listen, Handle, Stopped, Moves
  <2> QED BY <2>1
<1> QED BY <1>1, <1>2

(* The heads come out of the channel in the order of their announcement,   *)
(* whatever restarts are between them.                                     *)
THEOREM HeadsInOrder == Spec => HeadsReceivedInOrder
<1>1. IInv /\ [Next]_vars
        => [\A h \in onHead' \ onHead : \A g \in onHead \cup Range(blocks) : g < h]_vars
  BY OrderStep
<1> QED BY <1>1, Invariant, PTL DEF Spec, HeadsReceivedInOrder

LEMMA SameRange ==
  ASSUME NEW f
  PROVE  Record!Range(f) = Range(f)
BY DEF Record!Range, Range

LEMMA RecordInit == Init => Record!Init
BY DEF Init, Record!Init, Record!Kinds, Kinds

LEMMA RecordStep ==
  ASSUME IInv, [Next]_vars
  PROVE  [Record!Next]_(Record!vars)
<1> USE DEF recordVars
<1>1. ASSUME NEW h \in onHead, OnNewHead(h) PROVE Record!Next
  <2>1. h \in 1..announced[EventNewHeads]
    BY KindsAre DEF IInv, KindOK, Fresh, Received
  <2>2. h \notin Range(blocks)
    BY DEF IInv, HandledOnce
  <2>3. Record!RecordBlock(h)
    BY <1>1, <2>2, SameRange DEF OnNewHead, Record!RecordBlock
  <2> QED BY <2>1, <2>3 DEF Record!Next
<1>2. CASE OnNewPendingTx
  <2>1. pc = "onTx"
    BY <1>2 DEF OnNewPendingTx, GoTo
  <2>2. onTx \in 1..announced[EventNewPendingTx]
    BY <2>1, KindsAre DEF IInv, KindOK, Fresh, Received
  <2>3. \A t \in Range(txs) : t < onTx
    BY <2>1 DEF IInv, HandledOnce
  <2>4. Record!RecordTx(onTx)
    BY <1>2, <2>3, SameRange DEF OnNewPendingTx, Record!RecordTx
  <2> QED BY <2>2, <2>4 DEF Record!Next
<1>3. ASSUME NEW k \in Kinds, Announce(k) PROVE Record!Next
  <2>1. Record!Announce(k)
    BY <1>3 DEF Announce, Record!Announce
  <2> QED BY <2>1 DEF Record!Next, Record!Kinds, Kinds
<1>4. CASE \E c \in Conns : DialSucceeds(c) \/ Disconnect(c)
  BY <1>4 DEF DialSucceeds, Disconnect, Record!vars
<1>5. CASE Moves
  BY <1>5, MovesChange DEF IInv, Record!vars
<1>6. CASE SubscribeHeads \/ SubscribeTxs
  BY <1>6 DEF SubscribeHeads, SubscribeTxs, EthSubscribe, Record!vars
<1>7. CASE ReceiveHead \/ ReceiveTx
  BY <1>7 DEF ReceiveHead, ReceiveTx, Record!vars
<1>8. CASE UNCHANGED vars
  BY <1>8 DEF vars, Record!vars
<1> QED
  BY <1>1, <1>2, <1>3, <1>4, <1>5, <1>6, <1>7, <1>8 DEF Next, Listen, Handle, Node, Stopped, Moves

(* The two files hold what EventRecord promises: announced events only,    *)
(* none of them twice, and the pending transactions in order.              *)
THEOREM ListenerImplementsRecord == Spec => ImplementsRecord
BY RecordInit, RecordStep, Invariant, PTL DEF Spec, ImplementsRecord, Record!Spec
=============================================================================
