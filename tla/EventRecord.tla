------------------------------ MODULE EventRecord ------------------------------
(***************************************************************************)
(* What the reporter of cmd/reporter promises of its two files, without    *)
(* connections, subscriptions and goroutines: a line stands for an event   *)
(* that the node has announced, no event has two lines, and the pending    *)
(* transactions are in the order of their announcement.  Events may be     *)
(* missing, and blocks may be out of order.                                *)
(***************************************************************************)
EXTENDS Naturals, Sequences, Functions

CONSTANTS EventNewHeads, EventNewPendingTx

VARIABLES
  announced,  \* the number of events of each kind: they are 1 .. announced[k]
  blocks,     \* the lines of blocks.txt
  txs         \* the lines of txs.txt

vars == <<announced, blocks, txs>>

Kinds == {EventNewHeads, EventNewPendingTx}

Init ==
  /\ announced = [k \in Kinds |-> 0]
  /\ blocks = <<>> /\ txs = <<>>

Announce(k) ==
  /\ announced' = [announced EXCEPT ![k] = @ + 1]
  /\ UNCHANGED <<blocks, txs>>

RecordBlock(h) ==
  /\ h \notin Range(blocks)
  /\ blocks' = Append(blocks, h)
  /\ UNCHANGED <<announced, txs>>

RecordTx(t) ==
  /\ \A s \in Range(txs) : s < t
  /\ txs' = Append(txs, t)
  /\ UNCHANGED <<announced, blocks>>

Next ==
  \/ \E k \in Kinds : Announce(k)
  \/ \E h \in 1..announced[EventNewHeads] : RecordBlock(h)
  \/ \E t \in 1..announced[EventNewPendingTx] : RecordTx(t)

Spec == Init /\ [][Next]_vars
=============================================================================
