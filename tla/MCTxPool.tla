------------------------------- MODULE MCTxPool -------------------------------
(* Two calls of SendTransaction, a chain of up to two blocks and one       *)
(* replacement of its last block: a transaction can be mined, taken back   *)
(* and mined again while heads are on their way and a block is dispatched. *)
EXTENDS TxPool

CONSTANTS t1, t2

MCTxs == {t1, t2}
=============================================================================
