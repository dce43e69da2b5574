--------------------------- MODULE MCTransferSystem ---------------------------
(* Two workers; one has two works, the other one.                          *)
EXTENDS TransferSystem

CONSTANTS a1, a2

MCWorkers == {a1, a2}
MCTxs == {<<a1, 0>>, <<a1, 1>>, <<a2, 0>>}
=============================================================================
