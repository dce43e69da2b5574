----------------------------- MODULE MCTransferEth -----------------------------
(* Two workers whose accounts have up to two transactions from earlier     *)
(* runs with the node, mined or held, also behind a gap; the workers use   *)
(* the nonces below four.                                                  *)
EXTENDS TransferEth

CONSTANTS a1, a2

MCWorkers == {a1, a2}
=============================================================================
