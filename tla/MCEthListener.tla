----------------------------- MODULE MCEthListener -----------------------------
(* Two connections, so that one can be given up while it is still open,    *)
(* buffers of one event, which overflow, and two events in all, the fewest *)
(* for an overflow and for one event to wait in a subscription given up    *)
(* while the next is received by its successor.                            *)
EXTENDS EthListener

CONSTANTS c1, c2

MCConns == {c1, c2}
=============================================================================
