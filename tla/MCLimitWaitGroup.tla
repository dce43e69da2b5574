-------------------------- MODULE MCLimitWaitGroup --------------------------
(* Three units compete for the two slots of a LimitWaitGroup: one more     *)
(* than fits, so that a send to occupiedCh blocks and Done overlaps Add.   *)
EXTENDS LimitWaitGroup

CONSTANTS u1, u2, u3

MCUnits == {u1, u2, u3}
=============================================================================
