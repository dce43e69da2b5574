------------------------------- MODULE MCEngine -------------------------------
(* Small instances of the engine.  A queue that fills makes the producer   *)
(* block; the workers are fewer than the works, so that a worker takes     *)
(* several and the last ones are drained after the deadline.               *)
EXTENDS Engine
=============================================================================
