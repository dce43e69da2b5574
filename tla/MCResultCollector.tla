-------------------------- MODULE MCResultCollector --------------------------
(* The collector with a reporter: two works whose durations fall in one    *)
(* bucket or in two, so that a report has several points and is cut short  *)
(* between them, and one of which may be 0, the sentinel of MinLatency.    *)
EXTENDS ResultCollector

CONSTANTS w1, w2

MCWorks == {w1, w2}
=============================================================================
