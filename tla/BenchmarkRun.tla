----------------------------- MODULE BenchmarkRun -----------------------------
(***************************************************************************)
(* What a run of the engine promises, without its goroutines, channel and  *)
(* wait group: works are issued one after the other, taken in the order    *)
(* they were issued, completed in any order by a bounded number of         *)
(* workers, and the run returns only when nothing issued is left.          *)
(***************************************************************************)
EXTENDS Naturals, FiniteSets

CONSTANTS
  Capacity,    \* works that can be issued and not yet taken
  Parallelism  \* works that can be in progress

VARIABLES
  open,      \* works are still issued
  issued,    \* the number of works issued: 0 .. issued-1
  taken,     \* the number of them that were taken: 0 .. taken-1
  running,   \* those in progress
  returned   \* the run has returned

vars == <<open, issued, taken, running, returned>>

Init ==
  /\ open = TRUE
  /\ issued = 0
  /\ taken = 0
  /\ running = {}
  /\ returned = FALSE

Issue ==
  /\ open /\ issued - taken < Capacity
  /\ issued' = issued + 1
  /\ UNCHANGED <<open, taken, running, returned>>

(* A run issues at least one work.                                         *)
Close ==
  /\ open /\ issued > 0
  /\ open' = FALSE
  /\ UNCHANGED <<issued, taken, running, returned>>

Take ==
  /\ taken < issued
  /\ Cardinality(running) < Parallelism
  /\ taken' = taken + 1
  /\ running' = running \cup {taken}
  /\ UNCHANGED <<open, issued, returned>>

Complete(i) ==
  /\ i \in running
  /\ running' = running \ {i}
  /\ UNCHANGED <<open, issued, taken, returned>>

Return ==
  /\ ~open /\ taken = issued /\ running = {}
  /\ ~returned
  /\ returned' = TRUE
  /\ UNCHANGED <<open, issued, taken, running>>

Next == Issue \/ Close \/ Take \/ Return \/ \E i \in running : Complete(i)

Spec == Init /\ [][Next]_vars
=============================================================================
