-------------------------- MODULE MCBenchmarkSystem --------------------------
(* The engine with its collector and a reporter: one worker and up to two  *)
(* works, so that the goroutines of two works, the monitor and main's      *)
(* return meet in every order, with both mutexes held for ever or not.     *)
EXTENDS BenchmarkSystem
=============================================================================
