---------------------------- MODULE MCDpClient ----------------------------
(* Instances of DpClient.  The calls, signals and threads are few: a race *)
(* takes two calls, one after the other or side by side.                  *)
EXTENDS DpClient, TLC

\* Threads and signals are interchangeable: for the runs of invariants only.
Symmetry == Permutations(Thread) \cup Permutations(Signal)
===========================================================================
