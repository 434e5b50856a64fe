---------------------------- MODULE MCEventThread ----------------------------
(* Small instances of EventThread for TLC.                                 *)
EXTENDS EventThread, TLC

Symmetry == Permutations(Thread)
=============================================================================
