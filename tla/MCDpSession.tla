---------------------------- MODULE MCDpSession ----------------------------
(* Small instances of DpSession for TLC.                                    *)
EXTENDS DpSession, TLC

\* Connections and signals are interchangeable.
Interchangeable == Permutations(Conn) \cup Permutations(Signal)
=============================================================================
