------------------------------- MODULE MCKvdb -------------------------------
(* Small instances of Kvdb for TLC.                                         *)
EXTENDS Kvdb, TLC

CONSTANTS v1, v2

MCValue == {v1, v2}
MCValid == {v1}
=============================================================================
