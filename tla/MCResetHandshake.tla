-------------------------- MODULE MCResetHandshake --------------------------
(* ResetHandshake with two values for the sketch's word.                   *)
EXTENDS ResetHandshake

MCWords == {0, 1}
MCWatchdogs == {"off", "own"}
=============================================================================
