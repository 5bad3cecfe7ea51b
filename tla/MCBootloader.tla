---------------------------- MODULE MCBootloader ----------------------------
(* Bootloader with intervals of one or two ticks and blocks of at most     *)
(* two bytes: a timeout can fall before, between and after the bytes of    *)
(* every command, and a stage of the button chain can end early or late.   *)
EXTENDS Bootloader

MCHoldTicks == [s \in HoldStage |-> 2]
=============================================================================
