---------------------------- MODULE MCEspBridge ----------------------------
(* EspBridge with banks and a ring of two bytes: packets are full, short   *)
(* and empty, and waits end with the host, with Timeout and with the cable.*)
EXTENDS EspBridge

MCEnds == {2}
=============================================================================
