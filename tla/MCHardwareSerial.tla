-------------------------- MODULE MCHardwareSerial --------------------------
(* HardwareSerial with a buffer of a few bytes. *)
EXTENDS HardwareSerial
=============================================================================
