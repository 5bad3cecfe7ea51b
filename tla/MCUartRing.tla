----------------------------- MODULE MCUartRing -----------------------------
(* UartRing with a four-slot buffer and two byte values: the indexes wrap  *)
(* and the buffer fills up (three unread bytes) in a few steps.            *)
EXTENDS UartRing

MCByte == {0, 1}
=============================================================================
