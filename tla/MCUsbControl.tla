--------------------------- MODULE MCUsbControl ---------------------------
(* UsbControl with packets of two bytes: a descriptor of one packet, that  *)
(* an empty one follows, and a line encoding of two packets, of which the  *)
(* host asks for all, or for one byte less.                                *)
EXTENDS UsbControl

MCLengths == {3, 4}
=============================================================================
