------------------------------ MODULE UartRing ------------------------------
(***************************************************************************)
(* The UART receive ring buffer of the bootloader (Adelino.c): the USART1  *)
(* receive interrupt is the producer, the main program drains the buffer   *)
(* one byte at a time and empties it in two different ways.                *)
(*                                                                         *)
(* The interrupt handler runs with interrupts disabled, so it is one step. *)
(* The main program is interrupted between any two of its accesses to the  *)
(* shared variables, so each access is a step.  buffer and buffer_out are  *)
(* not volatile: in `ch = buffer [buffer_out++]' the compiler may store    *)
(* the new buffer_out before or after it loads the byte, and in            *)
(* `buffer_in = buffer_out = 0' it may make the two stores in either       *)
(* order.  Both orders are steps of the model.                             *)
(***************************************************************************)
EXTENDS Naturals, Sequences

CONSTANTS
    N,      \* slots of the buffer: 256 in the code
    Byte,   \* the values a received byte can have
    b0      \* the content of buffer after a reset (zero: it is in .bss)

ASSUME NAssumption == N \in Nat /\ N >= 2
ASSUME ByteAssumption == b0 \in Byte

VARIABLES
    buffer,
    buffer_in,
    buffer_out,
    pc,         \* where the main program is, in its use of the buffer
    slot,       \* the index being loaded (buffer_out before the increment)
    ch          \* the byte loaded

vars == <<buffer, buffer_in, buffer_out, pc, slot, ch>>

Idx == 0 .. N - 1

Mut_NoWrap(i) == i + 1

\* uint8_t arithmetic: indexes wrap from N - 1 to 0.
Succ(i) == IF i = N - 1 THEN 0 ELSE i + 1

PC == {"idle", "take", "advance", "load", "taken",
       "store_in", "store_out",
       "esp_boot", "esp_first", "esp_wait", "esp_zero"}

Init ==
    /\ buffer = [i \in Idx |-> b0]
    /\ buffer_in = 0
    /\ buffer_out = 0
    /\ pc = "idle"
    /\ slot = 0
    /\ ch = b0

-----------------------------------------------------------------------------
(* The producer *)

Mut_FullEarly == Succ(Succ(buffer_in)) = buffer_out

Full == Succ(buffer_in) = buffer_out

Mut_NoFullTest(b) ==
    /\ buffer' = [buffer EXCEPT ![buffer_in] = b]
    /\ buffer_in' = Succ(buffer_in)
    /\ UNCHANGED <<buffer_out, pc, slot, ch>>

USART1_RX(b) ==
    /\ IF Full
       THEN UNCHANGED <<buffer, buffer_in>>
       ELSE /\ buffer' = [buffer EXCEPT ![buffer_in] = b]
            /\ buffer_in' = Succ(buffer_in)
    /\ UNCHANGED <<buffer_out, pc, slot, ch>>

-----------------------------------------------------------------------------
(* The consumer: `if/while (buffer_in != buffer_out) ch = buffer [buffer_out++]' *)

TestNotEmpty ==
    /\ pc = "idle"
    /\ buffer_in # buffer_out
    /\ pc' = "take"
    /\ UNCHANGED <<buffer, buffer_in, buffer_out, slot, ch>>

LoadFirst ==
    /\ pc = "take"
    /\ ch' = buffer[buffer_out]
    /\ pc' = "advance"
    /\ UNCHANGED <<buffer, buffer_in, buffer_out, slot>>

ThenAdvance ==
    /\ pc = "advance"
    /\ buffer_out' = Succ(buffer_out)
    /\ pc' = "taken"
    /\ UNCHANGED <<buffer, buffer_in, slot, ch>>

AdvanceFirst ==
    /\ pc = "take"
    /\ slot' = buffer_out
    /\ buffer_out' = Succ(buffer_out)
    /\ pc' = "load"
    /\ UNCHANGED <<buffer, buffer_in, ch>>

ThenLoad ==
    /\ pc = "load"
    /\ ch' = buffer[slot]
    /\ pc' = "taken"
    /\ UNCHANGED <<buffer, buffer_in, buffer_out, slot>>

\* usb_write_byte (ch)
PassOn ==
    /\ pc = "taken"
    /\ pc' = "idle"
    /\ UNCHANGED <<buffer, buffer_in, buffer_out, slot, ch>>

-----------------------------------------------------------------------------
(* The end of reset_esp_and_wait: `buffer_in = buffer_out = 0' *)

ClearOutFirst ==
    /\ pc = "idle"
    /\ buffer_out' = 0
    /\ pc' = "store_in"
    /\ UNCHANGED <<buffer, buffer_in, slot, ch>>

ThenClearIn ==
    /\ pc = "store_in"
    /\ buffer_in' = 0
    /\ pc' = "idle"
    /\ UNCHANGED <<buffer, buffer_out, slot, ch>>

ClearInFirst ==
    /\ pc = "idle"
    /\ buffer_in' = 0
    /\ pc' = "store_out"
    /\ UNCHANGED <<buffer, buffer_out, slot, ch>>

ThenClearOut ==
    /\ pc = "store_out"
    /\ buffer_out' = 0
    /\ pc' = "idle"
    /\ UNCHANGED <<buffer, buffer_in, slot, ch>>

-----------------------------------------------------------------------------
(* The start of ESP8266_programmer: buffer_out is zeroed, the ESP8266 is   *)
(* reset, and buffer_in is zeroed whenever a byte has come in, until the   *)
(* ESP8266 has been silent for USB_COMM_TIMEOUT.  The wait starts with     *)
(* Timeout = 60 ticks, so its first test always happens.                   *)

EspStart ==
    /\ pc = "idle"
    /\ buffer_out' = 0
    /\ pc' = "esp_boot"
    /\ UNCHANGED <<buffer, buffer_in, slot, ch>>

EspFirstTest ==
    /\ pc = "esp_boot"
    /\ pc' = IF buffer_in # 0 THEN "esp_first" ELSE "esp_wait"
    /\ UNCHANGED <<buffer, buffer_in, buffer_out, slot, ch>>

EspFirstZero ==
    /\ pc = "esp_first"
    /\ buffer_in' = 0
    /\ pc' = "esp_wait"
    /\ UNCHANGED <<buffer, buffer_out, slot, ch>>

EspTest ==
    /\ pc = "esp_wait"
    /\ buffer_in # 0
    /\ pc' = "esp_zero"
    /\ UNCHANGED <<buffer, buffer_in, buffer_out, slot, ch>>

EspZero ==
    /\ pc = "esp_zero"
    /\ buffer_in' = 0
    /\ pc' = "esp_wait"
    /\ UNCHANGED <<buffer, buffer_out, slot, ch>>

\* Timeout reached zero: the bridge loop starts.
EspReady ==
    /\ pc = "esp_wait"
    /\ pc' = "idle"
    /\ UNCHANGED <<buffer, buffer_in, buffer_out, slot, ch>>

-----------------------------------------------------------------------------

Main ==
    \/ TestNotEmpty \/ LoadFirst \/ ThenAdvance \/ AdvanceFirst \/ ThenLoad
    \/ PassOn
    \/ ClearOutFirst \/ ThenClearIn \/ ClearInFirst \/ ThenClearOut
    \/ EspStart \/ EspFirstTest \/ EspFirstZero
    \/ EspTest \/ EspZero \/ EspReady

Next == (\E b \in Byte : USART1_RX(b)) \/ Main

Spec == Init /\ [][Next]_vars

-----------------------------------------------------------------------------
(* Properties *)

TypeOK ==
    /\ buffer \in [Idx -> Byte]
    /\ buffer_in \in Idx
    /\ buffer_out \in Idx
    /\ pc \in PC
    /\ slot \in Idx
    /\ ch \in Byte

\* The bytes of a buffer between two indexes, oldest first.
Wrap(i) == IF i >= N THEN i - N ELSE i

Count(from, to) == IF from <= to THEN to - from ELSE to + N - from

Bytes(buf, from, to) ==
    [i \in 1 .. Count(from, to) |-> buf[Wrap(from + i - 1)]]

(* What the buffer means to the rest of the program.  While it is being    *)
(* emptied the bytes that will survive are the ones stored since buffer_in *)
(* was zeroed.                                                             *)
Queue ==
    CASE pc \in {"store_in", "esp_boot", "esp_first"} -> <<>>
      [] pc = "store_out" -> Bytes(buffer, 0, buffer_in)
      [] OTHER -> Bytes(buffer, buffer_out, buffer_in)

Hold ==
    CASE pc = "load" -> <<buffer[slot]>>
      [] pc = "taken" -> <<ch>>
      [] OTHER -> <<>>

Clearing == pc \in {"store_in", "store_out", "esp_boot", "esp_first"}

Fifo == INSTANCE LossyFifo WITH
            Capacity <- N - 1, queue <- Queue, hold <- Hold, clearing <- Clearing

(* The ring buffer implements the lossy FIFO: whatever the interleaving of *)
(* the receive interrupt with the main program, and whichever order the    *)
(* compiler chose for the two accesses of `buffer [buffer_out++]', the     *)
(* main program gets the received bytes in order, without duplicates and   *)
(* without a byte left over from before the buffer was last emptied.       *)
RingIsFifo == Fifo!Spec

(* The receive interrupt ignores a byte only when N - 1 bytes are unread   *)
(* or the main program is emptying the buffer: no byte is lost early.      *)
LosesOnlyWhenFull ==
    Full => Fifo!MayLose
=============================================================================
