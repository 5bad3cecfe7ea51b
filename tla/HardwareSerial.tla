--------------------------- MODULE HardwareSerial ---------------------------
(***************************************************************************)
(* The transmitter of HardwareSerial, the class of the Arduino core with   *)
(* which a sketch writes to the ESP8266 (Serial1): write, flush,           *)
(* availableForWrite, begin and end against the interrupt handler          *)
(* _tx_udr_empty_irq and the UART itself.                                  *)
(*                                                                         *)
(* Bytes are numbered in the order in which the sketch writes them, from   *)
(* 1; 0 is no byte.  A sketch may call with interrupts disabled.  Every    *)
(* access of write and flush to state that the handler or the UART changes *)
(* is a step.  begin () may be called again on an open port; what a new    *)
(* baud rate does to the byte on the wire is left out.  The sketch writes  *)
(* to open ports only.  The receiver is the ring of UartRing over again.   *)
(***************************************************************************)
EXTENDS Naturals

CONSTANTS N,            \* SERIAL_TX_BUFFER_SIZE
          MaxWrites     \* bound on the number of bytes written

ASSUME NAssumption == N \in Nat \ {0, 1}
ASSUME WritesAssumption == MaxWrites \in Nat

VARIABLES
    pc,         \* where the sketch is in a call, "idle" or "closed"
    I,          \* SREG_I: interrupts are enabled
    _tx_buffer, _tx_buffer_head, _tx_buffer_tail, _written,
    UDRIE,      \* data register empty interrupt enabled
    TXC,        \* transmit complete
    udr, shift, \* bytes in the data register and on the wire
    wire,       \* the last byte that left
    count,      \* the last byte the sketch wrote
    free,       \* what remains of the last answer of availableForWrite
    cut         \* history: begin () found bytes unsent, and no write has
                \* returned since

ring == <<_tx_buffer, _tx_buffer_head, _tx_buffer_tail>>
uart == <<TXC, udr, shift, wire>>
vars == <<pc, I, ring, _written, UDRIE, uart, count, free, cut>>

Init ==
    /\ pc = "closed" /\ I = TRUE
    /\ _tx_buffer = [i \in 0 .. N - 1 |-> 0]
    /\ _tx_buffer_head = 0 /\ _tx_buffer_tail = 0 /\ _written = FALSE
    /\ UDRIE = FALSE /\ TXC = FALSE
    /\ udr = 0 /\ shift = 0 /\ wire = 0 /\ count = 0 /\ free = 0
    /\ cut = FALSE

Mut_NoWrap(i) == i + 1

Succ(i) == (i + 1) % N

Goto(from, to) == pc = from /\ pc' = to

Mut_NotClear == pc = "enable"

\* Inside an ATOMIC_BLOCK, between its two accesses.
Atomic == pc \in {"clear", "enable"}

-----------------------------------------------------------------------------
(* The UART and the interrupt handler *)

Mut_TxcStays ==
    /\ udr' = _tx_buffer[_tx_buffer_tail]
    /\ _tx_buffer_tail' = Succ(_tx_buffer_tail)
    /\ UDRIE' = (UDRIE /\ _tx_buffer_head # Succ(_tx_buffer_tail))
    /\ UNCHANGED <<I, _tx_buffer, _tx_buffer_head, _written, TXC, shift, wire, count, free,
                   cut>>

\* No byte leaves between the store to UDR and the end of the handler.
_tx_udr_empty_irq ==
    /\ udr' = _tx_buffer[_tx_buffer_tail]
    /\ _tx_buffer_tail' = Succ(_tx_buffer_tail)
    /\ TXC' = FALSE
    /\ UDRIE' = (UDRIE /\ _tx_buffer_head # Succ(_tx_buffer_tail))
    /\ UNCHANGED <<I, _tx_buffer, _tx_buffer_head, _written, shift, wire, count, free,
                   cut>>

UDRE_vect ==
    /\ I /\ ~Atomic /\ UDRIE /\ udr = 0
    /\ _tx_udr_empty_irq
    /\ UNCHANGED pc

ShiftLoads ==
    /\ udr # 0 /\ shift = 0
    /\ shift' = udr /\ udr' = 0
    /\ UNCHANGED <<pc, I, ring, _written, UDRIE, TXC, wire, count, free, cut>>

\* A byte takes longer than an ATOMIC_BLOCK, so the one stored in the block
\* cannot leave before its end.
ByteLeaves ==
    /\ shift # 0 /\ ~(Atomic /\ shift = count)
    /\ wire' = shift
    /\ shift' = udr /\ udr' = 0
    /\ TXC' = (TXC \/ udr = 0)
    /\ UNCHANGED <<pc, I, ring, _written, UDRIE, count, free, cut>>

-----------------------------------------------------------------------------
(* write *)

Mut_Overtakes ==
    /\ count < MaxWrites
    /\ Goto("idle", "udre")
    /\ count' = count + 1
    /\ _written' = TRUE
    /\ UNCHANGED <<I, ring, UDRIE, uart, free, cut>>

WriteBegin ==
    /\ count < MaxWrites
    /\ Goto("idle", IF _tx_buffer_head = _tx_buffer_tail THEN "udre" ELSE "room")
    /\ count' = count + 1
    /\ _written' = TRUE
    /\ UNCHANGED <<I, ring, UDRIE, uart, free, cut>>

WriteTestsUdre ==
    /\ Goto("udre", IF udr = 0 THEN "store" ELSE "room")
    /\ UNCHANGED <<I, ring, _written, UDRIE, uart, count, free, cut>>

LessOne == free' = IF free = 0 THEN 0 ELSE free - 1

WriteStores ==
    /\ Goto("store", "clear")
    /\ udr' = count
    /\ LessOne
    /\ UNCHANGED <<I, ring, _written, UDRIE, TXC, shift, wire, count, cut>>

WriteClearsTxc ==
    /\ Goto("clear", "idle")
    /\ TXC' = FALSE
    /\ cut' = FALSE
    /\ UNCHANGED <<I, ring, _written, UDRIE, udr, shift, wire, count, free>>

HasRoom == Succ(_tx_buffer_head) # _tx_buffer_tail

WriteWaits ==
    /\ pc = "room" /\ ~HasRoom
    /\ ~I /\ udr = 0
    /\ _tx_udr_empty_irq
    /\ UNCHANGED pc

WriteFindsRoom ==
    /\ HasRoom
    /\ Goto("room", "fill")
    /\ UNCHANGED <<I, ring, _written, UDRIE, uart, count, free, cut>>

WriteFills ==
    /\ Goto("fill", "advance")
    /\ _tx_buffer' = [_tx_buffer EXCEPT ![_tx_buffer_head] = count]
    /\ UNCHANGED <<I, _tx_buffer_head, _tx_buffer_tail, _written, UDRIE, uart, count, free,
                   cut>>

WriteAdvances ==
    /\ Goto("advance", "enable")
    /\ _tx_buffer_head' = Succ(_tx_buffer_head)
    /\ LessOne
    /\ UNCHANGED <<I, _tx_buffer, _tx_buffer_tail, _written, UDRIE, uart, count, cut>>

WriteEnables ==
    /\ Goto("enable", "idle")
    /\ UDRIE' = TRUE
    /\ cut' = FALSE
    /\ UNCHANGED <<I, ring, _written, uart, count, free>>

-----------------------------------------------------------------------------
(* flush, end, begin, availableForWrite *)

FlushBegin ==
    /\ Goto("idle", IF _written THEN "flush" ELSE "flushed")
    /\ UNCHANGED <<I, ring, _written, UDRIE, uart, count, free, cut>>

FlushTestsUdrie ==
    /\ ~UDRIE
    /\ Goto("flush", "txc")
    /\ UNCHANGED <<I, ring, _written, UDRIE, uart, count, free, cut>>

FlushWaits ==
    /\ pc = "flush" /\ UDRIE
    /\ ~I /\ udr = 0
    /\ _tx_udr_empty_irq
    /\ UNCHANGED pc

FlushTestsTxc ==
    /\ Goto("txc", IF TXC THEN "flushed" ELSE "flush")
    /\ UNCHANGED <<I, ring, _written, UDRIE, uart, count, free, cut>>

FlushReturns ==
    /\ Goto("flushed", "idle")
    /\ UNCHANGED <<I, ring, _written, UDRIE, uart, count, free, cut>>

\* end () goes on after its flush ().
End ==
    /\ Goto("flushed", "closed")
    /\ UDRIE' = FALSE
    /\ UNCHANGED <<I, ring, _written, uart, count, free, cut>>

\* begin () looks neither at the buffer nor at the state of the port.
Begin ==
    /\ pc \in {"closed", "idle"} /\ pc' = "idle"
    /\ _written' = FALSE /\ UDRIE' = FALSE
    /\ cut' = (wire # count)
    /\ UNCHANGED <<I, ring, uart, count, free>>

Mut_AvailableForWrite ==
    /\ pc = "idle"
    /\ free' = IF _tx_buffer_head >= _tx_buffer_tail
               THEN ((N - 1) - _tx_buffer_head) + _tx_buffer_tail
               ELSE _tx_buffer_tail - _tx_buffer_head
    /\ UNCHANGED <<pc, I, ring, _written, UDRIE, uart, count, cut>>

\* Only the sketch changes the head, so the two reads act as one, at the
\* time of the second.
AvailableForWrite ==
    /\ pc = "idle"
    /\ free' = IF _tx_buffer_head >= _tx_buffer_tail
               THEN ((N - 1) - _tx_buffer_head) + _tx_buffer_tail
               ELSE (_tx_buffer_tail - _tx_buffer_head) - 1
    /\ UNCHANGED <<pc, I, ring, _written, UDRIE, uart, count, cut>>

\* interrupts () and noInterrupts () of the sketch.
SwitchInterrupts ==
    /\ pc = "idle"
    /\ I' = ~I
    /\ UNCHANGED <<pc, ring, _written, UDRIE, uart, count, free, cut>>

-----------------------------------------------------------------------------
Call ==
    \/ WriteTestsUdre \/ WriteStores \/ WriteClearsTxc \/ WriteWaits
    \/ WriteFindsRoom \/ WriteFills \/ WriteAdvances \/ WriteEnables
    \/ FlushTestsUdrie \/ FlushWaits \/ FlushTestsTxc \/ FlushReturns

Sketch == WriteBegin \/ FlushBegin \/ End \/ Begin \/ AvailableForWrite \/ SwitchInterrupts

Uart == UDRE_vect \/ ShiftLoads \/ ByteLeaves

Next == Call \/ Sketch \/ Uart

Spec == Init /\ [][Next]_vars

\* Calls run, the UART shifts and enabled interrupts are taken; the sketch
\* need not call anything.
FairSpec ==
    /\ Spec
    /\ WF_vars(Call) /\ WF_vars(UDRE_vect) /\ WF_vars(ShiftLoads) /\ WF_vars(ByteLeaves)

-----------------------------------------------------------------------------
(* Properties *)

TypeOK ==
    /\ pc \in {"closed", "idle", "udre", "store", "clear", "room", "fill", "advance",
               "enable", "flush", "txc", "flushed"}
    /\ I \in BOOLEAN /\ _written \in BOOLEAN /\ UDRIE \in BOOLEAN /\ TXC \in BOOLEAN
    /\ _tx_buffer \in [0 .. N - 1 -> 0 .. MaxWrites]
    /\ _tx_buffer_head \in 0 .. N - 1 /\ _tx_buffer_tail \in 0 .. N - 1
    /\ udr \in 0 .. MaxWrites /\ shift \in 0 .. MaxWrites
    /\ wire \in 0 .. MaxWrites /\ count \in 0 .. MaxWrites
    /\ free \in 0 .. N - 1
    /\ cut \in BOOLEAN

(* The bytes leave in the order in which the sketch wrote them, none lost  *)
(* and none twice, whether write stored them in UDR or in the buffer, and  *)
(* whether the handler ran as an interrupt or was called from a wait.      *)
WireInOrder == [][wire' \in {wire, wire + 1}]_vars

(* flush () returns only when every byte written has left, also when it    *)
(* looks at nothing because _written is false; except between a begin ()   *)
(* that found bytes unsent, which forgets them, and the next write ().     *)
FlushMeansSent == pc = "flushed" /\ ~cut => wire = count

(* As many bytes as availableForWrite () answered can be written without   *)
(* waiting for room, however many the handler takes out meanwhile.         *)
FreeIsThere == pc = "room" /\ free > 0 => HasRoom

(* The first write () after a begin () that found the buffer full waits    *)
(* for an interrupt which begin () disabled.                               *)
Stuck == cut /\ pc = "room" /\ ~HasRoom /\ I

(* Every call returns, with interrupts enabled or not; a write () that     *)
(* does not is the first after a begin () that found the buffer full.      *)
CallsReturn == pc \notin {"idle", "closed"} ~> pc \in {"idle", "closed"} \/ Stuck
=============================================================================
