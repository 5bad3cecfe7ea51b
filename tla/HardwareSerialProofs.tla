------------------------ MODULE HardwareSerialProofs ------------------------
(***************************************************************************)
(* For every buffer size N >= 2 and every number of writes: the bytes      *)
(* leave in order, flush () means that they have left, and                 *)
(* availableForWrite () keeps its word.                                    *)
(***************************************************************************)
EXTENDS HardwareSerial, Integers, TLAPS

(* A leaf that names no prover is given to SMT, with a minute to answer.   *)
USE SMTT(60)

\* Slots from index a up to index b, round the ring.
Dist(a, b) == IF a <= b THEN b - a ELSE (b - a) + N

Queued == Dist(_tx_buffer_tail, _tx_buffer_head)

\* The last byte handed to the UART.
Base == wire + (IF shift = 0 THEN 0 ELSE 1) + (IF udr = 0 THEN 0 ELSE 1)

Pending == IF pc \in {"udre", "store", "room", "fill", "advance"} THEN 1 ELSE 0

Empty == _tx_buffer_head = _tx_buffer_tail /\ udr = 0 /\ shift = 0

(* Every byte written is accounted for: on the wire, in the UART, in the   *)
(* buffer at its place, or still with write ().                            *)
Order ==
    /\ shift # 0 => shift = wire + 1
    /\ udr # 0 => udr = Base
    /\ \A i \in 0 .. N - 1 : Dist(_tx_buffer_tail, i) < Queued
         => _tx_buffer[i] = Base + Dist(_tx_buffer_tail, i) + 1
    /\ pc = "advance" => _tx_buffer[_tx_buffer_head] = count
    /\ count = Base + Queued + Pending
    /\ free + Queued <= N - 1

(* The interrupt is enabled while there is something in the buffer, and    *)
(* TXC is clear while there is something in the UART, except inside the    *)
(* atomic blocks that establish it.  From a begin () that cuts bytes off   *)
(* up to the next write () the interrupt stays disabled.                   *)
Flags ==
    /\ UDRIE => _tx_buffer_head # _tx_buffer_tail /\ ~cut
    /\ _tx_buffer_head # _tx_buffer_tail /\ pc # "enable" /\ ~cut => UDRIE
    /\ TXC /\ pc # "clear" => shift = 0 /\ udr = 0

(* What write and flush rely on between two of their steps.                *)
Control ==
    /\ pc \in {"udre", "store", "clear"} => _tx_buffer_head = _tx_buffer_tail
    /\ pc = "store" => udr = 0
    /\ pc = "enable" => _tx_buffer_head # _tx_buffer_tail
    /\ pc \in {"fill", "advance"} => HasRoom
    /\ pc \in {"udre", "store", "clear", "room", "fill", "advance", "enable"} => _written
    /\ pc = "txc" => ~UDRIE
    /\ ~cut /\ (pc \in {"flushed", "closed"} \/ ~_written) => Empty

Inv == TypeOK /\ Order /\ Flags /\ Control

-----------------------------------------------------------------------------
(* Index arithmetic *)

(* The index after i, without the remainder of the code.                   *)
LEMMA SuccCases ==
    \A i \in 0 .. N - 1 : Succ(i) = IF i = N - 1 THEN 0 ELSE i + 1
<1> SUFFICES ASSUME NEW i \in 0 .. N - 1
             PROVE  Succ(i) = IF i = N - 1 THEN 0 ELSE i + 1
  OBVIOUS
<1>1. CASE i = N - 1
  BY <1>1, NAssumption DEF Succ
<1>2. CASE i # N - 1
  BY <1>2, NAssumption DEF Succ
<1> QED
  BY <1>1, <1>2

(* Room is one slot that stays free.                                       *)
LEMMA RoomDist ==
    ASSUME TypeOK PROVE HasRoom <=> Queued < N - 1
<1>1. _tx_buffer_tail \in 0 .. N - 1 /\ _tx_buffer_head \in 0 .. N - 1
  BY DEF TypeOK
<1>2. CASE _tx_buffer_head = N - 1
  BY <1>1, <1>2, SuccCases, NAssumption DEF HasRoom, Queued, Dist
<1>3. CASE _tx_buffer_head # N - 1
  BY <1>1, <1>3, SuccCases, NAssumption DEF HasRoom, Queued, Dist
<1> QED
  BY <1>2, <1>3

-----------------------------------------------------------------------------
(* The handler takes the oldest byte of the buffer, as an interrupt or     *)
(* called from a wait.                                                     *)
LEMMA HandlerStep ==
    ASSUME Inv, _tx_udr_empty_irq, UNCHANGED pc, udr = 0, ~Atomic,
           _tx_buffer_head # _tx_buffer_tail, UDRIE \/ pc = "room"
    PROVE  Inv'
<1> USE NAssumption, WritesAssumption
<1>0. /\ pc \notin {"udre", "store", "clear", "enable", "flushed", "closed", "txc"}
      /\ _written
  BY DEF Inv, Control, Flags, Atomic, Empty
<1>a. /\ udr' = _tx_buffer[_tx_buffer_tail] /\ _tx_buffer_tail' = Succ(_tx_buffer_tail)
      /\ _tx_buffer' = _tx_buffer /\ _tx_buffer_head' = _tx_buffer_head
      /\ shift' = shift /\ wire' = wire /\ count' = count /\ free' = free /\ pc' = pc
      /\ cut' = cut
  BY ZenonT(60) DEF _tx_udr_empty_irq
<1>b. TypeOK /\ Order
  BY DEF Inv
<1>c. /\ _tx_buffer_tail \in 0 .. N - 1 /\ _tx_buffer_head \in 0 .. N - 1
      /\ wire \in Nat /\ shift \in Nat /\ udr \in Nat
  BY <1>b DEF TypeOK
<1>d. Dist(_tx_buffer_tail, _tx_buffer_tail) = 0 /\ 0 < Queued /\ Queued \in 1 .. N - 1
  BY <1>c DEF Queued, Dist
<1>1. /\ _tx_buffer_tail' \in 0 .. N - 1
      /\ udr' = Base + 1 /\ udr' \in 1 .. MaxWrites
  <2>1. udr' = Base + 0 + 1
    BY <1>a, <1>b, <1>c, <1>d DEF Order
  <2>2. Base \in Nat /\ udr' \in 0 .. MaxWrites
    BY <1>a, <1>b, <1>c DEF Base, TypeOK
  <2> QED
    BY <1>a, <1>c, <2>1, <2>2, SuccCases
<1>2. TypeOK'
  <2>1. UDRIE' \in BOOLEAN /\ TXC' \in BOOLEAN
    BY ZenonT(60) DEF _tx_udr_empty_irq
  <2> QED
    BY <1>1, <2>1 DEF Inv, TypeOK, _tx_udr_empty_irq
<1>3. Base' = Base + 1 /\ Queued' = Queued - 1
  <2>1. Base' = Base + 1
    BY <1>a, <1>c, <1>1 DEF Base
  <2>2. Queued' = Queued - 1
    BY <1>a, <1>c, SuccCases DEF Queued, Dist
  <2> QED
    BY <2>1, <2>2
<1>4. Order'
  <2>1. \A i \in 0 .. N - 1 : Dist(_tx_buffer_tail', i) < Queued'
          => /\ Dist(_tx_buffer_tail, i) = Dist(_tx_buffer_tail', i) + 1
             /\ Dist(_tx_buffer_tail, i) < Queued
    BY <1>3, <1>a, <1>c, <1>d, SuccCases DEF Queued, Dist
  <2>2. ASSUME NEW i \in 0 .. N - 1, Dist(_tx_buffer_tail', i) < Queued'
        PROVE  _tx_buffer'[i] = Base' + Dist(_tx_buffer_tail', i) + 1
    <3>1. _tx_buffer[i] = Base + Dist(_tx_buffer_tail, i) + 1
      BY <2>1, <2>2, <1>b DEF Order
    <3>2. Base \in Nat /\ Dist(_tx_buffer_tail', i) \in Int
      <4>1. Base \in Nat
        BY <1>c DEF Base
      <4>2. _tx_buffer_tail' \in Int /\ i \in Int /\ N \in Int
        BY <1>1
      <4> QED
        BY <4>1, <4>2 DEF Dist
    <3> QED
      BY <3>1, <3>2, <2>1, <2>2, <1>3, <1>a
  <2>3. Pending' = Pending /\ Pending \in {0, 1}
    BY DEF Pending
  <2>4. count' = Base' + Queued' + Pending' /\ free' + Queued' <= N - 1
    <3>1. Base \in Nat /\ free \in Nat
      BY <1>b, <1>c DEF Base, TypeOK
    <3> QED
      BY <3>1, <1>3, <2>3, <1>a, <1>b, <1>d DEF Order
  <2>5. shift' # 0 => shift' = wire' + 1
    BY <1>a, <1>b DEF Order
  <2>6. pc' = "advance" => _tx_buffer'[_tx_buffer_head'] = count'
    BY <1>a, <1>b DEF Order
  <2>7. udr' # 0 => udr' = Base'
    BY <1>1, <1>3
  <2> QED
    BY <2>2, <2>4, <2>5, <2>6, <2>7 DEF Order
<1>5. Flags'
  <2>1. UDRIE' <=> UDRIE /\ _tx_buffer_head' # _tx_buffer_tail'
    BY ZenonT(60) DEF _tx_udr_empty_irq
  <2>2. ~TXC'
    BY DEF _tx_udr_empty_irq
  <2> QED
    BY <1>a, <2>1, <2>2, ZenonT(60) DEF Inv, Flags, Atomic
<1>6. Control'
  <2>1. HasRoom' \/ ~HasRoom
    BY <1>a, <1>c, SuccCases DEF HasRoom
  <2>2. pc \in {"fill", "advance"} => HasRoom'
    BY <2>1 DEF Inv, Control
  <2>3. _written'
    BY <1>0 DEF _tx_udr_empty_irq
  <2> QED
    BY <1>0, <2>2, <2>3 DEF Control
<1> QED
  BY <1>2, <1>4, <1>5, <1>6 DEF Inv

-----------------------------------------------------------------------------
(* The bytes stay in order when none of them moves.                        *)
LEMMA OrderFrame ==
    ASSUME Order, UNCHANGED <<ring, udr, shift, wire, count, free>>,
           Pending' = Pending, pc' = "advance" => pc = "advance"
    PROVE  Order'
<1>1. /\ _tx_buffer' = _tx_buffer /\ _tx_buffer_head' = _tx_buffer_head
      /\ _tx_buffer_tail' = _tx_buffer_tail
      /\ udr' = udr /\ shift' = shift /\ wire' = wire /\ count' = count /\ free' = free
  BY DEF ring
<1>2. Base' = Base /\ Queued' = Queued
  BY <1>1 DEF Base, Queued, Dist
<1> QED
  BY <1>1, <1>2, ZenonT(60) DEF Order, Dist

(* A byte moves from the data register to the wire.                        *)
LEMMA LoadStep == ASSUME Inv, ShiftLoads PROVE Inv'
<1> USE NAssumption, WritesAssumption
<1>1. /\ udr # 0 /\ shift = 0 /\ shift' = udr /\ udr' = 0
      /\ _tx_buffer' = _tx_buffer /\ _tx_buffer_head' = _tx_buffer_head
      /\ _tx_buffer_tail' = _tx_buffer_tail
      /\ wire' = wire /\ count' = count /\ free' = free /\ pc' = pc
      /\ I' = I /\ _written' = _written /\ UDRIE' = UDRIE /\ TXC' = TXC /\ cut' = cut
  BY DEF ShiftLoads, ring
<1>2. TypeOK /\ Order /\ Flags /\ Control
  BY DEF Inv
<1>3. /\ wire \in Nat /\ udr = wire + 1 /\ pc # "store"
      /\ cut \/ (pc \notin {"flushed", "closed"} /\ _written)
  <2>1. wire \in Nat
    BY <1>2 DEF TypeOK
  <2>2. udr = wire + 1
    BY <1>1, <1>2, <2>1 DEF Order, Base
  <2>3. pc # "store" /\ (cut \/ (pc \notin {"flushed", "closed"} /\ _written))
    BY <1>1, <1>2 DEF Control, Empty
  <2> QED
    BY <2>1, <2>2, <2>3
<1>4. Base' = Base /\ Queued' = Queued /\ Pending' = Pending
  BY <1>1, <1>3 DEF Base, Queued, Dist, Pending
<1>5. TypeOK'
  BY <1>1, <1>2 DEF TypeOK
<1>6. Order'
  BY <1>1, <1>2, <1>3, <1>4 DEF Order, Dist
<1>7. Flags'
  BY <1>1, <1>2 DEF Flags
<1>8. Control'
  BY <1>1, <1>2, <1>3 DEF Control, HasRoom, Empty
<1> QED
  BY <1>5, <1>6, <1>7, <1>8 DEF Inv

(* A byte leaves, and the next one in the data register follows.           *)
LEMMA LeaveStep == ASSUME Inv, ByteLeaves PROVE Inv'
<1> USE NAssumption, WritesAssumption
<1>1. /\ shift # 0 /\ ~(Atomic /\ shift = count)
      /\ shift' = udr /\ udr' = 0 /\ wire' = shift
      /\ _tx_buffer' = _tx_buffer /\ _tx_buffer_head' = _tx_buffer_head
      /\ _tx_buffer_tail' = _tx_buffer_tail
      /\ count' = count /\ free' = free /\ pc' = pc
      /\ I' = I /\ _written' = _written /\ UDRIE' = UDRIE /\ cut' = cut
  BY DEF ByteLeaves, ring
<1>2. TypeOK /\ Order /\ Flags /\ Control
  BY DEF Inv
<1>a. wire \in Nat /\ shift \in Nat /\ udr \in Nat /\ shift = wire + 1 /\ (udr # 0 => udr = wire + 2)
  BY <1>1, <1>2 DEF TypeOK, Order, Base
<1>3. cut \/ (pc \notin {"flushed", "closed"} /\ _written)
  BY <1>1, <1>2 DEF Control, Empty
<1>4. Base' = Base /\ Queued' = Queued /\ Pending' = Pending
  BY <1>1, <1>a DEF Base, Queued, Dist, Pending
<1>b. TXC' \in BOOLEAN
  BY ZenonT(60) DEF ByteLeaves
<1>5. TypeOK'
  BY <1>1, <1>2, <1>b DEF TypeOK
<1>6. Order'
  BY <1>1, <1>2, <1>a, <1>4 DEF Order, Dist
<1>7. Flags'
  <2>1. TXC' => pc = "clear" \/ udr = 0
    BY <1>1, <1>2, ZenonT(60) DEF Flags, ByteLeaves
  <2> QED
    BY <1>1, <1>2, <2>1 DEF Flags
<1>8. Control'
  BY <1>1, <1>2, <1>3 DEF Control, HasRoom, Empty
<1> QED
  BY <1>5, <1>6, <1>7, <1>8 DEF Inv

(* write () stores a byte in the empty data register.                      *)
LEMMA StoreStep == ASSUME Inv, WriteStores PROVE Inv'
<1> USE NAssumption, WritesAssumption
<1>1. /\ pc = "store" /\ pc' = "clear" /\ udr' = count
      /\ free' = (IF free = 0 THEN 0 ELSE free - 1)
      /\ _tx_buffer' = _tx_buffer /\ _tx_buffer_head' = _tx_buffer_head
      /\ _tx_buffer_tail' = _tx_buffer_tail
      /\ shift' = shift /\ wire' = wire /\ count' = count
      /\ I' = I /\ _written' = _written /\ UDRIE' = UDRIE /\ TXC' = TXC /\ cut' = cut
  BY DEF WriteStores, LessOne, Goto, ring
<1>2. TypeOK /\ Order /\ Flags /\ Control
  BY DEF Inv
<1>3. udr = 0 /\ _written /\ _tx_buffer_head = _tx_buffer_tail
  BY <1>1, <1>2 DEF Control
<1>4. Queued = 0 /\ Queued' = 0 /\ Pending = 1 /\ Pending' = 0
  BY <1>1, <1>2, <1>3 DEF Queued, Dist, Pending, TypeOK
<1>5. count = Base + 1 /\ Base \in Nat /\ count \in Nat /\ free \in 0 .. N - 1
  BY <1>2, <1>4 DEF Order, Base, TypeOK
<1>6. Base' = Base + 1
  BY <1>1, <1>2, <1>3, <1>5 DEF Base, TypeOK
<1>7. TypeOK'
  BY <1>1, <1>2 DEF TypeOK
<1>8. Order'
  <2>1. \A i \in 0 .. N - 1 : ~(Dist(_tx_buffer_tail', i) < Queued')
    BY <1>1, <1>2, <1>4 DEF Dist, TypeOK
  <2>2. free' + Queued' <= N - 1
    BY <1>1, <1>4, <1>5
  <2> QED
    BY <1>1, <1>2, <1>4, <1>5, <1>6, <2>1, <2>2 DEF Order
<1>9. Flags' /\ Control'
  BY <1>1, <1>2, <1>3 DEF Flags, Control, HasRoom, Empty
<1> QED
  BY <1>7, <1>8, <1>9 DEF Inv

(* write () puts a byte into the slot at the head, which is free.          *)
LEMMA FillStep == ASSUME Inv, WriteFills PROVE Inv'
<1> USE NAssumption, WritesAssumption
<1>1. /\ pc = "fill" /\ pc' = "advance"
      /\ _tx_buffer' = [_tx_buffer EXCEPT ![_tx_buffer_head] = count]
      /\ _tx_buffer_head' = _tx_buffer_head /\ _tx_buffer_tail' = _tx_buffer_tail
      /\ udr' = udr /\ shift' = shift /\ wire' = wire /\ count' = count /\ free' = free
      /\ I' = I /\ _written' = _written /\ UDRIE' = UDRIE /\ TXC' = TXC /\ cut' = cut
  BY DEF WriteFills, Goto, uart
<1>2. TypeOK /\ Order /\ Flags /\ Control
  BY DEF Inv
<1>3. Base' = Base /\ Queued' = Queued /\ Pending' = Pending
  BY <1>1 DEF Base, Queued, Dist, Pending
<1>4. TypeOK'
  BY <1>1, <1>2 DEF TypeOK
<1>5. Order'
  <2>1. \A i \in 0 .. N - 1 : Dist(_tx_buffer_tail, i) < Queued => i # _tx_buffer_head
    BY <1>2 DEF TypeOK, Queued, Dist
  <2>2. \A i \in 0 .. N - 1 : Dist(_tx_buffer_tail', i) < Queued'
          => _tx_buffer'[i] = Base' + Dist(_tx_buffer_tail', i) + 1
    BY <1>1, <1>2, <1>3, <2>1 DEF Order, TypeOK
  <2>3. _tx_buffer'[_tx_buffer_head'] = count'
    BY <1>1, <1>2 DEF TypeOK
  <2> QED
    BY <1>1, <1>2, <1>3, <2>2, <2>3 DEF Order
<1>6. Flags' /\ Control'
  BY <1>1, <1>2 DEF Flags, Control, HasRoom, Empty
<1> QED
  BY <1>4, <1>5, <1>6 DEF Inv

(* write () makes the byte part of the buffer.                             *)
LEMMA AdvanceStep == ASSUME Inv, WriteAdvances PROVE Inv'
<1> USE NAssumption, WritesAssumption
<1>1. /\ pc = "advance" /\ pc' = "enable"
      /\ _tx_buffer_head' = Succ(_tx_buffer_head)
      /\ free' = (IF free = 0 THEN 0 ELSE free - 1)
      /\ _tx_buffer' = _tx_buffer /\ _tx_buffer_tail' = _tx_buffer_tail
      /\ udr' = udr /\ shift' = shift /\ wire' = wire /\ count' = count
      /\ I' = I /\ _written' = _written /\ UDRIE' = UDRIE /\ TXC' = TXC /\ cut' = cut
  BY DEF WriteAdvances, LessOne, Goto, uart
<1>2. TypeOK /\ Order /\ Flags /\ Control
  BY DEF Inv
<1>3. HasRoom /\ Queued < N - 1 /\ _written
  BY <1>1, <1>2, RoomDist DEF Control
<1>a. /\ _tx_buffer_tail \in 0 .. N - 1 /\ _tx_buffer_head \in 0 .. N - 1
      /\ wire \in Nat /\ free \in 0 .. N - 1
  BY <1>2 DEF TypeOK
<1>4. Base' = Base /\ Pending = 1 /\ Pending' = 0 /\ Base \in Nat
  BY <1>1, <1>a DEF Base, Pending
<1>5. Queued' = Queued + 1 /\ Queued \in Nat /\ Queued = Dist(_tx_buffer_tail, _tx_buffer_head)
  BY <1>1, <1>3, <1>a, SuccCases DEF Queued, Dist
<1>6. TypeOK'
  <2>1. _tx_buffer_head' \in 0 .. N - 1 /\ free' \in 0 .. N - 1
    BY <1>1, <1>a, SuccCases
  <2> QED
    BY <1>1, <1>2, <2>1, ZenonT(60) DEF TypeOK
<1>7. Order'
  <2>1. \A i \in 0 .. N - 1 : Dist(_tx_buffer_tail, i) < Queued + 1
          => Dist(_tx_buffer_tail, i) < Queued \/ i = _tx_buffer_head
    BY <1>a DEF Queued, Dist
  <2>2. _tx_buffer[_tx_buffer_head] = Base + Queued + 1
    BY <1>1, <1>2, <1>4, <1>5 DEF Order
  <2>3. \A i \in 0 .. N - 1 : Dist(_tx_buffer_tail', i) < Queued'
          => _tx_buffer'[i] = Base' + Dist(_tx_buffer_tail', i) + 1
    BY <1>1, <1>2, <1>4, <1>5, <2>1, <2>2 DEF Order
  <2>4. count' = Base' + Queued' + Pending'
    BY <1>1, <1>2, <1>4, <1>5 DEF Order
  <2>5. free' + Queued' <= N - 1
    BY <1>1, <1>2, <1>3, <1>5, <1>a DEF Order
  <2> QED
    BY <1>1, <1>2, <1>4, <2>3, <2>4, <2>5 DEF Order
<1>8. Flags' /\ Control'
  <2>1. _tx_buffer_head' # _tx_buffer_tail'
    BY <1>1, <1>3 DEF HasRoom
  <2> QED
    BY <1>1, <1>2, <1>3, <2>1 DEF Flags, Control, Empty
<1> QED
  BY <1>6, <1>7, <1>8 DEF Inv

-----------------------------------------------------------------------------
(* A call goes on to another step and touches nothing else.                *)
LEMMA ControlStep ==
    ASSUME Inv, WriteTestsUdre \/ WriteFindsRoom \/ FlushBegin \/ FlushTestsUdrie
                  \/ FlushTestsTxc \/ FlushReturns
    PROVE  Inv'
<1>1. /\ UNCHANGED <<ring, udr, shift, wire, count, free>>
      /\ _tx_buffer' = _tx_buffer /\ _tx_buffer_head' = _tx_buffer_head
      /\ _tx_buffer_tail' = _tx_buffer_tail
      /\ udr' = udr /\ shift' = shift /\ wire' = wire /\ count' = count /\ free' = free
      /\ I' = I /\ _written' = _written /\ UDRIE' = UDRIE /\ TXC' = TXC /\ cut' = cut
  BY ZenonT(60) DEF WriteTestsUdre, WriteFindsRoom, FlushBegin,
     FlushTestsUdrie,
     FlushTestsTxc, FlushReturns, ring, uart
<1>2. TypeOK /\ Order /\ Flags /\ Control
  BY DEF Inv
<1>3. \/ pc = "udre" /\ pc' = "store" /\ udr = 0
      \/ pc = "udre" /\ pc' = "room"
      \/ pc = "room" /\ pc' = "fill" /\ HasRoom
      \/ pc = "idle" /\ pc' = "flush"
      \/ pc = "idle" /\ pc' = "flushed" /\ ~_written
      \/ pc = "flush" /\ pc' = "txc" /\ ~UDRIE
      \/ pc = "txc" /\ pc' = "flushed" /\ TXC
      \/ pc = "txc" /\ pc' = "flush"
      \/ pc = "flushed" /\ pc' = "idle"
  BY DEF WriteTestsUdre, WriteFindsRoom, FlushBegin, FlushTestsUdrie,
     FlushTestsTxc, FlushReturns, Goto
<1>4. TypeOK'
  BY <1>1, <1>2, <1>3 DEF TypeOK
<1>5. Order'
  BY <1>1, <1>2, <1>3, OrderFrame DEF Pending
<1>6. Flags'
  BY <1>1, <1>2, <1>3 DEF Flags
<1>7. Control'
  BY <1>1, <1>2, <1>3 DEF Control, Flags, HasRoom, Empty
<1> QED
  BY <1>4, <1>5, <1>6, <1>7 DEF Inv

(* A call changes a flag on its way: TXC, UDRIE, _written or the global    *)
(* interrupt flag.                                                         *)
LEMMA FlagStep ==
    ASSUME Inv, WriteClearsTxc \/ WriteEnables \/ End \/ SwitchInterrupts
    PROVE  Inv'
<1>1. /\ UNCHANGED <<ring, udr, shift, wire, count, free>>
      /\ _tx_buffer' = _tx_buffer /\ _tx_buffer_head' = _tx_buffer_head
      /\ _tx_buffer_tail' = _tx_buffer_tail
      /\ udr' = udr /\ shift' = shift /\ wire' = wire /\ count' = count /\ free' = free
  BY ZenonT(60) DEF WriteClearsTxc, WriteEnables, End, SwitchInterrupts,
     ring, uart
<1>2. TypeOK /\ Order /\ Flags /\ Control
  BY DEF Inv
<1>3. /\ \/ /\ pc = "clear" /\ pc' = "idle" /\ cut' = FALSE
            /\ TXC' = FALSE /\ UDRIE' = UDRIE /\ _written' = _written
         \/ /\ pc = "enable" /\ pc' = "idle" /\ cut' = FALSE
            /\ UDRIE' = TRUE /\ TXC' = TXC /\ _written' = _written
         \/ /\ pc = "flushed" /\ pc' = "closed" /\ cut' = cut
            /\ UDRIE' = FALSE /\ TXC' = TXC /\ _written' = _written
         \/ /\ pc = "idle" /\ pc' = "idle" /\ cut' = cut
            /\ UDRIE' = UDRIE /\ TXC' = TXC /\ _written' = _written
      /\ I' \in BOOLEAN
  BY <1>2, ZenonT(60) DEF WriteClearsTxc, WriteEnables, End,
     SwitchInterrupts, Goto, uart, TypeOK
<1>4. TypeOK'
  BY <1>1, <1>2, <1>3, ZenonT(60) DEF TypeOK
<1>5. Order'
  BY <1>1, <1>2, <1>3, OrderFrame DEF Pending
<1>6. Flags'
  BY <1>1, <1>2, <1>3 DEF Flags, Control, Empty
<1>7. Control'
  BY <1>1, <1>2, <1>3 DEF Control, HasRoom, Empty
<1> QED
  BY <1>4, <1>5, <1>6, <1>7 DEF Inv

(* begin () forgets the bytes that have not left, if there are any.        *)
LEMMA OpenStep == ASSUME Inv, Begin PROVE Inv'
<1>1. /\ UNCHANGED <<ring, udr, shift, wire, count, free>>
      /\ _tx_buffer' = _tx_buffer /\ _tx_buffer_head' = _tx_buffer_head
      /\ _tx_buffer_tail' = _tx_buffer_tail
      /\ udr' = udr /\ shift' = shift /\ wire' = wire /\ count' = count /\ free' = free
      /\ I' = I /\ TXC' = TXC /\ _written' = FALSE /\ UDRIE' = FALSE
      /\ pc \in {"closed", "idle"} /\ pc' = "idle" /\ cut' = (wire # count)
  BY DEF Begin, ring, uart
<1>2. TypeOK /\ Order /\ Flags /\ Control
  BY DEF Inv
<1>3. cut' \in BOOLEAN /\ (~cut' => wire = count)
  BY <1>1, ZenonT(60)
<1>4. wire = count => Empty
  <2>1. Pending = 0 /\ wire \in Nat /\ count = Base + Queued + Pending
    BY <1>1, <1>2 DEF Pending, TypeOK, Order
  <2>2. _tx_buffer_tail \in 0 .. N - 1 /\ _tx_buffer_head \in 0 .. N - 1
    BY <1>2 DEF TypeOK
  <2>3. Queued \in Nat /\ (Queued = 0 => _tx_buffer_head = _tx_buffer_tail)
    BY <2>2, NAssumption DEF Queued, Dist
  <2>4. Base \in Nat /\ Base >= wire /\ (Base = wire => shift = 0 /\ udr = 0)
    BY <2>1 DEF Base
  <2> QED
    BY <2>1, <2>3, <2>4 DEF Empty
<1>5. TypeOK'
  BY <1>1, <1>2, <1>3, ZenonT(60) DEF TypeOK
<1>6. Order'
  BY <1>1, <1>2, OrderFrame DEF Pending
<1>7. Flags'
  BY <1>1, <1>2, <1>3, <1>4 DEF Flags, Empty
<1>8. Control'
  BY <1>1, <1>3, <1>4 DEF Control, Empty
<1> QED
  BY <1>5, <1>6, <1>7, <1>8 DEF Inv

(* write () begins with the next byte.                                     *)
LEMMA BeginStep == ASSUME Inv, WriteBegin PROVE Inv'
<1> USE NAssumption, WritesAssumption
<1>1. /\ pc = "idle" /\ count < MaxWrites /\ count' = count + 1 /\ _written' = TRUE
      /\ pc' = (IF _tx_buffer_head = _tx_buffer_tail THEN "udre" ELSE "room")
      /\ _tx_buffer' = _tx_buffer /\ _tx_buffer_head' = _tx_buffer_head
      /\ _tx_buffer_tail' = _tx_buffer_tail
      /\ udr' = udr /\ shift' = shift /\ wire' = wire /\ free' = free
      /\ I' = I /\ UDRIE' = UDRIE /\ TXC' = TXC /\ cut' = cut
  BY DEF WriteBegin, Goto, ring, uart
<1>2. TypeOK /\ Order /\ Flags /\ Control
  BY DEF Inv
<1>3. Base' = Base /\ Queued' = Queued /\ Pending = 0 /\ Pending' = 1
  BY <1>1 DEF Base, Queued, Dist, Pending
<1>a. Base \in Nat /\ Queued \in Nat
  BY <1>2 DEF TypeOK, Base, Queued, Dist
<1>4. TypeOK'
  BY <1>1, <1>2 DEF TypeOK
<1>5. Order'
  <2>1. count' = Base' + Queued' + Pending'
    BY <1>1, <1>2, <1>3, <1>a DEF Order
  <2> QED
    BY <1>1, <1>2, <1>3, <2>1 DEF Order, Dist
<1>6. Flags' /\ Control'
  BY <1>1, <1>2 DEF Flags, Control, HasRoom, Empty
<1> QED
  BY <1>4, <1>5, <1>6 DEF Inv

(* availableForWrite () answers what fits.                                 *)
LEMMA AvailableStep == ASSUME Inv, AvailableForWrite PROVE Inv'
<1> USE NAssumption, WritesAssumption
<1>1. /\ pc = "idle" /\ pc' = pc /\ count' = count
      /\ free' = (IF _tx_buffer_head >= _tx_buffer_tail
                  THEN ((N - 1) - _tx_buffer_head) + _tx_buffer_tail
                  ELSE (_tx_buffer_tail - _tx_buffer_head) - 1)
      /\ _tx_buffer' = _tx_buffer /\ _tx_buffer_head' = _tx_buffer_head
      /\ _tx_buffer_tail' = _tx_buffer_tail
      /\ udr' = udr /\ shift' = shift /\ wire' = wire
      /\ I' = I /\ _written' = _written /\ UDRIE' = UDRIE /\ TXC' = TXC /\ cut' = cut
  BY DEF AvailableForWrite, ring, uart
<1>2. TypeOK /\ Order /\ Flags /\ Control
  BY DEF Inv
<1>3. Base' = Base /\ Queued' = Queued /\ Pending' = Pending
  BY <1>1 DEF Base, Queued, Dist, Pending
<1>4. free' \in 0 .. N - 1 /\ free' + Queued' <= N - 1
  <2>1. _tx_buffer_tail \in 0 .. N - 1 /\ _tx_buffer_head \in 0 .. N - 1
    BY <1>2 DEF TypeOK
  <2> QED
    BY <1>1, <1>3, <2>1 DEF Queued, Dist
<1>5. TypeOK'
  BY <1>1, <1>2, <1>4 DEF TypeOK
<1>6. Order'
  BY <1>1, <1>2, <1>3, <1>4 DEF Order, Dist
<1>7. Flags' /\ Control'
  BY <1>1, <1>2 DEF Flags, Control, HasRoom, Empty
<1> QED
  BY <1>5, <1>6, <1>7 DEF Inv

(* The handler as an interrupt, or called from one of the two waits.       *)
LEMMA HandlerCalls ==
    ASSUME Inv, UDRE_vect \/ WriteWaits \/ FlushWaits PROVE Inv'
<1>1. TypeOK /\ Flags
  BY DEF Inv
<1>2. CASE UDRE_vect
  BY <1>1, <1>2, HandlerStep DEF UDRE_vect, Flags
<1>3. CASE WriteWaits
  <2>1. _tx_buffer_head \in 0 .. N - 1 /\ Succ(_tx_buffer_head) = _tx_buffer_tail
    BY <1>1, <1>3 DEF WriteWaits, HasRoom, TypeOK
  <2>2. _tx_buffer_head # _tx_buffer_tail
    BY <2>1, SuccCases, NAssumption
  <2> QED
    BY <1>3, <2>2, HandlerStep DEF WriteWaits, Atomic
<1>4. CASE FlushWaits
  BY <1>1, <1>4, HandlerStep DEF FlushWaits, Flags, Atomic
<1> QED
  BY <1>2, <1>3, <1>4

-----------------------------------------------------------------------------
(* The invariant holds before begin () and is preserved by every step of   *)
(* the sketch, of the handler and of the UART.                             *)
THEOREM Invariance == Spec => []Inv
<1>1. Init => Inv
  <2> SUFFICES ASSUME Init PROVE Inv
    OBVIOUS
  <2> USE NAssumption, WritesAssumption
  <2>1. TypeOK
    <3>1. 0 \in 0 .. N - 1 /\ 0 \in 0 .. MaxWrites
      OBVIOUS
    <3>2. _tx_buffer \in [0 .. N - 1 -> 0 .. MaxWrites]
      BY <3>1 DEF Init
    <3> QED
      BY <3>1, <3>2, ZenonT(60) DEF Init, TypeOK
  <2>2. Base = 0 /\ Queued = 0 /\ Pending = 0
    BY DEF Init, Base, Queued, Dist, Pending
  <2>3. \A i \in 0 .. N - 1 : ~(Dist(_tx_buffer_tail, i) < Queued)
    BY <2>2 DEF Init, Dist
  <2>4. Order
    BY <2>2, <2>3 DEF Init, Order
  <2>5. Flags /\ Control
    BY DEF Init, Flags, Control, Empty
  <2> QED
    BY <2>1, <2>4, <2>5 DEF Inv
<1>2. Inv /\ [Next]_vars => Inv'
  <2> SUFFICES ASSUME Inv, [Next]_vars PROVE Inv'
    OBVIOUS
  <2>1. CASE Call
    BY <2>1, ControlStep, FlagStep, StoreStep, FillStep, AdvanceStep,
       HandlerCalls DEF Call
  <2>2. CASE Sketch
    BY <2>2, ControlStep, FlagStep, OpenStep, BeginStep,
       AvailableStep DEF Sketch
  <2>3. CASE Uart
    BY <2>3, HandlerCalls, LoadStep, LeaveStep DEF Uart
  <2>4. CASE UNCHANGED vars
    <3>1. /\ _tx_buffer' = _tx_buffer /\ _tx_buffer_head' = _tx_buffer_head
          /\ _tx_buffer_tail' = _tx_buffer_tail /\ pc' = pc
          /\ udr' = udr /\ shift' = shift /\ wire' = wire /\ count' = count /\ free' = free
          /\ I' = I /\ _written' = _written /\ UDRIE' = UDRIE /\ TXC' = TXC /\ cut' = cut
      BY <2>4 DEF vars, ring, uart
    <3>2. TypeOK' /\ Flags' /\ Control'
      BY <3>1 DEF Inv, TypeOK, Flags, Control, HasRoom, Empty
    <3>3. Order'
      BY <3>1, OrderFrame DEF Inv, ring, Pending
    <3> QED
      BY <3>2, <3>3 DEF Inv
  <2> QED
    BY <2>1, <2>2, <2>3, <2>4 DEF Next
<1> QED
  BY <1>1, <1>2, PTL DEF Spec

(* Indexes and bytes stay in range, for every buffer size.                 *)
THEOREM TypeCorrect == Spec => []TypeOK
<1>1. Inv => TypeOK
  BY DEF Inv
<1> QED
  BY <1>1, Invariance, PTL

(* flush () and end () return only when every byte has left, unless begin  *)
(* () was called with bytes unsent and nothing was written since.          *)
THEOREM FlushedIsSent == Spec => []FlushMeansSent
<1>1. Inv => FlushMeansSent
  <2> SUFFICES ASSUME Inv, pc = "flushed", ~cut PROVE wire = count
    BY DEF FlushMeansSent
  <2>1. Empty /\ wire \in Nat /\ _tx_buffer_head \in 0 .. N - 1
    BY DEF Inv, Control, TypeOK
  <2>2. Base = wire /\ Queued = 0 /\ Pending = 0
    BY <2>1 DEF Empty, Base, Queued, Dist, Pending
  <2> QED
    BY <2>1, <2>2 DEF Inv, Order
<1> QED
  BY <1>1, Invariance, PTL

(* What availableForWrite () answered can be written without a wait.       *)
THEOREM FreeIsKept == Spec => []FreeIsThere
<1>1. Inv => FreeIsThere
  <2> SUFFICES ASSUME Inv, free > 0 PROVE HasRoom
    BY DEF FreeIsThere
  <2>1. TypeOK /\ Order
    BY DEF Inv
  <2>2. Queued \in Int /\ free \in Nat
    BY <2>1, NAssumption DEF TypeOK, Queued, Dist
  <2>3. Queued < N - 1
    BY <2>1, <2>2, NAssumption DEF Order
  <2> QED
    BY <2>1, <2>3, RoomDist
<1> QED
  BY <1>1, Invariance, PTL

(* The bytes leave in the order written, each once.                        *)
THEOREM InOrder == Spec => WireInOrder
<1>1. Inv /\ [Next]_vars => [wire' \in {wire, wire + 1}]_vars
  <2> SUFFICES ASSUME Inv, Next PROVE wire' \in {wire, wire + 1}
    OBVIOUS
  <2>1. CASE ByteLeaves
    BY <2>1 DEF Inv, Order, ByteLeaves
  <2>2. CASE ~ByteLeaves
    <3>1. wire' = wire
      <4>1. CASE Call
        BY <4>1 DEF Call, WriteTestsUdre, WriteStores, WriteClearsTxc, WriteWaits,
           WriteFindsRoom, WriteFills, WriteAdvances, WriteEnables, FlushTestsUdrie,
           FlushWaits, FlushTestsTxc, FlushReturns, _tx_udr_empty_irq, uart
      <4>2. CASE Sketch
        BY <4>2 DEF Sketch, WriteBegin, FlushBegin, End, Begin, AvailableForWrite,
           SwitchInterrupts, uart
      <4>3. CASE UDRE_vect \/ ShiftLoads
        BY <4>3 DEF UDRE_vect, ShiftLoads, _tx_udr_empty_irq
      <4> QED
        BY <2>2, <4>1, <4>2, <4>3 DEF Next, Uart
    <3> QED
      BY <3>1
  <2> QED
    BY <2>1, <2>2
<1> QED
  BY <1>1, Invariance, PTL DEF Spec, WireInOrder
=============================================================================
