--------------------------- MODULE UartRingProofs ---------------------------
(***************************************************************************)
(* For every buffer size N >= 2 and every set of byte values: the ring     *)
(* buffer is type correct, loses a byte only when it may, and implements   *)
(* LossyFifo.                                                              *)
(***************************************************************************)
EXTENDS UartRing, SequenceTheorems, TLAPS

(* A leaf that names no prover is given to SMT, with a minute to answer.   *)
USE SMTT(60)

(* The inductive invariant.  Where the main program is between two         *)
(* accesses, it fixes what the pending access relies on: a byte is there   *)
(* to be taken, the byte already loaded is the oldest one, the slot still  *)
(* to be loaded lies just behind buffer_out (where the interrupt cannot    *)
(* write), and buffer_in cannot run past a buffer_out that is about to be  *)
(* zeroed.                                                                 *)
Inv ==
    /\ TypeOK
    /\ pc \in {"take", "advance"} => buffer_in # buffer_out
    /\ pc = "advance" => ch = buffer[buffer_out]
    /\ pc = "load" => Succ(slot) = buffer_out
    /\ pc = "store_out" => buffer_out = 0 \/ buffer_in < buffer_out
    /\ pc \in {"store_in", "esp_boot", "esp_first", "esp_wait", "esp_zero"}
         => buffer_out = 0

-----------------------------------------------------------------------------
(* Index arithmetic *)

(* The uint8_t successor of an index is an index.                          *)
LEMMA SuccIdx == \A i \in Idx : Succ(i) \in Idx
BY NAssumption DEF Idx, Succ

(* The invariant holds after reset and is preserved by the receive         *)
(* interrupt and by every access of the main program.                      *)
THEOREM Invariance == Spec => []Inv
<1>1. Init => Inv
  BY NAssumption, ByteAssumption DEF Init, Inv, TypeOK, Idx, PC
<1>2. Inv /\ [Next]_vars => Inv'
  <2> SUFFICES ASSUME Inv, [Next]_vars PROVE Inv'
    OBVIOUS
  <2> USE NAssumption, ByteAssumption, SuccIdx DEF Inv, TypeOK, PC
  <2>1. ASSUME NEW b \in Byte, USART1_RX(b) PROVE Inv'
    <3>1. CASE Full
      BY <2>1, <3>1 DEF USART1_RX
    <3>2. CASE ~Full
      <4>1. buffer' \in [Idx -> Byte] /\ buffer_in' \in Idx
        BY <2>1, <3>2 DEF USART1_RX
      <4>2. pc \in {"take", "advance"} => buffer_in' # buffer_out
        BY <2>1, <3>2 DEF USART1_RX, Full
      <4>3. pc = "advance" => ch = buffer'[buffer_out]
        BY <2>1, <3>2 DEF USART1_RX
      <4>4. pc = "store_out" => buffer_out = 0 \/ buffer_in' < buffer_out
        BY <2>1, <3>2 DEF USART1_RX, Full, Succ, Idx
      <4> QED
        BY <2>1, <4>1, <4>2, <4>3, <4>4 DEF USART1_RX
    <3> QED
      BY <3>1, <3>2
  <2>2. CASE TestNotEmpty
    BY <2>2 DEF TestNotEmpty
  <2>3. CASE LoadFirst
    BY <2>3 DEF LoadFirst
  <2>4. CASE ThenAdvance
    BY <2>4 DEF ThenAdvance
  <2>5. CASE AdvanceFirst
    BY <2>5 DEF AdvanceFirst
  <2>6. CASE ThenLoad
    BY <2>6 DEF ThenLoad
  <2>7. CASE PassOn
    BY <2>7 DEF PassOn
  <2>8. CASE ClearOutFirst
    BY <2>8 DEF ClearOutFirst, Idx
  <2>9. CASE ThenClearIn
    BY <2>9 DEF ThenClearIn, Idx
  <2>10. CASE ClearInFirst
    BY <2>10 DEF ClearInFirst, Idx
  <2>11. CASE ThenClearOut
    BY <2>11 DEF ThenClearOut, Idx
  <2>12. CASE EspStart
    BY <2>12 DEF EspStart, Idx
  <2>13. CASE EspFirstTest
    BY <2>13 DEF EspFirstTest
  <2>14. CASE EspFirstZero
    BY <2>14 DEF EspFirstZero, Idx
  <2>15. CASE EspTest
    BY <2>15 DEF EspTest
  <2>16. CASE EspZero
    BY <2>16 DEF EspZero, Idx
  <2>17. CASE EspReady
    BY <2>17 DEF EspReady
  <2>18. CASE UNCHANGED vars
    BY <2>18 DEF vars
  <2> QED
    BY <2>1, <2>2, <2>3, <2>4, <2>5, <2>6, <2>7, <2>8, <2>9, <2>10, <2>11,
       <2>12, <2>13, <2>14, <2>15, <2>16, <2>17, <2>18, ZenonT(60) DEF Next, Main
<1> QED
  BY <1>1, <1>2, PTL DEF Spec

-----------------------------------------------------------------------------
(* The bytes between two indexes, as a queue *)

(* Between two indexes there are fewer than N bytes.                       *)
LEMMA CountRange ==
    ASSUME NEW i \in Idx, NEW j \in Idx
    PROVE  Count(i, j) \in 0 .. N - 1
BY NAssumption DEF Idx, Count

(* The bytes between two indexes of the buffer are a sequence of that many *)
(* bytes.                                                                  *)
LEMMA BytesSeq ==
    ASSUME NEW buf \in [Idx -> Byte], NEW i \in Idx, NEW j \in Idx
    PROVE  /\ Bytes(buf, i, j) \in Seq(Byte)
           /\ Len(Bytes(buf, i, j)) = Count(i, j)
<1>1. Count(i, j) \in Nat
  BY CountRange, NAssumption
<1>2. \A k \in 1 .. Count(i, j) : Wrap(i + k - 1) \in Idx
  BY NAssumption DEF Idx, Count, Wrap
<1> QED
  BY <1>1, <1>2 DEF Bytes

(* Nothing is unread when the indexes are equal.                           *)
LEMMA BytesEmpty ==
    ASSUME NEW buf \in [Idx -> Byte], NEW i \in Idx
    PROVE  Bytes(buf, i, i) = <<>>
<1>1. Count(i, i) = 0
  BY NAssumption DEF Idx, Count
<1> QED
  BY <1>1, BytesSeq

(* Storing at `to' and advancing it appends, unless that fills the buffer. *)
LEMMA BytesAppend ==
    ASSUME NEW buf \in [Idx -> Byte], NEW i \in Idx, NEW j \in Idx,
           NEW b \in Byte, Succ(j) # i
    PROVE  /\ Bytes([buf EXCEPT ![j] = b], i, Succ(j))
                = Append(Bytes(buf, i, j), b)
           /\ Count(i, j) < N - 1
<1> DEFINE buf2 == [buf EXCEPT ![j] = b]
           n == Count(i, j)
<1>1. Count(i, Succ(j)) = n + 1 /\ n \in Nat /\ n < N - 1
  BY NAssumption DEF Idx, Count, Succ
<1>2. Wrap(i + n) = j
  BY NAssumption DEF Idx, Count, Wrap
<1>3. \A k \in 1 .. n : Wrap(i + k - 1) \in Idx /\ Wrap(i + k - 1) # j
  BY NAssumption DEF Idx, Count, Wrap
<1>4. buf2 \in [Idx -> Byte] /\ Succ(j) \in Idx
  BY SuccIdx
<1>5. Bytes(buf2, i, Succ(j)) \in Seq(Byte) /\ Len(Bytes(buf2, i, Succ(j))) = n + 1
  BY <1>1, <1>4, BytesSeq, ZenonT(60)
<1>6. Bytes(buf, i, j) \in Seq(Byte) /\ Len(Bytes(buf, i, j)) = n
  BY BytesSeq
<1>7. \A k \in 1 .. n + 1 :
         Bytes(buf2, i, Succ(j))[k] = Append(Bytes(buf, i, j), b)[k]
  <2> SUFFICES ASSUME NEW k \in 1 .. n + 1
               PROVE  Bytes(buf2, i, Succ(j))[k] = Append(Bytes(buf, i, j), b)[k]
    BY ZenonT(60)
  <2>1. Bytes(buf2, i, Succ(j))[k] = buf2[Wrap(i + k - 1)]
    BY <1>1 DEF Bytes
  <2>2. CASE k = n + 1
    <3>1. i + k - 1 = i + n
      BY <2>2, <1>1 DEF Idx
    <3>2. buf2[Wrap(i + k - 1)] = b
      BY <3>1, <1>2
    <3> QED
      BY <2>1, <2>2, <3>2, <1>6, <1>1
  <2>3. CASE k \in 1 .. n
    <3>1. buf2[Wrap(i + k - 1)] = buf[Wrap(i + k - 1)]
      BY <1>3, <2>3
    <3>2. Bytes(buf, i, j)[k] = buf[Wrap(i + k - 1)]
      BY <2>3 DEF Bytes
    <3> QED
      BY <2>1, <2>3, <3>1, <3>2, <1>6, <1>1
  <2>4. k = n + 1 \/ k \in 1 .. n
    BY <1>1
  <2> QED
    BY <2>2, <2>3, <2>4, ZenonT(60)
<1>8. Append(Bytes(buf, i, j), b) \in Seq(Byte)
      /\ Len(Append(Bytes(buf, i, j), b)) = n + 1
  BY <1>6
<1> QED
  BY <1>1, <1>5, <1>7, <1>8, SeqEqual, ZenonT(60)

(* Advancing `from' removes the oldest byte.                               *)
LEMMA BytesTail ==
    ASSUME NEW buf \in [Idx -> Byte], NEW i \in Idx, NEW j \in Idx, i # j
    PROVE  /\ Bytes(buf, i, j) # <<>>
           /\ Head(Bytes(buf, i, j)) = buf[i]
           /\ Bytes(buf, Succ(i), j) = Tail(Bytes(buf, i, j))
<1> DEFINE n == Count(i, j)
           s == Bytes(buf, i, j)
           t == Bytes(buf, Succ(i), j)
<1>1. Count(Succ(i), j) = n - 1 /\ n \in Nat /\ n > 0
  BY NAssumption DEF Idx, Count, Succ
<1>2. s \in Seq(Byte) /\ Len(s) = n
  BY BytesSeq
<1>3. t \in Seq(Byte) /\ Len(t) = n - 1
  BY <1>1, BytesSeq, SuccIdx
<1>4. s # <<>>
  BY <1>1, <1>2
<1>5. Tail(s) \in Seq(Byte) /\ Len(Tail(s)) = n - 1
  BY <1>1, <1>2, <1>4
<1>6. Wrap(i + 1 - 1) = i
  BY NAssumption DEF Idx, Wrap
<1>7. s[1] = buf[i]
  <2>1. 1 \in 1 .. n
    BY <1>1
  <2> QED
    BY <2>1, <1>6 DEF Bytes
<1>8. \A k \in 1 .. n - 1 : t[k] = Tail(s)[k]
  <2> SUFFICES ASSUME NEW k \in 1 .. n - 1 PROVE t[k] = Tail(s)[k]
    BY ZenonT(60)
  <2>1. t[k] = buf[Wrap(Succ(i) + k - 1)]
    BY <1>1 DEF Bytes
  <2>2. k + 1 \in 1 .. n
    BY <1>1
  <2>3. s[k + 1] = buf[Wrap(i + (k + 1) - 1)]
    BY <2>2 DEF Bytes
  <2>4. Wrap(Succ(i) + k - 1) = Wrap(i + (k + 1) - 1)
    BY <1>1, NAssumption DEF Idx, Count, Succ, Wrap
  <2> QED
    BY <2>1, <2>3, <2>4, <1>2, <1>4
<1> QED
  BY <1>2, <1>3, <1>4, <1>5, <1>7, <1>8, SeqEqual

-----------------------------------------------------------------------------

(* The indexes stay within the buffer, and what is stored in it are bytes. *)
THEOREM TypeCorrect == Spec => []TypeOK
<1>1. Inv => TypeOK
  BY DEF Inv
<1> QED
  BY <1>1, Invariance, PTL

(* The receive interrupt drops a byte only when N - 1 bytes are unread or  *)
(* the main program is emptying the buffer.                                *)
THEOREM LossIsJustified == Spec => []LosesOnlyWhenFull
<1>1. Inv => LosesOnlyWhenFull
  <2> SUFFICES ASSUME Inv, Full, ~Clearing
               PROVE  Len(Queue) = N - 1
    BY DEF LosesOnlyWhenFull, Fifo!MayLose
  <2>1. Queue = Bytes(buffer, buffer_out, buffer_in)
    BY DEF Queue, Clearing
  <2>2. Len(Queue) = Count(buffer_out, buffer_in)
    BY <2>1, BytesSeq DEF Inv, TypeOK
  <2>3. Count(buffer_out, buffer_in) = N - 1
    BY NAssumption DEF Inv, TypeOK, Full, Count, Succ, Idx
  <2> QED
    BY <2>2, <2>3
<1> QED
  BY <1>1, Invariance, PTL

(* The ring buffer implements the lossy FIFO of LossyFifo: bytes come out  *)
(* in order, once each, and none from before the last time the buffer was  *)
(* emptied.                                                                *)
THEOREM Refinement == Spec => RingIsFifo
<1>1. Init => Fifo!Init
  <2> SUFFICES ASSUME Init PROVE Fifo!Init
    OBVIOUS
  <2>1. buffer \in [Idx -> Byte] /\ 0 \in Idx
    BY NAssumption, ByteAssumption DEF Init, Idx
  <2>2. Queue = Bytes(buffer, 0, 0)
    BY DEF Init, Queue
  <2>3. Queue = <<>>
    BY <2>1, <2>2, BytesEmpty
  <2> QED
    BY <2>3 DEF Init, Fifo!Init, Hold, Clearing
<1>2. Inv /\ [Next]_vars => [Fifo!Next]_Fifo!vars
  <2> SUFFICES ASSUME Inv, [Next]_vars PROVE [Fifo!Next]_Fifo!vars
    OBVIOUS
  <2> DEFINE Live == Bytes(buffer, buffer_out, buffer_in)
  <2> USE DEF Inv, TypeOK
  <2>0. 0 \in Idx
    BY NAssumption DEF Idx
  <2>1. ASSUME NEW b \in Byte, USART1_RX(b) PROVE [Fifo!Next]_Fifo!vars
    <3>1. CASE Full
      <4>1. UNCHANGED vars
        BY <2>1, <3>1 DEF USART1_RX, vars
      <4> QED
        BY <4>1 DEF vars, Fifo!vars, Queue, Hold, Clearing, Bytes
    <3>2. CASE ~Full
      <4>1. /\ buffer' = [buffer EXCEPT ![buffer_in] = b]
            /\ buffer_in' = Succ(buffer_in)
            /\ UNCHANGED <<buffer_out, pc, slot, ch>>
        BY <2>1, <3>2 DEF USART1_RX
      <4>2. Clearing' = Clearing
        BY <4>1 DEF Clearing
      <4>3. Hold' = Hold
        <5>1. CASE pc = "load"
          <6>1. buffer_in # slot
            BY <5>1, <3>2 DEF Full
          <6>2. buffer'[slot] = buffer[slot]
            BY <6>1, <4>1
          <6> QED
            BY <6>2, <4>1, <5>1 DEF Hold
        <5>2. CASE pc # "load"
          BY <5>2, <4>1 DEF Hold
        <5> QED
          BY <5>1, <5>2
      <4>4. CASE pc \in {"store_in", "esp_boot", "esp_first"}
        <5>1. Queue' = Queue
          BY <4>1, <4>4 DEF Queue
        <5> QED
          BY <5>1, <4>2, <4>3 DEF Fifo!vars
      <4>5. CASE pc = "store_out"
        <5>1. Succ(buffer_in) # 0
          BY <4>5, <3>2, NAssumption DEF Full, Succ, Idx
        <5>2. Queue = Bytes(buffer, 0, buffer_in)
              /\ Queue' = Bytes(buffer', 0, buffer_in')
          BY <4>1, <4>5 DEF Queue
        <5>3. Queue' = Append(Queue, b) /\ Count(0, buffer_in) < N - 1
          BY <2>0, <4>1, <5>1, <5>2, BytesAppend, ZenonT(60)
        <5>4. Len(Queue) < N - 1
          BY <2>0, <5>2, <5>3, BytesSeq, ZenonT(60)
        <5> QED
          BY <5>3, <5>4, <4>2, <4>3 DEF Fifo!Next, Fifo!Accept
      <4>6. CASE ~Clearing
        <5>1. Queue = Live /\ Queue' = Bytes(buffer', buffer_out, buffer_in')
          BY <4>1, <4>6 DEF Queue, Clearing
        <5>2. Queue' = Append(Queue, b) /\ Count(buffer_out, buffer_in) < N - 1
          BY <4>1, <5>1, <3>2, BytesAppend, ZenonT(60) DEF Full
        <5>3. Len(Queue) < N - 1
          BY <5>1, <5>2, BytesSeq, ZenonT(60)
        <5> QED
          BY <5>2, <5>3, <4>2, <4>3 DEF Fifo!Next, Fifo!Accept
      <4> QED
        BY <4>4, <4>5, <4>6 DEF Clearing
    <3> QED
      BY <3>1, <3>2
  <2>2. CASE TestNotEmpty
    BY <2>2 DEF TestNotEmpty, Fifo!vars, Queue, Hold, Clearing, Bytes
  <2>3. CASE LoadFirst
    BY <2>3 DEF LoadFirst, Fifo!vars, Queue, Hold, Clearing, Bytes
  <2>4. CASE ThenAdvance
    <3>1. Queue = Live /\ Queue' = Bytes(buffer, Succ(buffer_out), buffer_in)
      BY <2>4 DEF ThenAdvance, Queue
    <3>2. Queue # <<>> /\ Head(Queue) = ch /\ Queue' = Tail(Queue)
      BY <2>4, <3>1, BytesTail DEF ThenAdvance
    <3>3. Hold = <<>> /\ Hold' = <<ch>> /\ ~Clearing /\ Clearing' = Clearing
      BY <2>4 DEF ThenAdvance, Hold, Clearing
    <3> QED
      BY <3>2, <3>3 DEF Fifo!Next, Fifo!Take
  <2>5. CASE AdvanceFirst
    <3>1. Queue = Live /\ Queue' = Bytes(buffer, Succ(buffer_out), buffer_in)
      BY <2>5 DEF AdvanceFirst, Queue
    <3>2. /\ Queue # <<>>
          /\ Head(Queue) = buffer[buffer_out]
          /\ Queue' = Tail(Queue)
      BY <2>5, <3>1, BytesTail DEF AdvanceFirst
    <3>3. /\ Hold = <<>> /\ Hold' = <<buffer[buffer_out]>>
          /\ ~Clearing /\ Clearing' = Clearing
      BY <2>5 DEF AdvanceFirst, Hold, Clearing
    <3> QED
      BY <3>2, <3>3 DEF Fifo!Next, Fifo!Take
  <2>6. CASE ThenLoad
    BY <2>6 DEF ThenLoad, Fifo!vars, Queue, Hold, Clearing, Bytes
  <2>7. CASE PassOn
    <3>1. Queue' = Queue /\ Clearing' = Clearing
      BY <2>7 DEF PassOn, Queue, Clearing, Bytes
    <3>2. Hold = <<ch>> /\ Hold' = <<>>
      BY <2>7 DEF PassOn, Hold
    <3> QED
      BY <3>1, <3>2 DEF Fifo!Next, Fifo!PassOn
  <2>8. CASE ClearOutFirst \/ EspStart
    <3>1. Queue' = <<>> /\ Hold = <<>> /\ Hold' = <<>> /\ Clearing' = TRUE
      BY <2>8 DEF ClearOutFirst, EspStart, Queue, Hold, Clearing
    <3> QED
      BY <3>1 DEF Fifo!Next, Fifo!BeginClear
  <2>9. CASE ClearInFirst
    <3>1. Queue' = Bytes(buffer, 0, 0)
      BY <2>9 DEF ClearInFirst, Queue
    <3>2. Queue' = <<>>
      BY <2>0, <3>1, BytesEmpty
    <3>3. Hold = <<>> /\ Hold' = <<>> /\ Clearing' = TRUE
      BY <2>9 DEF ClearInFirst, Hold, Clearing
    <3> QED
      BY <3>2, <3>3 DEF Fifo!Next, Fifo!BeginClear
  <2>10. CASE ThenClearIn \/ EspFirstZero
    <3>1. Queue = <<>> /\ Queue' = Bytes(buffer, 0, 0)
      BY <2>10 DEF ThenClearIn, EspFirstZero, Queue
    <3>2. Queue' = Queue
      BY <2>0, <3>1, BytesEmpty
    <3>3. Hold' = Hold /\ Clearing /\ Clearing' = FALSE
      BY <2>10 DEF ThenClearIn, EspFirstZero, Hold, Clearing
    <3> QED
      BY <3>2, <3>3 DEF Fifo!Next, Fifo!EndClear
  <2>11. CASE ThenClearOut
    <3>1. Queue' = Queue
      BY <2>11 DEF ThenClearOut, Queue, Bytes
    <3>2. Hold' = Hold /\ Clearing /\ Clearing' = FALSE
      BY <2>11 DEF ThenClearOut, Hold, Clearing
    <3> QED
      BY <3>1, <3>2 DEF Fifo!Next, Fifo!EndClear
  <2>12. CASE EspFirstTest
    <3>1. CASE buffer_in # 0
      BY <2>12, <3>1 DEF EspFirstTest, Fifo!vars, Queue, Hold, Clearing, Bytes
    <3>2. CASE buffer_in = 0
      <4>1. Queue = <<>> /\ Queue' = Bytes(buffer, 0, 0)
        BY <2>12, <3>2 DEF EspFirstTest, Queue
      <4>2. Queue' = Queue
        BY <2>0, <4>1, BytesEmpty
      <4>3. Hold' = Hold /\ Clearing /\ Clearing' = FALSE
        BY <2>12, <3>2 DEF EspFirstTest, Hold, Clearing
      <4> QED
        BY <4>2, <4>3 DEF Fifo!Next, Fifo!EndClear
    <3> QED
      BY <3>1, <3>2
  <2>13. CASE EspTest \/ EspReady
    <3>1. Queue' = Queue
      BY <2>13, ZenonT(60) DEF EspTest, EspReady, Queue, Bytes
    <3>2. Hold' = Hold /\ Clearing' = Clearing
      BY <2>13 DEF EspTest, EspReady, Hold, Clearing
    <3> QED
      BY <3>1, <3>2 DEF Fifo!vars
  <2>14. CASE EspZero
    <3>1. Queue' = Bytes(buffer, 0, 0)
      BY <2>14 DEF EspZero, Queue
    <3>2. Queue' = <<>>
      BY <2>0, <3>1, BytesEmpty
    <3>3. Hold = <<>> /\ Hold' = <<>> /\ Clearing' = Clearing
      BY <2>14 DEF EspZero, Hold, Clearing
    <3> QED
      BY <3>2, <3>3 DEF Fifo!Next, Fifo!Clear
  <2>15. CASE UNCHANGED vars
    BY <2>15 DEF vars, Fifo!vars, Queue, Hold, Clearing, Bytes
  <2> QED
    BY <2>1, <2>2, <2>3, <2>4, <2>5, <2>6, <2>7, <2>8, <2>9, <2>10, <2>11,
       <2>12, <2>13, <2>14, <2>15 DEF Next, Main
<1> QED
  BY <1>1, <1>2, Invariance, PTL DEF Spec, RingIsFifo, Fifo!Spec
=============================================================================
