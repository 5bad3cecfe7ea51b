-------------------------- MODULE EspBridgeProofs --------------------------
(***************************************************************************)
(* For every bank size, ring size, set of END bytes and set of intervals:  *)
(* the bridge gives no byte up before its interval has passed, and what    *)
(* usb_flush leaves behind in the task loop.                               *)
(***************************************************************************)
EXTENDS EspBridge, SequenceTheorems, TLAPS

(* A leaf that names no prover is given to SMT, with a minute to answer.   *)
USE SMTT(60)

(* The variables that the arguments below count with, and what the places  *)
(* around the bridge say of them.                                          *)
Shape ==
    /\ bank \in Seq(1 .. MaxIn) /\ Len(bank) <= EpSize
    /\ queue \in Seq(1 .. MaxIn) /\ hold \in Seq(1 .. MaxIn)
    /\ lastLen \in 0 .. EpSize /\ nextIn \in 1 .. MaxIn + 1
    /\ Timeout \in Nat /\ waited \in 0 .. CommTicks /\ plugs \in Nat
    /\ pc \in PC /\ mode \in {"task", "bridge"}
    /\ pc = "write_wait" /\ ~sent => bank = <<>>

Flags ==
    /\ sent \in BOOLEAN /\ received \in BOOLEAN /\ rts_pulse \in BOOLEAN
    /\ attached \in BOOLEAN /\ clearing \in BOOLEAN /\ cut \in BOOLEAN

(* A byte is in hand exactly inside usb_write_byte, and only then is the   *)
(* wait for it counted; in the bridge, what it has waited and what is left *)
(* of Timeout add up to the interval.                                      *)
InHand ==
    /\ hold # <<>> <=> pc \in {"write", "write_wait"}
    /\ hold = <<>> => waited = 0
    /\ hold # <<>> /\ mode = "bridge" => Timeout + waited = CommTicks

Waits == {"write_wait", "flush_full", "flush_wait"}

(* Where the program is, the IN bank is in the state that usb_write_byte   *)
(* and usb_flush rely on, in the task loop and in the bridge: outside of   *)
(* the waits it is the program's, and a full packet is always followed by  *)
(* another.                                                                *)
BankAt ==
    /\ pc \notin Waits => ~sent /\ (lastLen = EpSize => bank # <<>>)
    /\ pc = "write_wait" => (sent <=> bank # <<>>)
    /\ pc = "flush_full" => (sent <=> bank # <<>>)
    /\ pc = "flush_wait" =>
         IF sent THEN Len(bank) < EpSize ELSE bank = <<>> /\ lastLen < EpSize
    /\ pc = "in" /\ mode = "task" => bank = <<>>

(* Nothing has ended a wait but the host.                                  *)
BankInv == ~cut => BankAt

Inv == Shape /\ Flags /\ InHand /\ BankInv

-----------------------------------------------------------------------------

(* Every step keeps the shape of the variables; a byte in hand is one byte. *)
LEMMA ShapeStep == Shape /\ InHand /\ [Next]_vars => Shape'
<1> SUFFICES ASSUME Shape /\ InHand, [Next]_vars PROVE Shape'
  OBVIOUS
<1> USE SizeAssumption, TickAssumption, LimitAssumption
    DEF Shape, InHand, PC, flow, ring, inEp, out, env, history
<1>1. CASE WriteNow
  BY <1>1 DEF WriteNow, AfterWrite, Goto, Ring!PassOn, ReadWriteAllowed
<1>2. CASE WriteFull
  BY <1>2 DEF WriteFull, ClearIN, Goto, ReadWriteAllowed
<1>3. CASE WriteReady
  BY <1>3 DEF WriteReady, AfterWrite, Goto, Ring!PassOn
<1>4. CASE WriteGivenUp
  BY <1>4 DEF WriteGivenUp, AfterWrite, Goto, Ring!PassOn, Lose,
     endpoint_detached
<1>5. CASE FlushEmpty
  BY <1>5 DEF FlushEmpty, Goto
<1>6. CASE FlushBytes
  BY <1>6 DEF FlushBytes, ClearIN, Goto, ReadWriteAllowed
<1>7. CASE FlushFull
  BY <1>7 DEF FlushFull, ClearIN, Goto, FlushWaitEnds, endpoint_detached
<1>8. CASE FlushDone
  BY <1>8 DEF FlushDone, Goto, FlushWaitEnds, endpoint_detached
<1>9. CASE TaskTake
  BY <1>9 DEF TaskTake, Goto, Ring!Take
<1>10. CASE TaskEmpty
  BY <1>10 DEF TaskEmpty, Goto
<1>11. CASE BridgeIterate
  <2>1. CASE queue # <<>>
    <3>1. Ring!Take /\ pc' = "write"
      BY <1>11, <2>1, ZenonT(60) DEF BridgeIterate
    <3> QED
      BY <1>11, <3>1 DEF BridgeIterate, Ring!Take
  <2>2. CASE queue = <<>>
    BY <1>11, <2>2 DEF BridgeIterate
  <2> QED
    BY <2>1, <2>2
<1>12. CASE NothingIn
  BY <1>12 DEF NothingIn, Goto, ClearEmptyPacket
<1>13. CASE BridgeBusy
  BY <1>13 DEF BridgeBusy, Goto
<1>14. CASE SomethingIn
  BY <1>14 DEF SomethingIn, Goto
<1>15. CASE ReadAvailable
  BY <1>15 DEF ReadAvailable, Read, Goto
<1>16. CASE ReadPolls
  BY <1>16 DEF ReadPolls, ClearEmptyPacket
<1>17. CASE ReadStandIn
  BY <1>17 DEF ReadStandIn, Read, Goto
<1>18. CASE Putch
  BY <1>18 DEF Putch, Goto
<1>19. CASE EnterProgrammer
  BY <1>19 DEF EnterProgrammer, Ring!BeginClear, Lose
<1>20. CASE BootFirst
  BY <1>20 DEF BootFirst, Ring!EndClear
<1>21. CASE BootBytes
  BY <1>21 DEF BootBytes, Ring!Clear, Lose
<1>22. CASE BootDone
  BY <1>22 DEF BootDone
<1>23. CASE BridgeExit
  BY <1>23 DEF BridgeExit
<1>24. CASE Settled
  BY <1>24 DEF Settled, Ring!BeginClear, Lose, Goto
<1>25. CASE BackToTask
  BY <1>25 DEF BackToTask, Ring!EndClear
<1>26. CASE TIMER1_COMPA
  BY <1>26 DEF TIMER1_COMPA
<1>27. CASE UartSends
  BY <1>27 DEF UartSends
<1>28. CASE HostCollects
  BY <1>28 DEF HostCollects
<1>29. CASE EspSends
  <2>1. nextIn' \in 1 .. MaxIn + 1
    BY <1>29 DEF EspSends
  <2>2. Ring!Accept(nextIn) \/ UNCHANGED <<queue, hold, clearing>>
    BY <1>29, ZenonT(60) DEF EspSends
  <2>3. nextIn \in 1 .. MaxIn
    BY <1>29 DEF EspSends
  <2>4. queue' \in Seq(1 .. MaxIn) /\ hold' = hold
    <3>1. CASE Ring!Accept(nextIn)
      BY <2>3, <3>1 DEF Ring!Accept
    <3>2. CASE UNCHANGED <<queue, hold, clearing>>
      BY <3>2
    <3> QED
      BY <2>2, <3>1, <3>2
  <2> QED
    BY <1>29, <2>1, <2>4 DEF EspSends
<1>30. CASE HostPulsesRts
  BY <1>30 DEF HostPulsesRts
<1>31. CASE Unplug
  BY <1>31 DEF Unplug
<1>32. CASE Plug
  BY <1>32 DEF Plug, Lose
<1>33. ASSUME NEW n \in 0 .. EpSize, HostSends(n) PROVE Shape'
  BY <1>33 DEF HostSends
<1>34. CASE UNCHANGED vars
  BY <1>34 DEF vars
<1>35. CASE RunTasks
  BY <1>35 DEF RunTasks
<1>36. CASE MainResetsEsp
  BY <1>36 DEF MainResetsEsp
<1> QED
  BY ZenonT(60), <1>1, <1>2, <1>3, <1>4, <1>5, <1>6, <1>7, <1>8, <1>9, <1>10,
     <1>11, <1>12, <1>13, <1>14, <1>15, <1>16, <1>17, <1>18, <1>19, <1>20,
     <1>21, <1>22, <1>23, <1>24, <1>25, <1>26, <1>27, <1>28, <1>29, <1>30,
     <1>31, <1>32, <1>33, <1>34, <1>35, <1>36 DEF Next, Main, Environment

(* Every step keeps the account of the byte in hand.                       *)
LEMMA InHandStep == Shape /\ InHand /\ [Next]_vars => InHand'
<1> SUFFICES ASSUME Shape /\ InHand, [Next]_vars PROVE InHand'
  OBVIOUS
<1> USE SizeAssumption, TickAssumption, LimitAssumption
    DEF Shape, InHand, PC, flow, ring, inEp, out, env, history
<1>1. CASE WriteNow
  BY <1>1 DEF WriteNow, AfterWrite, Goto, Ring!PassOn, ReadWriteAllowed
<1>2. CASE WriteFull
  BY <1>2 DEF WriteFull, ClearIN, Goto, ReadWriteAllowed
<1>3. CASE WriteReady
  BY <1>3 DEF WriteReady, AfterWrite, Goto, Ring!PassOn
<1>4. CASE WriteGivenUp
  BY <1>4 DEF WriteGivenUp, AfterWrite, Goto, Ring!PassOn, Lose,
     endpoint_detached
<1>5. CASE FlushEmpty
  BY <1>5 DEF FlushEmpty, Goto
<1>6. CASE FlushBytes
  BY <1>6 DEF FlushBytes, ClearIN, Goto, ReadWriteAllowed
<1>7. CASE FlushFull
  BY <1>7 DEF FlushFull, ClearIN, Goto, FlushWaitEnds, endpoint_detached
<1>8. CASE FlushDone
  BY <1>8 DEF FlushDone, Goto, FlushWaitEnds, endpoint_detached
<1>9. CASE TaskTake
  BY <1>9 DEF TaskTake, Goto, Ring!Take
<1>10. CASE TaskEmpty
  BY <1>10 DEF TaskEmpty, Goto
<1>11. CASE BridgeIterate
  <2>1. CASE queue # <<>>
    <3>1. Ring!Take /\ pc' = "write"
      BY <1>11, <2>1, ZenonT(60) DEF BridgeIterate
    <3> QED
      BY <1>11, <3>1 DEF BridgeIterate, Ring!Take
  <2>2. CASE queue = <<>>
    BY <1>11, <2>2 DEF BridgeIterate
  <2> QED
    BY <2>1, <2>2
<1>12. CASE NothingIn
  BY <1>12 DEF NothingIn, Goto, ClearEmptyPacket
<1>13. CASE BridgeBusy
  BY <1>13 DEF BridgeBusy, Goto
<1>14. CASE SomethingIn
  BY <1>14 DEF SomethingIn, Goto
<1>15. CASE ReadAvailable
  BY <1>15 DEF ReadAvailable, Read, Goto
<1>16. CASE ReadPolls
  BY <1>16 DEF ReadPolls, ClearEmptyPacket
<1>17. CASE ReadStandIn
  BY <1>17 DEF ReadStandIn, Read, Goto
<1>18. CASE Putch
  BY <1>18 DEF Putch, Goto
<1>19. CASE EnterProgrammer
  BY <1>19 DEF EnterProgrammer, Ring!BeginClear, Lose
<1>20. CASE BootFirst
  BY <1>20 DEF BootFirst, Ring!EndClear
<1>21. CASE BootBytes
  BY <1>21 DEF BootBytes, Ring!Clear, Lose
<1>22. CASE BootDone
  BY <1>22 DEF BootDone
<1>23. CASE BridgeExit
  BY <1>23 DEF BridgeExit
<1>24. CASE Settled
  BY <1>24 DEF Settled, Ring!BeginClear, Lose, Goto
<1>25. CASE BackToTask
  BY <1>25 DEF BackToTask, Ring!EndClear
<1>26. CASE TIMER1_COMPA
  BY <1>26 DEF TIMER1_COMPA
<1>27. CASE UartSends
  BY <1>27 DEF UartSends
<1>28. CASE HostCollects
  BY <1>28 DEF HostCollects
<1>29. CASE EspSends
  BY <1>29 DEF EspSends, Ring!Accept, Lose
<1>30. CASE HostPulsesRts
  BY <1>30 DEF HostPulsesRts
<1>31. CASE Unplug
  BY <1>31 DEF Unplug
<1>32. CASE Plug
  BY <1>32 DEF Plug, Lose
<1>33. ASSUME NEW n \in 0 .. EpSize, HostSends(n) PROVE InHand'
  BY <1>33 DEF HostSends
<1>34. CASE UNCHANGED vars
  BY <1>34 DEF vars
<1>35. CASE RunTasks
  BY <1>35 DEF RunTasks
<1>36. CASE MainResetsEsp
  BY <1>36 DEF MainResetsEsp
<1> QED
  BY ZenonT(60), <1>1, <1>2, <1>3, <1>4, <1>5, <1>6, <1>7, <1>8, <1>9, <1>10,
     <1>11, <1>12, <1>13, <1>14, <1>15, <1>16, <1>17, <1>18, <1>19, <1>20,
     <1>21, <1>22, <1>23, <1>24, <1>25, <1>26, <1>27, <1>28, <1>29, <1>30,
     <1>31, <1>32, <1>33, <1>34, <1>35, <1>36 DEF Next, Main, Environment

(* Every step leaves the IN bank as the place it goes to expects it.       *)
LEMMA BankStep == Shape /\ BankInv /\ [Next]_vars => BankInv'
<1> SUFFICES ASSUME Shape /\ BankInv, [Next]_vars PROVE BankInv'
  OBVIOUS
<1> USE SizeAssumption, TickAssumption DEF Shape, PC, BankInv, BankAt,
   Waits, flow, inEp, history
<1>1. CASE WriteNow
  BY <1>1 DEF WriteNow, AfterWrite, Goto, Ring!PassOn, ReadWriteAllowed
<1>2. CASE WriteFull
  BY <1>2 DEF WriteFull, ClearIN, Goto, ReadWriteAllowed
<1>3. CASE WriteReady
  <2>1. /\ sent' = FALSE /\ bank' = Append(bank, Head(hold))
        /\ pc' \in {"loop", "flush", "in"} /\ (mode' = "task" => pc' # "in")
    BY ONLY <1>3 DEF WriteReady, AfterWrite, Goto
  <2>2. bank' # <<>>
    BY <2>1
  <2> QED
    BY ONLY <2>1, <2>2 DEF BankInv, BankAt, Waits
<1>4. CASE WriteGivenUp
  BY <1>4 DEF WriteGivenUp, AfterWrite, Goto, Ring!PassOn, Lose,
     endpoint_detached
<1>5. CASE FlushEmpty
  BY <1>5 DEF FlushEmpty, Goto
<1>6. CASE FlushBytes
  BY <1>6 DEF FlushBytes, ClearIN, Goto, ReadWriteAllowed
<1>7. CASE FlushFull
  <2>1. ~cut' => ~cut /\ ~sent
    BY <1>7, ZenonT(60) DEF FlushFull
  <2> QED
    BY <1>7, <2>1 DEF FlushFull, ClearIN, Goto
<1>8. CASE FlushDone
  <2>1. ~cut' => ~cut /\ ~sent
    BY <1>8, ZenonT(60) DEF FlushDone
  <2> QED
    BY <1>8, <2>1 DEF FlushDone, Goto
<1>9. CASE TaskTake
  BY <1>9 DEF TaskTake, Goto
<1>10. CASE TaskEmpty
  BY <1>10 DEF TaskEmpty, Goto
<1>11. CASE BridgeIterate
  BY <1>11 DEF BridgeIterate
<1>12. CASE NothingIn
  BY <1>12 DEF NothingIn, Goto
<1>13. CASE BridgeBusy
  BY <1>13 DEF BridgeBusy, Goto
<1>14. CASE SomethingIn
  BY <1>14 DEF SomethingIn, Goto
<1>15. CASE ReadAvailable
  BY <1>15 DEF ReadAvailable, Read, Goto
<1>16. CASE ReadPolls
  BY <1>16 DEF ReadPolls
<1>17. CASE ReadStandIn
  BY <1>17 DEF ReadStandIn, Read, Goto
<1>18. CASE Putch
  BY <1>18 DEF Putch, Goto
<1>19. CASE EnterProgrammer
  BY <1>19 DEF EnterProgrammer
<1>20. CASE BootFirst
  BY <1>20 DEF BootFirst
<1>21. CASE BootBytes
  BY <1>21 DEF BootBytes
<1>22. CASE BootDone
  BY <1>22 DEF BootDone
<1>23. CASE BridgeExit
  BY <1>23 DEF BridgeExit
<1>24. CASE Settled
  BY <1>24 DEF Settled, Goto
<1>25. CASE BackToTask
  BY <1>25 DEF BackToTask
<1>26. CASE TIMER1_COMPA
  BY <1>26 DEF TIMER1_COMPA
<1>27. CASE UartSends
  BY <1>27 DEF UartSends
<1>28. CASE HostCollects
  BY <1>28 DEF HostCollects
<1>29. CASE EspSends
  BY <1>29 DEF EspSends
<1>30. CASE HostPulsesRts
  BY <1>30 DEF HostPulsesRts
<1>31. CASE Unplug
  BY <1>31 DEF Unplug
<1>32. CASE Plug
  BY <1>32 DEF Plug
<1>33. ASSUME NEW n \in 0 .. EpSize, HostSends(n) PROVE BankInv'
  BY <1>33 DEF HostSends
<1>34. CASE UNCHANGED vars
  BY <1>34 DEF vars
<1>35. CASE RunTasks
  BY <1>35 DEF RunTasks
<1>36. CASE MainResetsEsp
  BY <1>36 DEF MainResetsEsp
<1> QED
  BY ZenonT(60), <1>1, <1>2, <1>3, <1>4, <1>5, <1>6, <1>7, <1>8, <1>9,
     <1>10, <1>11, <1>12, <1>13, <1>14, <1>15, <1>16, <1>17,
     <1>18, <1>19, <1>20, <1>21, <1>22, <1>23, <1>24, <1>25,
     <1>26, <1>27, <1>28, <1>29, <1>30, <1>31, <1>32, <1>33,
     <1>34, <1>35, <1>36
  DEF Next, Main, Environment

(* The flags are Boolean.                                                  *)
LEMMA FlagStep == Flags /\ [Next]_vars => Flags'
<1> SUFFICES ASSUME Flags, [Next]_vars PROVE Flags'
  OBVIOUS
<1> USE DEF Flags, flow, ring, inEp, out, env, history
<1>1. CASE WriteNow
  BY <1>1, ZenonT(60) DEF WriteNow, AfterWrite, Goto, Ring!PassOn
<1>2. CASE WriteFull
  BY <1>2, ZenonT(60) DEF WriteFull, ClearIN, Goto
<1>3. CASE WriteReady
  BY <1>3, ZenonT(60) DEF WriteReady, AfterWrite, Goto, Ring!PassOn
<1>4. CASE WriteGivenUp
  BY <1>4, ZenonT(60) DEF WriteGivenUp, AfterWrite, Goto, Ring!PassOn
<1>5. CASE FlushEmpty
  BY <1>5, ZenonT(60) DEF FlushEmpty, Goto
<1>6. CASE FlushBytes
  BY <1>6, ZenonT(60) DEF FlushBytes, ClearIN, Goto
<1>7. CASE FlushFull
  BY <1>7, ZenonT(60) DEF FlushFull, ClearIN, Goto
<1>8. CASE FlushDone
  BY <1>8, ZenonT(60) DEF FlushDone, Goto
<1>9. CASE TaskTake
  BY <1>9, ZenonT(60) DEF TaskTake, Goto, Ring!Take
<1>10. CASE TaskEmpty
  BY <1>10, ZenonT(60) DEF TaskEmpty, Goto
<1>11. CASE BridgeIterate
  BY <1>11, ZenonT(60) DEF BridgeIterate, Ring!Take
<1>12. CASE NothingIn
  BY <1>12, ZenonT(60) DEF NothingIn, Goto, ClearEmptyPacket
<1>13. CASE BridgeBusy
  BY <1>13, ZenonT(60) DEF BridgeBusy, Goto
<1>14. CASE SomethingIn
  BY <1>14, ZenonT(60) DEF SomethingIn, Goto
<1>15. CASE ReadAvailable
  BY <1>15, ZenonT(60) DEF ReadAvailable, Read, Goto
<1>16. CASE ReadPolls
  BY <1>16, ZenonT(60) DEF ReadPolls, ClearEmptyPacket
<1>17. CASE ReadStandIn
  BY <1>17, ZenonT(60) DEF ReadStandIn, Read, Goto
<1>18. CASE Putch
  BY <1>18, ZenonT(60) DEF Putch, Goto
<1>19. CASE EnterProgrammer
  BY <1>19, ZenonT(60) DEF EnterProgrammer, Ring!BeginClear
<1>20. CASE BootFirst
  BY <1>20, ZenonT(60) DEF BootFirst, Ring!EndClear
<1>21. CASE BootBytes
  BY <1>21, ZenonT(60) DEF BootBytes, Ring!Clear
<1>22. CASE BootDone
  BY <1>22, ZenonT(60) DEF BootDone
<1>23. CASE BridgeExit
  BY <1>23, ZenonT(60) DEF BridgeExit
<1>24. CASE Settled
  BY <1>24, ZenonT(60) DEF Settled, Ring!BeginClear, Goto
<1>25. CASE BackToTask
  BY <1>25, ZenonT(60) DEF BackToTask, Ring!EndClear
<1>26. CASE TIMER1_COMPA
  BY <1>26, ZenonT(60) DEF TIMER1_COMPA
<1>27. CASE UartSends
  BY <1>27, ZenonT(60) DEF UartSends
<1>28. CASE HostCollects
  BY <1>28, ZenonT(60) DEF HostCollects
<1>29. CASE EspSends
  BY <1>29, ZenonT(60) DEF EspSends, Ring!Accept
<1>30. CASE HostPulsesRts
  BY <1>30, ZenonT(60) DEF HostPulsesRts
<1>31. CASE Unplug
  BY <1>31, ZenonT(60) DEF Unplug
<1>32. CASE Plug
  BY <1>32, ZenonT(60) DEF Plug
<1>33. ASSUME NEW n \in 0 .. EpSize, HostSends(n) PROVE Flags'
  BY <1>33, ZenonT(60) DEF HostSends
<1>34. CASE UNCHANGED vars
  BY <1>34, ZenonT(60) DEF vars
<1>35. CASE RunTasks
  BY <1>35, ZenonT(60) DEF RunTasks
<1>36. CASE MainResetsEsp
  BY <1>36, ZenonT(60) DEF MainResetsEsp
<1> QED
  BY ZenonT(60), <1>1, <1>2, <1>3, <1>4, <1>5, <1>6, <1>7, <1>8, <1>9,
     <1>10, <1>11, <1>12, <1>13, <1>14, <1>15, <1>16, <1>17,
     <1>18, <1>19, <1>20, <1>21, <1>22, <1>23, <1>24, <1>25,
     <1>26, <1>27, <1>28, <1>29, <1>30, <1>31, <1>32, <1>33,
     <1>34, <1>35, <1>36
  DEF Next, Main, Environment

(* Only an abandoned usb_write_byte takes the byte in hand away without    *)
(* writing it to the bank.                                                 *)
LEMMA GivenUpStep ==
  Shape /\ [Next]_vars /\ hold # <<>> /\ hold' = <<>> /\ bank' = bank => WriteGivenUp
<1> SUFFICES ASSUME Shape, [Next]_vars, hold # <<>>, hold' = <<>>, bank' = bank
             PROVE  WriteGivenUp
  OBVIOUS
<1>1. UNCHANGED hold => FALSE
  OBVIOUS
<1>2. CASE WriteNow \/ WriteReady
  BY <1>2 DEF WriteNow, WriteReady, Shape
<1>3. CASE TaskTake \/ BridgeIterate
  BY <1>1, <1>3, ZenonT(60) DEF TaskTake, BridgeIterate, Ring!Take, ring
<1>4. CASE EspSends \/ EnterProgrammer \/ BootBytes \/ Settled \/ Plug
  BY <1>1, <1>4, ZenonT(60)
  DEF EspSends, EnterProgrammer, BootBytes, Settled, Plug, Ring!Accept,
      Ring!BeginClear, Ring!Clear, ring
<1>5. CASE UNCHANGED vars
  BY <1>1, <1>5, ZenonT(60) DEF vars, ring
<1>6. ASSUME NEW n \in 0 .. EpSize, HostSends(n) PROVE WriteGivenUp
  BY <1>1, <1>6, ZenonT(60) DEF HostSends, ring
<1>7. CASE TIMER1_COMPA \/ UartSends \/ HostCollects \/ HostPulsesRts \/ Unplug
  BY <1>1, <1>7, ZenonT(60)
  DEF TIMER1_COMPA, UartSends, HostCollects, HostPulsesRts, Unplug, ring
<1>8. CASE \/ TaskEmpty \/ WriteFull
           \/ FlushEmpty \/ FlushBytes \/ FlushFull \/ FlushDone
  BY <1>1, <1>8, ZenonT(60)
  DEF TaskEmpty, WriteFull, FlushEmpty, FlushBytes, FlushFull, FlushDone, ring
<1>9. CASE \/ NothingIn \/ BridgeBusy \/ SomethingIn
           \/ ReadAvailable \/ ReadPolls \/ ReadStandIn \/ Putch
           \/ BootFirst \/ BootDone \/ BridgeExit \/ BackToTask
           \/ RunTasks \/ MainResetsEsp
  BY <1>1, <1>9, ZenonT(60)
  DEF NothingIn, BridgeBusy, SomethingIn, ReadAvailable, ReadPolls,
      ReadStandIn, Putch, BootFirst, BootDone, BridgeExit, BackToTask,
      RunTasks, MainResetsEsp, Ring!EndClear, ring
<1> QED
  BY <1>2, <1>3, <1>4, <1>5, <1>6, <1>7, <1>8, <1>9, ZenonT(60)
  DEF Next, Main, Environment

-----------------------------------------------------------------------------
(* The theorems *)

(* The invariant holds from the start of the task loop on.                 *)
THEOREM Invariance == Spec => []Inv
<1>1. Init => Inv
  <2>1. Init => Shape /\ InHand /\ BankInv
    BY SizeAssumption, TickAssumption, LimitAssumption
    DEF Init, Ring!Init, Shape, InHand, BankInv, BankAt,
        PC
  <2>2. Init => Flags
    BY ZenonT(60) DEF Init, Ring!Init, Flags
  <2> QED
    BY <2>1, <2>2, ZenonT(60) DEF Inv
<1>2. Inv /\ [Next]_vars => Inv'
  BY ShapeStep, FlagStep, InHandStep, BankStep, ZenonT(60) DEF Inv
<1> QED
  BY <1>1, <1>2, PTL DEF Spec

(* The variables keep their types: no bank overflows.                      *)
THEOREM TypeCorrect == Spec => []TypeOK
<1>1. Inv => TypeOK
  <2> SUFFICES ASSUME Inv PROVE TypeOK
    OBVIOUS
  <2>1. {sent, received, rts_pulse, attached, clearing, cut} \subseteq BOOLEAN
    BY ZenonT(60) DEF Inv, Flags
  <2> QED
    BY <2>1 DEF Inv, Shape, TypeOK
<1> QED
  BY <1>1, Invariance, PTL

(* ESP8266_programmer gives a byte up, with the host attached, only after  *)
(* USB_COMM_TIMEOUT, whatever was sent before and however full the bank.   *)
THEOREM WaitsOutTheInterval == Spec => BridgeWaits
<1>1. Inv /\ [Next]_vars
        => [hold # <<>> /\ hold' = <<>> /\ bank' = bank /\ attached /\ mode = "bridge"
             => waited = CommTicks]_vars
  <2> SUFFICES ASSUME Inv, [Next]_vars, hold # <<>>, hold' = <<>>, bank' = bank,
                      attached, mode = "bridge"
               PROVE  waited = CommTicks
    BY ZenonT(60)
  <2>1. WriteGivenUp
    BY GivenUpStep, ZenonT(60) DEF Inv
  <2>2. Timeout = 0
    BY <2>1 DEF WriteGivenUp, endpoint_detached
  <2> QED
    BY <2>2, TickAssumption DEF Inv, InHand, Shape
<1> QED
  BY <1>1, Invariance, PTL DEF Spec, BridgeWaits

(* usb_flush of CDC_Task ends the transfer, however often main () restarts *)
(* Timeout: every byte is with the host, and the last packet was short,    *)
(* unless a wait was given up or the cable emptied the bank.               *)
THEOREM TransferEnded == Spec => []FlushEndsTransfer
<1>1. Inv => FlushEndsTransfer
  BY SizeAssumption DEF Inv, Shape, BankInv, BankAt, Waits, FlushEndsTransfer
<1> QED
  BY <1>1, Invariance, PTL
=============================================================================
