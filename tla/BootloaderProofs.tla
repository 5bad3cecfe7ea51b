-------------------------- MODULE BootloaderProofs --------------------------
(***************************************************************************)
(* For every choice of the intervals and every block size: the bootloader  *)
(* is type correct, never starts a sketch that is not there on its own,    *)
(* measures the hold of the reset switch, keeps the timer running whenever *)
(* a wait needs it, and recovers an ESP8266 left in its ROM bootloader.    *)
(***************************************************************************)
EXTENDS Bootloader, TLAPS

(* A leaf that names no prover is given to SMT, with a minute to answer.   *)
USE SMTT(60)

(* The types, with the counts of bytes that a reading or writing loop      *)
(* needs to stay natural numbers; and the Boolean variables.               *)
Kinds ==
    /\ pc \in PC
    /\ stage \in HoldStage \cup {"loop"}
    /\ left \in Nat
    /\ pc \in {"avr_arg", "blk_hdr", "blk_out_wait"} => left > 0
    /\ cmd \in {"-", "B", "g"}
    /\ Timeout \in Nat
    /\ boot_mode \in BootMode
    /\ esp \in {"app", "rom", "stranded"}
    /\ mcusr \subseteq ResetFlag
    /\ elapsed \in Nat

Flags ==
    /\ page0 \in BOOLEAN /\ timerOn \in BOOLEAN
    /\ sketch_available \in BOOLEAN /\ word0 \in BOOLEAN /\ rww \in BOOLEAN
    /\ attached \in BOOLEAN /\ setRts \in BOOLEAN /\ rts_pulse \in BOOLEAN
    /\ button \in BOOLEAN /\ bootKey \in BOOLEAN /\ quiet \in BOOLEAN
    /\ blockSeen \in BOOLEAN /\ hijack \in BOOLEAN

ProgrammerPC == AvrPC \cup {"esp_boot", "esp_bridge", "esp_out", "esp_settle"}

TaskPC == {"task_out", "task_flush", "task_in"}

BlockPC == {"blk_hdr", "blk_in", "blk_out", "blk_out_wait"}

(* Boot mode normal is reached through NormalBoot, with a sketch, or       *)
(* through a block command; only a block changes the flash, so without one *)
(* a sketch that was found is still there.                                 *)
ModeInv ==
    /\ pc = "reset" => boot_mode = "unset"
    /\ boot_mode = "0" => sketch_available \/ blockSeen
    /\ pc \in BlockPC => blockSeen
    /\ pc # "reset" /\ sketch_available /\ ~blockSeen => word0
    /\ NoStartWithoutSketch

(* Until a programmer runs, Timeout and the ticks already counted add up   *)
(* to the interval; the result is read with the interval over or the       *)
(* switch open; and a programmer inside check_reset is on record.          *)
HoldInv ==
    /\ pc \in {"check", "check_ret"} => stage \in HoldStage
    /\ pc = "loop" => stage = "loop"
    /\ pc \in {"check", "check_ret"} \cup TaskPC /\ stage \in HoldStage /\ ~hijack
         => Timeout + elapsed = HoldTicks[stage]
    /\ pc = "check_ret" /\ button => Timeout = 0
    /\ pc \in ProgrammerPC => stage = "loop" \/ hijack
    /\ pc = "reset" => Timeout = 0 /\ elapsed = 0 /\ ~hijack

(* The ESP8266 was rebooted before the stages after the second begin.      *)
EspInv ==
    /\ SwitchRecoversEsp
    /\ pc = "esp_settle_main" => esp # "stranded"
    /\ pc = "reset" => boot_mode = "unset" /\ stage = "stay"

Inv ==
    /\ Kinds
    /\ Flags
    /\ ModeInv
    /\ HoldInv
    /\ EspInv
    /\ TimerServesWaits

(* Every step keeps the variables in their types.                          *)
LEMMA KindStep ==
    Kinds /\ [Next]_vars => Kinds'
<1> SUFFICES ASSUME Kinds, [Next]_vars PROVE Kinds'
  OBVIOUS
<1> USE TicksAssumption, BoundAssumption DEF Kinds, PC, HoldStage,
        BootMode, ResetFlag, flow, timer, boot, flash, usb, board, history,
        rest, Moves, Counts
<1>1. CASE ResetToBootloader
  BY <1>1 DEF ResetToBootloader, SkipBootloader
<1>2. CASE KeepBootloader
  BY <1>2 DEF KeepBootloader, BeginCheck, SetTimeout
<1>3. CASE EspResetSettled
  BY <1>3 DEF EspResetSettled, BeginCheck, SetTimeout
<1>4. CASE EspReconfigure
  BY <1>4 DEF EspReconfigure, BeginCheck, SetTimeout
<1>5. CASE AvrArgument
  BY <1>5 DEF AvrArgument, GotoReading, ReadByte, endpoint_detached,
              HostSends
<1>6. CASE AvrWithArgument
  BY <1>6 DEF AvrWithArgument, GotoReading, AvrCommand, HostSends
<1>7. CASE BlockWrite
  BY <1>7 DEF BlockWrite, HostSends
<1>8. CASE TIMER1_COMPA
  BY <1>8 DEF TIMER1_COMPA
<1>9. CASE ResetToSketch
  BY <1>9 DEF ResetToSketch, start_sketch, SkipBootloader, Goto
<1>10. CASE CheckAgain
  BY <1>10 DEF CheckAgain, Goto
<1>11. CASE CheckDone
  BY <1>11 DEF CheckDone, Goto
<1>12. CASE NormalBoot
  BY <1>12 DEF NormalBoot, SetTimeout, EnterLoop
<1>13. CASE EspReset
  BY <1>13 DEF EspReset, Goto, SetTimeout
<1>14. CASE EspFactory
  BY <1>14 DEF EspFactory, EnterLoop
<1>15. CASE Released
  BY <1>15 DEF Released, EnterLoop
<1>16. CASE LoopAgain
  BY <1>16 DEF LoopAgain, Goto
<1>17. CASE LoopExit
  BY <1>17 DEF LoopExit, start_sketch, Goto
<1>18. CASE TaskOutNow
  BY <1>18 DEF TaskOutNow, Goto
<1>19. CASE TaskOutFlush
  BY <1>19 DEF TaskOutFlush, Goto
<1>20. CASE TaskFlushGivenUp
  BY <1>20 DEF TaskFlushGivenUp, Goto, endpoint_detached
<1>21. CASE TaskReturn
  BY <1>21 DEF TaskReturn, Goto, Caller
<1>22. CASE AvrTimeout
  BY <1>22 DEF AvrTimeout, Goto, Caller
<1>23. CASE AvrFlushGivenUp
  BY <1>23 DEF AvrFlushGivenUp, Goto, endpoint_detached
<1>24. CASE BlockSizeByte
  BY <1>24 DEF BlockSizeByte, GotoReading, ReadByte, endpoint_detached,
               HostSends
<1>25. CASE BlockBadType
  BY <1>25 DEF BlockBadType, BlockReturn, ReadByte, endpoint_detached,
               HostSends
<1>26. CASE BlockInStandIn
  BY <1>26 DEF BlockInStandIn, GotoReading, endpoint_detached
<1>27. CASE BlockCommit
  BY <1>27 DEF BlockCommit, GotoReading
<1>28. CASE BlockOutByte
  BY <1>28 DEF BlockOutByte, GotoReading
<1>29. CASE BlockOutFull
  BY <1>29 DEF BlockOutFull, Goto
<1>30. CASE BlockOutGivenUp
  BY <1>30 DEF BlockOutGivenUp, GotoReading, endpoint_detached
<1>31. CASE BlockEnd
  BY <1>31 DEF BlockEnd, BlockReturn
<1>32. CASE EspBooted
  BY <1>32 DEF EspBooted, Goto, SetTimeout
<1>33. CASE EspIterate
  BY <1>33 DEF EspIterate, SetTimeout
<1>34. CASE EspOutFull
  BY <1>34 DEF EspOutFull, Goto, SetTimeout
<1>35. CASE EspOutGivenUp
  BY <1>35 DEF EspOutGivenUp, Goto, endpoint_detached
<1>36. CASE EspRtsExit
  BY <1>36 DEF EspRtsExit, Goto, SetTimeout
<1>37. CASE EspSettled
  BY <1>37 DEF EspSettled, Goto, Caller
<1>38. CASE TaskFlushTaken
  BY <1>38 DEF TaskFlushTaken, Goto
<1>39. CASE TaskEsp
  BY <1>39 DEF TaskEsp, Goto, SetTimeout, NoteProgrammer, HostSends
<1>40. CASE TaskAvr
  BY <1>40 DEF TaskAvr, Goto, SetTimeout, NoteProgrammer, HostSends
<1>41. CASE AvrExit
  BY <1>41 DEF AvrExit, Goto, SetTimeout, AvrCommand, HostSends
<1>42. CASE AvrSimple
  BY <1>42 DEF AvrSimple, Goto, AvrCommand, HostSends
<1>43. CASE AvrFlushTaken
  BY <1>43 DEF AvrFlushTaken, Goto
<1>44. CASE AvrBlock("B")
  BY <1>44 DEF AvrBlock, SetTimeout, AvrCommand, HostSends
<1>45. CASE AvrBlock("g")
  BY <1>45 DEF AvrBlock, SetTimeout, AvrCommand, HostSends
<1>46. CASE BlockRead
  BY <1>46 DEF BlockRead, GotoReading, HostSends
<1>47. CASE BlockInByte
  BY <1>47 DEF BlockInByte, GotoReading
<1>48. CASE BlockOutTaken
  BY <1>48 DEF BlockOutTaken, GotoReading
<1>49. CASE EspPost
  BY <1>49 DEF EspPost, SetTimeout
<1>50. CASE EspOutTaken
  BY <1>50 DEF EspOutTaken, Goto
<1>51. CASE HostRaisesRts
  BY <1>51 DEF HostRaisesRts, Running
<1>52. CASE Plug
  BY <1>52 DEF Plug, Running
<1>53. CASE Unplug
  BY <1>53 DEF Unplug
<1>54. CASE Release
  BY <1>54 DEF Release
<1>55. CASE GoQuiet
  BY <1>55 DEF GoQuiet, Running
<1>56. CASE SetControlLineState
  BY <1>56 DEF SetControlLineState, RequestWaits, UsbTaskPC
<1>57. ASSUME NEW flags \in SUBSET ResetFlag, Reset(flags)
       PROVE  Kinds'
  BY <1>57 DEF Reset
<1>58. CASE UNCHANGED vars
  BY <1>58 DEF vars
<1> QED
  BY <1>1, <1>2, <1>3, <1>4, <1>5, <1>6, <1>7, <1>8, <1>9, <1>10, <1>11,
     <1>12, <1>13, <1>14, <1>15, <1>16, <1>17, <1>18, <1>19, <1>20, <1>21,
     <1>22, <1>23, <1>24, <1>25, <1>26, <1>27, <1>28, <1>29, <1>30, <1>31,
     <1>32, <1>33, <1>34, <1>35, <1>36, <1>37, <1>38, <1>39, <1>40, <1>41,
     <1>42, <1>43, <1>44, <1>45, <1>46, <1>47, <1>48, <1>49, <1>50, <1>51,
     <1>52, <1>53, <1>54, <1>55, <1>56, <1>57, <1>58,
     ZenonT(60) DEF Next, Main,
     MainStep, PeerStep, Environment

(* Every step keeps the Boolean variables Boolean.                         *)
LEMMA FlagStep ==
    Flags /\ [Next]_vars => Flags'
<1> SUFFICES ASSUME Flags, [Next]_vars PROVE Flags'
  OBVIOUS
<1> USE DEF Flags, flow, timer, boot, flash, usb, board, history, rest,
   Moves, Counts
<1>1. CASE BlockCommit
  BY <1>1 DEF BlockCommit, GotoReading
<1>2. CASE BlockWrite
  <2>1. /\ page0' \in BOOLEAN
        /\ word0' \in BOOLEAN
        /\ rww' \in BOOLEAN
        /\ timerOn' \in BOOLEAN
    BY <1>2, ZenonT(60) DEF BlockWrite
  <2>2. UNCHANGED <<sketch_available, attached, setRts, rts_pulse, button,
                    bootKey, quiet, blockSeen, hijack>>
    BY <1>2 DEF BlockWrite
  <2> QED
    BY <2>1, <2>2
<1>3. CASE ResetToSketch
  <2>1. /\ timerOn' \in BOOLEAN
        /\ sketch_available' \in BOOLEAN
        /\ bootKey' \in BOOLEAN
    BY <1>3, ZenonT(60) DEF ResetToSketch, start_sketch, Goto
  <2>2. UNCHANGED <<page0, word0, rww, attached, setRts, rts_pulse, button,
                    quiet, blockSeen, hijack>>
    BY <1>3 DEF ResetToSketch, start_sketch, Goto
  <2> QED
    BY <2>1, <2>2
<1>4. CASE ResetToBootloader
  <2>1. /\ timerOn' \in BOOLEAN
        /\ sketch_available' \in BOOLEAN
        /\ bootKey' \in BOOLEAN
    BY <1>4, ZenonT(60) DEF ResetToBootloader
  <2>2. UNCHANGED <<page0, word0, rww, attached, setRts, rts_pulse, button,
                    quiet, blockSeen, hijack>>
    BY <1>4 DEF ResetToBootloader
  <2> QED
    BY <2>1, <2>2
<1>5. CASE CheckAgain
  BY <1>5 DEF CheckAgain, Goto
<1>6. CASE CheckDone
  BY <1>6 DEF CheckDone, Goto
<1>7. CASE KeepBootloader
  <2>1. hijack' \in BOOLEAN
    BY <1>7, ZenonT(60) DEF KeepBootloader, BeginCheck, SetTimeout
  <2>2. UNCHANGED <<page0, timerOn, sketch_available, word0, rww, attached,
                    setRts, rts_pulse, button, bootKey, quiet, blockSeen>>
    BY <1>7 DEF KeepBootloader, BeginCheck, SetTimeout
  <2> QED
    BY <2>1, <2>2
<1>8. CASE NormalBoot
  <2>1. hijack' \in BOOLEAN
    BY <1>8, ZenonT(60) DEF NormalBoot, SetTimeout, EnterLoop
  <2>2. UNCHANGED <<page0, timerOn, sketch_available, word0, rww, attached,
                    setRts, rts_pulse, button, bootKey, quiet, blockSeen>>
    BY <1>8 DEF NormalBoot, SetTimeout, EnterLoop
  <2> QED
    BY <2>1, <2>2
<1>9. CASE EspReset
  BY <1>9 DEF EspReset, Goto, SetTimeout
<1>10. CASE EspResetSettled
  <2>1. hijack' \in BOOLEAN
    BY <1>10, ZenonT(60) DEF EspResetSettled, BeginCheck, SetTimeout
  <2>2. UNCHANGED <<page0, timerOn, sketch_available, word0, rww, attached,
                    setRts, rts_pulse, button, bootKey, quiet, blockSeen>>
    BY <1>10 DEF EspResetSettled, BeginCheck, SetTimeout
  <2> QED
    BY <2>1, <2>2
<1>11. CASE EspReconfigure
  <2>1. hijack' \in BOOLEAN
    BY <1>11, ZenonT(60) DEF EspReconfigure, BeginCheck, SetTimeout
  <2>2. UNCHANGED <<page0, timerOn, sketch_available, word0, rww, attached,
                    setRts, rts_pulse, button, bootKey, quiet, blockSeen>>
    BY <1>11 DEF EspReconfigure, BeginCheck, SetTimeout
  <2> QED
    BY <2>1, <2>2
<1>12. CASE EspFactory
  <2>1. hijack' \in BOOLEAN
    BY <1>12, ZenonT(60) DEF EspFactory, EnterLoop
  <2>2. UNCHANGED <<page0, timerOn, sketch_available, word0, rww, attached,
                    setRts, rts_pulse, button, bootKey, quiet, blockSeen>>
    BY <1>12 DEF EspFactory, EnterLoop
  <2> QED
    BY <2>1, <2>2
<1>13. CASE Released
  <2>1. hijack' \in BOOLEAN
    BY <1>13, ZenonT(60) DEF Released, EnterLoop
  <2>2. UNCHANGED <<page0, timerOn, sketch_available, word0, rww, attached,
                    setRts, rts_pulse, button, bootKey, quiet, blockSeen>>
    BY <1>13 DEF Released, EnterLoop
  <2> QED
    BY <2>1, <2>2
<1>14. CASE LoopAgain
  BY <1>14 DEF LoopAgain, Goto
<1>15. CASE LoopExit
  <2>1. /\ timerOn' \in BOOLEAN
        /\ attached' \in BOOLEAN
        /\ setRts' \in BOOLEAN
    BY <1>15, ZenonT(60) DEF LoopExit, start_sketch, Goto
  <2>2. UNCHANGED <<page0, sketch_available, word0, rww, rts_pulse, button,
                    bootKey, quiet, blockSeen, hijack>>
    BY <1>15 DEF LoopExit, start_sketch, Goto
  <2> QED
    BY <2>1, <2>2
<1>16. CASE TaskOutNow
  BY <1>16 DEF TaskOutNow, Goto
<1>17. CASE TaskOutFlush
  BY <1>17 DEF TaskOutFlush, Goto
<1>18. CASE TaskFlushGivenUp
  BY <1>18 DEF TaskFlushGivenUp, Goto
<1>19. CASE TaskReturn
  BY <1>19 DEF TaskReturn, Goto
<1>20. CASE AvrTimeout
  BY <1>20 DEF AvrTimeout, Goto
<1>21. CASE AvrArgument
  BY <1>21 DEF AvrArgument, GotoReading
<1>22. CASE AvrFlushGivenUp
  BY <1>22 DEF AvrFlushGivenUp, Goto
<1>23. CASE BlockSizeByte
  BY <1>23 DEF BlockSizeByte, GotoReading
<1>24. CASE BlockBadType
  <2>1. page0' \in BOOLEAN
    BY <1>24, ZenonT(60) DEF BlockBadType, BlockReturn
  <2>2. UNCHANGED <<timerOn, sketch_available, word0, rww, attached,
                    setRts, rts_pulse, button, bootKey, quiet, blockSeen,
                    hijack>>
    BY <1>24 DEF BlockBadType, BlockReturn
  <2> QED
    BY <2>1, <2>2
<1>25. CASE BlockInStandIn
  BY <1>25 DEF BlockInStandIn, GotoReading
<1>26. CASE BlockOutByte
  BY <1>26 DEF BlockOutByte, GotoReading
<1>27. CASE BlockOutFull
  BY <1>27 DEF BlockOutFull, Goto
<1>28. CASE BlockOutGivenUp
  BY <1>28 DEF BlockOutGivenUp, GotoReading
<1>29. CASE BlockEnd
  <2>1. /\ page0' \in BOOLEAN
        /\ timerOn' \in BOOLEAN
    BY <1>29, ZenonT(60) DEF BlockEnd, BlockReturn
  <2>2. UNCHANGED <<sketch_available, word0, rww, attached, setRts,
                    rts_pulse, button, bootKey, quiet, blockSeen, hijack>>
    BY <1>29 DEF BlockEnd, BlockReturn
  <2> QED
    BY <2>1, <2>2
<1>30. CASE EspBooted
  <2>1. rts_pulse' \in BOOLEAN
    BY <1>30, ZenonT(60) DEF EspBooted, Goto, SetTimeout
  <2>2. UNCHANGED <<page0, timerOn, sketch_available, word0, rww, attached,
                    setRts, button, bootKey, quiet, blockSeen, hijack>>
    BY <1>30 DEF EspBooted, Goto, SetTimeout
  <2> QED
    BY <2>1, <2>2
<1>31. CASE EspIterate
  BY <1>31 DEF EspIterate, SetTimeout
<1>32. CASE EspOutFull
  BY <1>32 DEF EspOutFull, Goto, SetTimeout
<1>33. CASE EspOutGivenUp
  BY <1>33 DEF EspOutGivenUp, Goto
<1>34. CASE EspRtsExit
  BY <1>34 DEF EspRtsExit, Goto, SetTimeout
<1>35. CASE EspSettled
  BY <1>35 DEF EspSettled, Goto
<1>36. CASE TaskFlushTaken
  BY <1>36 DEF TaskFlushTaken, Goto
<1>37. CASE TaskEsp
  BY <1>37 DEF TaskEsp, Goto, SetTimeout, NoteProgrammer
<1>38. CASE TaskAvr
  BY <1>38 DEF TaskAvr, Goto, SetTimeout, NoteProgrammer
<1>39. CASE AvrExit
  BY <1>39 DEF AvrExit, Goto, SetTimeout
<1>40. CASE AvrSimple
  BY <1>40 DEF AvrSimple, Goto
<1>41. CASE AvrWithArgument
  BY <1>41 DEF AvrWithArgument, GotoReading
<1>42. CASE AvrFlushTaken
  BY <1>42 DEF AvrFlushTaken, Goto
<1>43. CASE AvrBlock("B")
  BY <1>43 DEF AvrBlock, SetTimeout
<1>44. CASE AvrBlock("g")
  BY <1>44 DEF AvrBlock, SetTimeout
<1>45. CASE BlockRead
  <2>1. /\ timerOn' \in BOOLEAN
        /\ rww' \in BOOLEAN
    BY <1>45, ZenonT(60) DEF BlockRead, GotoReading
  <2>2. UNCHANGED <<page0, sketch_available, word0, attached, setRts,
                    rts_pulse, button, bootKey, quiet, blockSeen, hijack>>
    BY <1>45 DEF BlockRead, GotoReading
  <2> QED
    BY <2>1, <2>2
<1>46. CASE BlockInByte
  BY <1>46 DEF BlockInByte, GotoReading
<1>47. CASE BlockOutTaken
  BY <1>47 DEF BlockOutTaken, GotoReading
<1>48. CASE EspPost
  BY <1>48 DEF EspPost, SetTimeout
<1>49. CASE EspOutTaken
  BY <1>49 DEF EspOutTaken, Goto
<1>50. CASE HostRaisesRts
  BY <1>50 DEF HostRaisesRts
<1>51. CASE Plug
  BY <1>51 DEF Plug
<1>52. CASE Unplug
  <2>1. /\ attached' \in BOOLEAN
        /\ setRts' \in BOOLEAN
    BY <1>52, ZenonT(60) DEF Unplug
  <2>2. UNCHANGED <<page0, timerOn, sketch_available, word0, rww,
                    rts_pulse, button, bootKey, quiet, blockSeen, hijack>>
    BY <1>52 DEF Unplug
  <2> QED
    BY <2>1, <2>2
<1>53. CASE Release
  <2>1. button' \in BOOLEAN
    BY <1>53, ZenonT(60) DEF Release
  <2>2. UNCHANGED <<page0, timerOn, sketch_available, word0, rww, attached,
                    setRts, rts_pulse, bootKey, quiet, blockSeen, hijack>>
    BY <1>53 DEF Release
  <2> QED
    BY <2>1, <2>2
<1>54. CASE GoQuiet
  BY <1>54 DEF GoQuiet
<1>55. CASE SetControlLineState
  <2>1. /\ rts_pulse' \in BOOLEAN
        /\ setRts' \in BOOLEAN
    BY <1>55, ZenonT(60) DEF SetControlLineState, UsbTaskPC
  <2>2. UNCHANGED <<page0, timerOn, sketch_available, word0, rww, attached,
                    button, bootKey, quiet, blockSeen, hijack>>
    BY <1>55 DEF SetControlLineState, UsbTaskPC
  <2> QED
    BY <2>1, <2>2
<1>56. CASE TIMER1_COMPA
  BY <1>56 DEF TIMER1_COMPA
<1>57. ASSUME NEW flags \in SUBSET ResetFlag, Reset(flags)
       PROVE  Flags'
  <2>1. /\ page0' \in BOOLEAN /\ timerOn' \in BOOLEAN
        /\ sketch_available' \in BOOLEAN /\ rww' \in BOOLEAN
        /\ attached' \in BOOLEAN /\ setRts' \in BOOLEAN
    BY <1>57, ZenonT(60) DEF Reset
  <2>2. /\ rts_pulse' \in BOOLEAN /\ quiet' \in BOOLEAN
        /\ blockSeen' \in BOOLEAN /\ hijack' \in BOOLEAN
    BY <1>57, ZenonT(60) DEF Reset
  <2>3. word0' \in BOOLEAN
    BY <1>57, ZenonT(60) DEF Reset
  <2>4. button' \in BOOLEAN /\ bootKey' \in BOOLEAN
    BY <1>57, ZenonT(60) DEF Reset
  <2> QED
    BY <2>1, <2>2, <2>3, <2>4
<1>58. CASE UNCHANGED vars
  BY <1>58 DEF vars
<1> QED
  BY <1>1, <1>2, <1>3, <1>4, <1>5, <1>6, <1>7, <1>8, <1>9, <1>10, <1>11,
     <1>12, <1>13, <1>14, <1>15, <1>16, <1>17, <1>18, <1>19, <1>20, <1>21,
     <1>22, <1>23, <1>24, <1>25, <1>26, <1>27, <1>28, <1>29, <1>30, <1>31,
     <1>32, <1>33, <1>34, <1>35, <1>36, <1>37, <1>38, <1>39, <1>40, <1>41,
     <1>42, <1>43, <1>44, <1>45, <1>46, <1>47, <1>48, <1>49, <1>50, <1>51,
     <1>52, <1>53, <1>54, <1>55, <1>56, <1>57, <1>58,
     ZenonT(60) DEF Next, Main,
     MainStep, PeerStep, Environment

(* Every step keeps the boot mode justified.                               *)
LEMMA ModeStep ==
    ModeInv /\ [Next]_vars => ModeInv'
<1> SUFFICES ASSUME ModeInv, [Next]_vars PROVE ModeInv'
  OBVIOUS
<1> USE DEF ModeInv, BlockPC, NoStartWithoutSketch, boot, flash, history
<1>1. CASE ResetToSketch
  BY <1>1 DEF ResetToSketch, start_sketch, SkipBootloader, Goto
<1>2. CASE ResetToBootloader
  BY <1>2 DEF ResetToBootloader, SkipBootloader
<1>3. CASE NormalBoot
  BY <1>3 DEF NormalBoot, SetTimeout, EnterLoop
<1>4. CASE LoopExit
  BY <1>4 DEF LoopExit, start_sketch, Goto
<1>5. CASE CheckAgain \/ CheckDone \/ KeepBootloader \/ EspReset \/
           EspResetSettled \/ EspReconfigure \/ EspFactory
  BY <1>5 DEF CheckAgain, Goto, CheckDone, KeepBootloader, BeginCheck,
     SetTimeout, EspReset, EspResetSettled, EspReconfigure, EspFactory,
     EnterLoop, rest, Moves
<1>6. CASE Released \/ LoopAgain \/ TaskOutNow \/ TaskOutFlush \/
           TaskFlushGivenUp \/ TaskReturn \/ AvrTimeout
  BY <1>6 DEF Released, EnterLoop, LoopAgain, Goto, TaskOutNow, TaskOutFlush,
     TaskFlushGivenUp, endpoint_detached, TaskReturn, Caller, AvrTimeout,
     rest, Moves
<1>7. CASE AvrArgument \/ AvrFlushGivenUp \/ BlockSizeByte \/ BlockBadType
           \/ BlockInStandIn \/ BlockCommit \/ BlockOutByte
  BY <1>7 DEF AvrArgument, GotoReading, ReadByte, endpoint_detached,
     HostSends, AvrFlushGivenUp, Goto, BlockSizeByte, BlockBadType,
     BlockReturn, BlockInStandIn, BlockCommit, BlockOutByte, rest, Moves,
     Counts
<1>8. CASE BlockOutFull \/ BlockOutGivenUp \/ BlockEnd \/ EspBooted \/
           EspIterate \/ EspOutFull \/ EspOutGivenUp
  BY <1>8 DEF BlockOutFull, Goto, BlockOutGivenUp, GotoReading,
     endpoint_detached, BlockEnd, BlockReturn, EspBooted, SetTimeout,
     EspIterate, EspOutFull, EspOutGivenUp, flow, rest, Moves, Counts
<1>9. CASE EspRtsExit \/ EspSettled \/ TaskFlushTaken \/ TaskEsp \/
           TaskAvr \/ AvrExit \/ AvrSimple
  BY <1>9 DEF EspRtsExit, Goto, SetTimeout, EspSettled, Caller,
     TaskFlushTaken, TaskEsp, NoteProgrammer, HostSends, TaskAvr, AvrExit,
     AvrCommand, AvrSimple, rest, Moves
<1>10. CASE AvrWithArgument \/ AvrFlushTaken \/ AvrBlock("B") \/
            AvrBlock("g") \/ BlockRead \/ BlockWrite \/ BlockInByte
  BY <1>10 DEF AvrWithArgument, GotoReading, AvrCommand, HostSends,
     AvrFlushTaken, Goto, AvrBlock, SetTimeout, BlockRead, BlockWrite,
     BlockInByte, rest, Moves, Counts
<1>11. CASE BlockOutTaken \/ EspPost \/ EspOutTaken \/ HostRaisesRts \/
            Plug \/ Unplug \/ Release
  BY <1>11 DEF BlockOutTaken, GotoReading, EspPost, SetTimeout, EspOutTaken,
     Goto, HostRaisesRts, Running, Plug, Unplug, Release, flow, rest, Moves,
     Counts
<1>12. CASE GoQuiet \/ SetControlLineState \/ TIMER1_COMPA
  BY <1>12 DEF GoQuiet, Running, SetControlLineState, RequestWaits, UsbTaskPC,
     TIMER1_COMPA, flow
<1>13. ASSUME NEW flags \in SUBSET ResetFlag, Reset(flags)
       PROVE  ModeInv'
  BY <1>13 DEF Reset
<1>14. CASE UNCHANGED vars
  BY <1>14 DEF vars, flow, rest
<1> QED
  BY <1>1, <1>2, <1>3, <1>4, <1>5, <1>6, <1>7, <1>8, <1>9, <1>10, <1>11,
     <1>12, <1>13, <1>14, ZenonT(60) DEF Next, Main, MainStep, PeerStep,
     Environment

(* Every step keeps the ticks of check_reset accounted for.                *)
LEMMA HoldStep ==
    Kinds /\ HoldInv /\ [Next]_vars => HoldInv'
<1> SUFFICES ASSUME Kinds, HoldInv, [Next]_vars PROVE HoldInv'
  OBVIOUS
<1> USE DEF HoldInv
<1>1. CASE ResetToBootloader
  BY <1>1, TicksAssumption DEF ResetToBootloader, SkipBootloader, HoldStage,
     AvrPC, ProgrammerPC, history
<1>2. CASE CheckDone
  BY <1>2 DEF CheckDone, Goto, Kinds, AvrPC, ProgrammerPC, timer, board,
     history, rest, Moves
<1>3. CASE KeepBootloader
  BY <1>3, TicksAssumption DEF KeepBootloader, BeginCheck, SetTimeout,
     HoldStage, AvrPC, ProgrammerPC
<1>4. CASE EspResetSettled
  BY <1>4, TicksAssumption DEF EspResetSettled, BeginCheck, SetTimeout,
     HoldStage, AvrPC, ProgrammerPC
<1>5. CASE EspReconfigure
  BY <1>5, TicksAssumption DEF EspReconfigure, BeginCheck, SetTimeout,
     HoldStage, AvrPC, ProgrammerPC
<1>6. CASE LoopAgain
  BY <1>6 DEF LoopAgain, Goto, HoldStage, Moves
<1>7. CASE TaskReturn
  BY <1>7 DEF TaskReturn, Goto, Caller, Kinds, AvrPC, ProgrammerPC, TaskPC,
     timer, history, rest, Moves
<1>8. CASE AvrTimeout
  BY <1>8 DEF AvrTimeout, Goto, Caller, Kinds, AvrPC, ProgrammerPC, TaskPC,
     history, rest, Moves
<1>9. CASE EspSettled
  BY <1>9 DEF EspSettled, Goto, Caller, Kinds, ProgrammerPC, TaskPC, history,
     rest, Moves
<1>10. CASE TaskEsp
  BY <1>10, ZenonT(60) DEF TaskEsp, Goto, SetTimeout, NoteProgrammer, TaskPC
<1>11. CASE TaskAvr
  BY <1>11, ZenonT(60) DEF TaskAvr, Goto, SetTimeout, NoteProgrammer, TaskPC
<1>12. CASE Release
  BY <1>12 DEF Release, flow, timer, history
<1>13. CASE TIMER1_COMPA
  <2>1. /\ Timeout > 0 /\ Timeout' = Timeout - 1
        /\ UNCHANGED <<pc, stage, button, hijack>>
    BY <1>13 DEF TIMER1_COMPA, flow, board
  <2>2. ASSUME pc \in {"check", "check_ret"} \cup TaskPC, stage \in HoldStage,
               ~hijack
        PROVE  Timeout' + elapsed' = HoldTicks[stage]
    <3>1. Timeout + elapsed = HoldTicks[stage]
      BY <2>2
    <3>2. elapsed < HoldTicks[stage]
      BY <2>1, <3>1 DEF Kinds
    <3>3. elapsed' = elapsed + 1
      BY <1>13, <2>2, <3>2 DEF TIMER1_COMPA
    <3> QED
      BY <2>1, <3>1, <3>3 DEF Kinds
  <2>3. pc # "reset"
    BY <2>1
  <2> QED
    BY <2>1, <2>2, <2>3
<1>14. CASE ResetToSketch \/ CheckAgain \/ NormalBoot \/ EspReset \/
            EspFactory \/ Released \/ LoopExit
  BY <1>14 DEF ResetToSketch, start_sketch, SkipBootloader, Goto, CheckAgain,
     NormalBoot, SetTimeout, EnterLoop, EspReset, EspFactory, Released,
     LoopExit, AvrPC, ProgrammerPC, TaskPC, timer, history, rest, Moves
<1>15. CASE TaskOutNow \/ TaskOutFlush \/ TaskFlushGivenUp \/ AvrArgument
            \/ AvrFlushGivenUp \/ BlockSizeByte \/ BlockBadType
  BY <1>15 DEF TaskOutNow, Goto, TaskOutFlush, TaskFlushGivenUp,
     endpoint_detached, AvrArgument, GotoReading, ReadByte, HostSends,
     AvrFlushGivenUp, BlockSizeByte, BlockBadType, BlockReturn, AvrPC,
     ProgrammerPC, TaskPC, timer, history, rest, Moves, Counts
<1>16. CASE BlockInStandIn \/ BlockCommit \/ BlockOutByte \/ BlockOutFull
            \/ BlockOutGivenUp \/ BlockEnd \/ EspBooted
  BY <1>16 DEF BlockInStandIn, GotoReading, endpoint_detached, BlockCommit,
     BlockOutByte, BlockOutFull, Goto, BlockOutGivenUp, BlockEnd, BlockReturn,
     EspBooted, SetTimeout, AvrPC, ProgrammerPC, TaskPC, history, rest, Moves,
     Counts
<1>17. CASE EspIterate \/ EspOutFull \/ EspOutGivenUp \/ EspRtsExit \/
            TaskFlushTaken \/ AvrExit \/ AvrSimple
  BY <1>17 DEF EspIterate, SetTimeout, EspOutFull, Goto, EspOutGivenUp,
     endpoint_detached, EspRtsExit, TaskFlushTaken, AvrExit, AvrCommand,
     HostSends, AvrSimple, AvrPC, ProgrammerPC, TaskPC, flow, timer, history,
     rest, Moves
<1>18. CASE AvrWithArgument \/ AvrFlushTaken \/ AvrBlock("B") \/
            AvrBlock("g") \/ BlockRead \/ BlockWrite \/ BlockInByte
  BY <1>18 DEF AvrWithArgument, GotoReading, AvrCommand, HostSends,
     AvrFlushTaken, Goto, AvrBlock, SetTimeout, BlockRead, BlockWrite,
     BlockInByte, AvrPC, ProgrammerPC, TaskPC, history, rest, Moves, Counts
<1>19. CASE BlockOutTaken \/ EspPost \/ EspOutTaken \/ HostRaisesRts \/
            Plug \/ Unplug \/ GoQuiet
  BY <1>19 DEF BlockOutTaken, GotoReading, EspPost, SetTimeout, EspOutTaken,
     Goto, HostRaisesRts, Running, Plug, Unplug, GoQuiet, AvrPC, ProgrammerPC,
     TaskPC, flow, timer, board, history, rest, Moves, Counts
<1>20. CASE SetControlLineState
  BY <1>20 DEF SetControlLineState, RequestWaits, UsbTaskPC, flow, timer,
     history
<1>21. ASSUME NEW flags \in SUBSET ResetFlag, Reset(flags)
       PROVE  HoldInv'
  BY <1>21 DEF Reset, AvrPC, ProgrammerPC, TaskPC
<1>22. CASE UNCHANGED vars
  BY <1>22 DEF vars, flow, timer, board, history, rest
<1> QED
  BY <1>1, <1>2, <1>3, <1>4, <1>5, <1>6, <1>7, <1>8, <1>9, <1>10, <1>11,
     <1>12, <1>13, <1>14, <1>15, <1>16, <1>17, <1>18, <1>19, <1>20, <1>21,
     <1>22, ZenonT(60) DEF Next, Main, MainStep, PeerStep, Environment

(* A stage after the second begins only when the ESP8266 was rebooted.     *)
LEMMA EspStep ==
    EspInv /\ [Next]_vars => EspInv'
<1> SUFFICES ASSUME EspInv, [Next]_vars PROVE EspInv'
  OBVIOUS
<1> USE DEF EspInv, SwitchRecoversEsp, boot, board
<1>1. CASE EspReset
  BY <1>1 DEF EspReset, Goto, SetTimeout
<1>2. CASE EspRtsExit
  BY <1>2 DEF EspRtsExit, Goto, SetTimeout
<1>3. CASE TaskEsp
  BY <1>3 DEF TaskEsp, Goto, SetTimeout, NoteProgrammer, HostSends
<1>4. CASE ResetToSketch \/ ResetToBootloader \/ CheckAgain \/ CheckDone
           \/ KeepBootloader \/ NormalBoot \/ EspResetSettled
  BY <1>4 DEF ResetToSketch, start_sketch, SkipBootloader, Goto,
     ResetToBootloader, CheckAgain, CheckDone, KeepBootloader, BeginCheck,
     SetTimeout, NormalBoot, EnterLoop, EspResetSettled, rest, Moves
<1>5. CASE EspReconfigure \/ EspFactory \/ Released \/ LoopAgain \/
           LoopExit \/ TaskOutNow \/ TaskOutFlush
  BY <1>5 DEF EspReconfigure, BeginCheck, SetTimeout, EspFactory, EnterLoop,
     Released, LoopAgain, Goto, LoopExit, start_sketch, TaskOutNow,
     TaskOutFlush, rest, Moves
<1>6. CASE TaskFlushGivenUp \/ TaskReturn \/ AvrTimeout \/ AvrArgument \/
           AvrFlushGivenUp \/ BlockSizeByte \/ BlockBadType
  BY <1>6 DEF TaskFlushGivenUp, Goto, endpoint_detached, TaskReturn, Caller,
     AvrTimeout, AvrArgument, GotoReading, ReadByte, HostSends,
     AvrFlushGivenUp, BlockSizeByte, BlockBadType, BlockReturn, rest, Moves,
     Counts
<1>7. CASE BlockInStandIn \/ BlockCommit \/ BlockOutByte \/ BlockOutFull
           \/ BlockOutGivenUp \/ BlockEnd \/ EspBooted
  BY <1>7 DEF BlockInStandIn, GotoReading, endpoint_detached, BlockCommit,
     BlockOutByte, BlockOutFull, Goto, BlockOutGivenUp, BlockEnd, BlockReturn,
     EspBooted, SetTimeout, rest, Moves, Counts
<1>8. CASE EspIterate \/ EspOutFull \/ EspOutGivenUp \/ EspSettled \/
           TaskFlushTaken \/ TaskAvr \/ AvrExit
  BY <1>8 DEF EspIterate, SetTimeout, EspOutFull, Goto, EspOutGivenUp,
     endpoint_detached, EspSettled, Caller, TaskFlushTaken, TaskAvr,
     NoteProgrammer, HostSends, AvrExit, AvrCommand, flow, rest, Moves
<1>9. CASE AvrSimple \/ AvrWithArgument \/ AvrFlushTaken \/ AvrBlock("B")
           \/ AvrBlock("g") \/ BlockRead \/ BlockWrite
  BY <1>9 DEF AvrSimple, Goto, AvrCommand, HostSends, AvrWithArgument,
     GotoReading, AvrFlushTaken, AvrBlock, SetTimeout, BlockRead, BlockWrite,
     rest, Moves, Counts
<1>10. CASE BlockInByte \/ BlockOutTaken \/ EspPost \/ EspOutTaken \/
            HostRaisesRts \/ Plug \/ Unplug
  BY <1>10 DEF BlockInByte, GotoReading, BlockOutTaken, EspPost, SetTimeout,
     EspOutTaken, Goto, HostRaisesRts, Running, Plug, Unplug, flow, rest,
     Moves, Counts
<1>11. CASE Release \/ GoQuiet \/ SetControlLineState \/ TIMER1_COMPA
  BY <1>11 DEF Release, GoQuiet, Running, SetControlLineState, RequestWaits,
     UsbTaskPC, TIMER1_COMPA, flow
<1>12. ASSUME NEW flags \in SUBSET ResetFlag, Reset(flags)
       PROVE  EspInv'
  BY <1>12 DEF Reset
<1>13. CASE UNCHANGED vars
  BY <1>13 DEF vars, flow, rest
<1> QED
  BY <1>1, <1>2, <1>3, <1>4, <1>5, <1>6, <1>7, <1>8, <1>9, <1>10, <1>11,
     <1>12, <1>13, ZenonT(60) DEF Next, Main, MainStep, PeerStep, Environment

(* Every way out of ReadWriteMemoryBlock leaves the timer interrupt on.    *)
LEMMA TimerStep ==
    TimerServesWaits /\ [Next]_vars => TimerServesWaits'
<1> SUFFICES ASSUME TimerServesWaits, [Next]_vars PROVE TimerServesWaits'
  OBVIOUS
<1> USE DEF TimerServesWaits, timer
<1>1. CASE EspReset
  BY <1>1 DEF EspReset, Goto, SetTimeout
<1>2. CASE EspRtsExit
  BY <1>2 DEF EspRtsExit, Goto, SetTimeout
<1>3. CASE TaskEsp
  BY <1>3 DEF TaskEsp, Goto, SetTimeout, NoteProgrammer, HostSends
<1>4. CASE ResetToSketch \/ ResetToBootloader \/ CheckAgain \/ CheckDone
           \/ KeepBootloader \/ NormalBoot \/ EspResetSettled
  BY <1>4 DEF ResetToSketch, start_sketch, SkipBootloader, Goto,
     ResetToBootloader, CheckAgain, CheckDone, KeepBootloader, BeginCheck,
     SetTimeout, NormalBoot, EnterLoop, EspResetSettled, rest, Moves
<1>5. CASE EspReconfigure \/ EspFactory \/ Released \/ LoopAgain \/
           LoopExit \/ TaskOutNow \/ TaskOutFlush
  BY <1>5 DEF EspReconfigure, BeginCheck, SetTimeout, EspFactory, EnterLoop,
     Released, LoopAgain, Goto, LoopExit, start_sketch, TaskOutNow,
     TaskOutFlush, rest, Moves
<1>6. CASE TaskFlushGivenUp \/ TaskReturn \/ AvrTimeout \/ AvrArgument \/
           AvrFlushGivenUp \/ BlockSizeByte \/ BlockBadType
  BY <1>6 DEF TaskFlushGivenUp, Goto, endpoint_detached, TaskReturn, Caller,
     AvrTimeout, AvrArgument, GotoReading, ReadByte, HostSends,
     AvrFlushGivenUp, BlockSizeByte, BlockBadType, BlockReturn, rest, Moves,
     Counts
<1>7. CASE BlockInStandIn \/ BlockCommit \/ BlockOutByte \/ BlockOutFull
           \/ BlockOutGivenUp \/ BlockEnd \/ EspBooted
  BY <1>7 DEF BlockInStandIn, GotoReading, endpoint_detached, BlockCommit,
     BlockOutByte, BlockOutFull, Goto, BlockOutGivenUp, BlockEnd, BlockReturn,
     EspBooted, SetTimeout, rest, Moves, Counts
<1>8. CASE EspIterate \/ EspOutFull \/ EspOutGivenUp \/ EspSettled \/
           TaskFlushTaken \/ TaskAvr \/ AvrExit
  BY <1>8 DEF EspIterate, SetTimeout, EspOutFull, Goto, EspOutGivenUp,
     endpoint_detached, EspSettled, Caller, TaskFlushTaken, TaskAvr,
     NoteProgrammer, HostSends, AvrExit, AvrCommand, flow, rest, Moves
<1>9. CASE AvrSimple \/ AvrWithArgument \/ AvrFlushTaken \/ AvrBlock("B")
           \/ AvrBlock("g") \/ BlockRead \/ BlockWrite
  BY <1>9 DEF AvrSimple, Goto, AvrCommand, HostSends, AvrWithArgument,
     GotoReading, AvrFlushTaken, AvrBlock, SetTimeout, BlockRead, BlockWrite,
     rest, Moves, Counts
<1>10. CASE BlockInByte \/ BlockOutTaken \/ EspPost \/ EspOutTaken \/
            HostRaisesRts \/ Plug \/ Unplug
  BY <1>10 DEF BlockInByte, GotoReading, BlockOutTaken, EspPost, SetTimeout,
     EspOutTaken, Goto, HostRaisesRts, Running, Plug, Unplug, flow, rest,
     Moves, Counts
<1>11. CASE Release \/ GoQuiet \/ SetControlLineState \/ TIMER1_COMPA
  BY <1>11 DEF Release, GoQuiet, Running, SetControlLineState, RequestWaits,
     UsbTaskPC, TIMER1_COMPA, flow
<1>12. ASSUME NEW flags \in SUBSET ResetFlag, Reset(flags)
       PROVE  TimerServesWaits'
  BY <1>12 DEF Reset
<1>13. CASE UNCHANGED vars
  BY <1>13 DEF vars, flow, rest
<1> QED
  BY <1>1, <1>2, <1>3, <1>4, <1>5, <1>6, <1>7, <1>8, <1>9, <1>10, <1>11,
     <1>12, <1>13, ZenonT(60) DEF Next, Main, MainStep, PeerStep, Environment

(* The inductive invariant holds in every state of the bootloader.         *)
THEOREM Invariance == Spec => []Inv
<1>1. Init => Inv
  <2> SUFFICES ASSUME Init PROVE Inv
    OBVIOUS
  <2>1. Kinds
    BY DEF Init, Kinds, PC, HoldStage, BootMode
  <2>2. Flags
    BY ZenonT(60) DEF Init, Flags
  <2>3. ModeInv /\ HoldInv /\ EspInv /\ TimerServesWaits
    BY DEF Init, ModeInv, BlockPC, NoStartWithoutSketch, HoldInv, AvrPC, ProgrammerPC,
           TaskPC, EspInv, SwitchRecoversEsp,
           TimerServesWaits
  <2> QED
    BY <2>1, <2>2, <2>3 DEF Inv
<1>2. Inv /\ [Next]_vars => Inv'
  BY KindStep, FlagStep, ModeStep, HoldStep, EspStep, TimerStep DEF Inv
<1> QED
  BY <1>1, <1>2, PTL DEF Spec

(* All variables keep their types.                                         *)
THEOREM TypeCorrect == Spec => []TypeOK
<1>1. Inv => TypeOK
  BY DEF Inv, Kinds, Flags, TypeOK
<1> QED
  BY <1>1, Invariance, PTL

(* Without a block command of the host, main() reaches start_sketch only   *)
(* with a sketch that was found after the reset and is still there.        *)
THEOREM SketchNeeded == Spec => []NoStartWithoutSketch
<1>1. Inv => NoStartWithoutSketch
  BY DEF Inv, ModeInv
<1> QED
  BY <1>1, Invariance, PTL

(* check_reset answers "pressed" after all the ticks of its interval, when *)
(* no programmer ran meanwhile.                                            *)
THEOREM HoldIsMeasured == Spec => []HoldMeasured
<1>1. Inv => HoldMeasured
  <2> SUFFICES ASSUME Inv, pc = "check_ret", button, ~hijack
               PROVE  elapsed = HoldTicks[stage]
    BY DEF HoldMeasured
  <2>1. stage \in HoldStage /\ Timeout = 0 /\ Timeout + elapsed = HoldTicks[stage]
    BY DEF Inv, HoldInv
  <2> QED
    BY <2>1 DEF Inv, Kinds
<1> QED
  BY <1>1, Invariance, PTL

(* The timer interrupt is off only where the data of a block are moved,    *)
(* and when the sketch is started.                                         *)
THEOREM TimerKept == Spec => []TimerServesWaits
<1>1. Inv => TimerServesWaits
  BY DEF Inv
<1> QED
  BY <1>1, Invariance, PTL

(* Holding the switch for the second interval brings back an ESP8266 that  *)
(* a reset of the AVR left in its ROM bootloader.                          *)
THEOREM EspRecovered == Spec => []SwitchRecoversEsp
<1>1. Inv => SwitchRecoversEsp
  BY DEF Inv, EspInv
<1> QED
  BY <1>1, Invariance, PTL
=============================================================================
