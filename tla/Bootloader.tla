----------------------------- MODULE Bootloader -----------------------------
(***************************************************************************)
(* The control of the AVR bootloader (Adelino.c): what main() decides      *)
(* after a reset, the reset-button chain, the task loop, the AVR-109       *)
(* programmer with its block transfers, the ESP8266 programmer, and the    *)
(* 50 ms timer interrupt that counts Timeout down.                         *)
(*                                                                         *)
(* Every loop in which the code waits is a value of pc; the iterations in  *)
(* which it finds nothing to do are stuttering steps.  The host, the       *)
(* ESP8266, the cable and the button are the environment.  Bytes are       *)
(* abstracted to what the control distinguishes; UartRing and FlashBlock   *)
(* model the data.                                                         *)
(***************************************************************************)
EXTENDS Naturals

CONSTANTS
    HoldTicks,      \* ACT_*: ticks of each stage of the reset-button chain
    BootTicks,      \* ACT_BOOTLOADER_TIMEOUT
    AvrTicks,       \* AVR_PROGRAMMER_TIMEOUT
    ExitTicks,      \* TICKS_MS(500), after command 'E'
    EspTicks,       \* ESP_PROGRAMMER_TIMEOUT
    CommTicks,      \* USB_COMM_TIMEOUT
    SettleTicks,    \* TICKS_MS(350), in reset_esp_and_wait
    MaxBlock,       \* bound: the largest BlockSize the host asks for
    Resets          \* whether the board can be reset again

HoldStage == {"stay", "reset_esp", "reconf", "factory"}

ASSUME TicksAssumption ==
    /\ HoldTicks \in [HoldStage -> Nat \ {0}]
    /\ BootTicks \in Nat \ {0}
    /\ AvrTicks \in Nat \ {0}
    /\ ExitTicks \in Nat \ {0}
    /\ EspTicks \in Nat \ {0}
    /\ CommTicks \in Nat \ {0}
    /\ SettleTicks \in Nat \ {0}
ASSUME BoundAssumption == MaxBlock \in Nat /\ Resets \in BOOLEAN

VARIABLES
    pc,         \* the loop or statement the main program is at
    stage,      \* the call of check_reset in progress, or "loop"
    left,       \* bytes still to be read or written by the operation at pc
    cmd,        \* the block command in progress
    page0,      \* the block being written is the first page of the flash
    Timeout,
    timerOn,    \* TIMSK1: the timer interrupt is enabled
    boot_mode,
    sketch_available,   \* main's local, read once after the reset
    word0,      \* flash word 0 is not 0xFFFF
    rww,        \* the application section of the flash can be read
    attached,   \* USB_DeviceState # DEVICE_STATE_Unattached
    setRts,     \* a SetControlLineState(RTS) waits in the control endpoint
    rts_pulse,
    button,     \* the reset switch is closed
    esp,        \* how the ESP8266 was last booted: "app" or "rom"; "rom" after
                \* the AVR was reset behind its back is "stranded"
    mcusr,      \* MCUSR: the flags of the last reset
    bootKey,    \* the word at 0x0800 holds the boot key
    quiet,      \* the host and the ESP8266 start nothing any more
    blockSeen,  \* history: a block command was received since the reset
    elapsed,    \* history: ticks since the check_reset in progress began
    hijack      \* history: a programmer ran inside that check_reset

flow == <<pc, stage, left, cmd, page0>>
timer == <<Timeout, timerOn>>
boot == <<boot_mode, sketch_available>>
flash == <<word0, rww>>
usb == <<attached, setRts, rts_pulse>>
board == <<button, esp, mcusr, bootKey, quiet>>
history == <<blockSeen, elapsed, hijack>>

rest == <<timer, boot, flash, usb, board, history>>

vars == <<flow, rest>>

PC == {"reset", "check", "check_ret", "loop", "sketch",
       "task_out", "task_flush", "task_in",
       "avr", "avr_arg", "avr_flush",
       "blk_hdr", "blk_in", "blk_out", "blk_out_wait",
       "esp_boot", "esp_bridge", "esp_out", "esp_settle", "esp_settle_main"}

BootMode == {"unset", "0", "1", "R", "E", "F"}

\* The flags main () tests; a brown-out sets BORF, which is not one of them.
ResetFlag == {"EXTRF", "PORF", "WDRF"}

Init ==
    /\ pc = "reset" /\ stage = "stay" /\ left = 0 /\ cmd = "-" /\ page0 = FALSE
    /\ Timeout = 0 /\ timerOn = FALSE
    /\ boot_mode = "unset" /\ sketch_available = FALSE
    /\ word0 \in BOOLEAN /\ rww = TRUE
    /\ attached = FALSE /\ setRts = FALSE /\ rts_pulse = FALSE
    /\ button \in BOOLEAN /\ esp = "app" /\ bootKey \in BOOLEAN /\ quiet = FALSE
    /\ mcusr \in SUBSET ResetFlag /\ "PORF" \in mcusr
    /\ blockSeen = FALSE /\ elapsed = 0 /\ hijack = FALSE

-----------------------------------------------------------------------------
(* Shared by several operations *)

endpoint_detached == Timeout = 0 \/ ~attached

\* Where run_tasks returns to.
Caller == IF stage = "loop" THEN "loop" ELSE "check"

Goto(p) == pc' = p /\ UNCHANGED <<stage, left, cmd, page0>>

GotoReading(p, n) == pc' = p /\ left' = n /\ UNCHANGED <<stage, cmd, page0>>

\* Steps that do nothing else
Moves(p) == Goto(p) /\ UNCHANGED rest

Counts(p, n) == GotoReading(p, n) /\ UNCHANGED rest

\* ReadWriteMemoryBlock returns: its locals are gone.
BlockReturn ==
    /\ pc' = "avr_flush"
    /\ left' = 0 /\ cmd' = "-" /\ page0' = FALSE
    /\ UNCHANGED stage

SetTimeout(t) == Timeout' = t /\ UNCHANGED timerOn

\* check_reset (HoldTicks[s]) begins
BeginCheck(s) ==
    /\ pc' = "check"
    /\ stage' = s
    /\ SetTimeout(HoldTicks[s])
    /\ elapsed' = 0
    /\ hijack' = FALSE
    /\ UNCHANGED <<left, cmd, page0, blockSeen>>

EnterLoop ==
    /\ pc' = "loop"
    /\ stage' = "loop"
    /\ elapsed' = 0
    /\ hijack' = FALSE
    /\ UNCHANGED <<left, cmd, page0, blockSeen>>

\* A programmer was entered from inside check_reset.
NoteProgrammer ==
    /\ hijack' = (hijack \/ stage # "loop")
    /\ UNCHANGED <<blockSeen, elapsed>>

-----------------------------------------------------------------------------
(* main: after a reset, and the chain of check_reset calls *)

SkipBootloader ==
    /\ word0
    /\ "EXTRF" \notin mcusr
    /\ "PORF" \in mcusr \/ ("WDRF" \in mcusr /\ ~bootKey)

\* start_sketch: interrupts off, TIMER1 undone, jump to address 0
start_sketch ==
    /\ Goto("sketch")
    /\ timerOn' = FALSE
    /\ UNCHANGED Timeout

ResetToSketch ==
    /\ pc = "reset"
    /\ SkipBootloader
    /\ start_sketch
    /\ sketch_available' = word0
    /\ mcusr' = {}
    /\ bootKey' = FALSE
    /\ UNCHANGED <<boot_mode, flash, usb, button, esp, quiet, history>>

\* setup_hardware enables the timer interrupt; the first check_reset begins.
ResetToBootloader ==
    /\ pc = "reset"
    /\ ~SkipBootloader
    /\ pc' = "check"
    /\ stage' = "stay"
    /\ Timeout' = HoldTicks["stay"]
    /\ timerOn' = TRUE
    /\ sketch_available' = word0
    /\ mcusr' = {}
    /\ bootKey' = FALSE
    /\ UNCHANGED <<left, cmd, page0, boot_mode, flash, usb, button, esp, quiet,
                   history>>

Mut_CheckDoneEarly ==
    /\ pc = "check"
    /\ ~(Timeout > 1 /\ button)
    /\ Moves("check_ret")

Mut_NormalBootAnyway ==
    /\ pc = "check_ret" /\ stage = "stay" /\ ~button
    /\ boot_mode' = "0"
    /\ SetTimeout(BootTicks)
    /\ EnterLoop
    /\ UNCHANGED <<sketch_available, flash, usb, board>>

\* for (Timeout = ticks; Timeout && rstat (); run_tasks ())
CheckAgain ==
    /\ pc = "check"
    /\ Timeout > 0 /\ button
    /\ Moves("task_out")

CheckDone ==
    /\ pc = "check"
    /\ ~(Timeout > 0 /\ button)
    /\ Moves("check_ret")

\* The reset switch is read again for the result of check_reset.
KeepBootloader ==
    /\ pc = "check_ret" /\ stage = "stay"
    /\ button \/ ~sketch_available
    /\ boot_mode' = "1"
    /\ BeginCheck("reset_esp")
    /\ UNCHANGED <<sketch_available, flash, usb, board>>

NormalBoot ==
    /\ pc = "check_ret" /\ stage = "stay"
    /\ ~button /\ sketch_available
    /\ boot_mode' = "0"
    /\ SetTimeout(BootTicks)
    /\ EnterLoop
    /\ UNCHANGED <<sketch_available, flash, usb, board>>

Mut_EspNotReset ==
    /\ pc = "check_ret" /\ stage = "reset_esp" /\ button
    /\ boot_mode' = "R"
    /\ SetTimeout(SettleTicks)
    /\ Goto("esp_settle_main")
    /\ UNCHANGED <<sketch_available, flash, usb, board, history>>

\* boot_mode = BM_ESP_RESET; reset_esp_and_wait (false) starts waiting.
EspReset ==
    /\ pc = "check_ret" /\ stage = "reset_esp" /\ button
    /\ boot_mode' = "R"
    /\ esp' = "app"
    /\ SetTimeout(SettleTicks)
    /\ Goto("esp_settle_main")
    /\ UNCHANGED <<sketch_available, flash, usb, button, mcusr, bootKey, quiet,
                   history>>

EspResetSettled ==
    /\ pc = "esp_settle_main" /\ Timeout = 0
    /\ BeginCheck("reconf")
    /\ UNCHANGED <<boot, flash, usb, board>>

EspReconfigure ==
    /\ pc = "check_ret" /\ stage = "reconf" /\ button
    /\ boot_mode' = "E"
    /\ BeginCheck("factory")
    /\ UNCHANGED <<sketch_available, flash, usb, board>>

EspFactory ==
    /\ pc = "check_ret" /\ stage = "factory" /\ button
    /\ boot_mode' = "F"
    /\ EnterLoop
    /\ UNCHANGED <<timer, sketch_available, flash, usb, board>>

Released ==
    /\ pc = "check_ret" /\ stage # "stay" /\ ~button
    /\ EnterLoop
    /\ UNCHANGED <<timer, boot, flash, usb, board>>

\* while (boot_mode != BM_NORMAL_BOOT || Timeout) run_tasks ();
LoopAgain ==
    /\ pc = "loop"
    /\ boot_mode # "0" \/ Timeout > 0
    /\ Moves("task_out")

\* USB_Detach (); start_sketch ();
LoopExit ==
    /\ pc = "loop"
    /\ boot_mode = "0" /\ Timeout = 0
    /\ start_sketch
    /\ attached' = FALSE
    /\ setRts' = FALSE
    /\ UNCHANGED <<boot, flash, rts_pulse, board, history>>

-----------------------------------------------------------------------------
(* CDC_Task *)

\* No UART byte waits, or the endpoint takes the bytes that do at once.
TaskOutNow ==
    /\ pc = "task_out"
    /\ Moves("task_in")

\* UART bytes, or what was left of an answer, have to be collected by the
\* host.
TaskOutFlush ==
    /\ pc = "task_out"
    /\ Moves("task_flush")

Mut_FlushNoTimeout ==
    /\ pc = "task_flush" /\ ~attached
    /\ Moves("task_in")

\* endpoint_detached: the wait for the host is given up.
TaskFlushGivenUp ==
    /\ pc = "task_flush" /\ endpoint_detached
    /\ Moves("task_in")

TaskFlushTaken ==
    /\ pc = "task_flush" /\ attached
    /\ Moves("task_in")

\* No byte from the host, or one that starts no programmer: it is echoed to
\* the ESP8266 or, for 04h, answered with the boot mode.
TaskReturn ==
    /\ pc = "task_in"
    /\ Moves(Caller)

\* A byte from the host: it can come when the device is attached.
HostSends == attached /\ ~quiet

\* C0h: ESP8266_programmer resets the ESP8266 into its ROM bootloader.
TaskEsp ==
    /\ pc = "task_in" /\ HostSends
    /\ Goto("esp_boot")
    /\ esp' = "rom"
    /\ SetTimeout(EspTicks)
    /\ NoteProgrammer
    /\ UNCHANGED <<boot, flash, usb, button, mcusr, bootKey, quiet>>

\* 1Bh: AVR109_programmer
TaskAvr ==
    /\ pc = "task_in" /\ HostSends
    /\ Goto("avr")
    /\ SetTimeout(AvrTicks)
    /\ NoteProgrammer
    /\ UNCHANGED <<boot, flash, usb, board>>

-----------------------------------------------------------------------------
(* AVR109_programmer *)

\* while (Timeout)
AvrTimeout ==
    /\ pc = "avr" /\ Timeout = 0
    /\ Moves(Caller)

\* The loop test saw Timeout > 0, and a command byte is available.
AvrCommand == pc = "avr" /\ Timeout > 0 /\ HostSends

\* 'E': the session is to end soon; the application section is enabled.
AvrExit ==
    /\ AvrCommand
    /\ SetTimeout(ExitTicks)
    /\ rww' = TRUE
    /\ Goto("avr_flush")
    /\ UNCHANGED <<boot, word0, usb, board, history>>

\* A command answered without reading or changing anything, known or not.
AvrSimple ==
    /\ AvrCommand
    /\ Moves("avr_flush")

\* 'T' reads one more byte, 'A' reads two.
AvrWithArgument ==
    /\ AvrCommand
    /\ \E n \in 1 .. 2 : Counts("avr_arg", n)

\* usb_read_byte returns a byte of the host, or 0 when endpoint_detached.
ReadByte == HostSends \/ endpoint_detached

AvrArgument ==
    /\ pc = "avr_arg" /\ ReadByte
    /\ Counts(IF left = 1 THEN "avr_flush" ELSE "avr_arg", left - 1)

AvrFlushGivenUp ==
    /\ pc = "avr_flush" /\ endpoint_detached
    /\ Moves("avr")

AvrFlushTaken ==
    /\ pc = "avr_flush" /\ attached
    /\ Moves("avr")

\* 'B' or 'g': the timeout restarts and the boot mode becomes normal before
\* ReadWriteMemoryBlock looks at the rest of the command.
AvrBlock(c) ==
    /\ AvrCommand
    /\ SetTimeout(AvrTicks)
    /\ boot_mode' = "0"
    /\ pc' = "blk_hdr"
    /\ left' = 3
    /\ cmd' = c
    /\ blockSeen' = TRUE
    /\ UNCHANGED <<stage, page0, sketch_available, flash, usb, board, elapsed,
                   hijack>>

-----------------------------------------------------------------------------
(* ReadWriteMemoryBlock *)

BlockSizeByte ==
    /\ pc = "blk_hdr" /\ left > 1 /\ ReadByte
    /\ Counts("blk_hdr", left - 1)

Mut_BadTypeTimerOff ==
    /\ pc = "blk_hdr" /\ left = 1 /\ ReadByte
    /\ BlockReturn
    /\ timerOn' = FALSE
    /\ UNCHANGED <<Timeout, boot, flash, usb, board, history>>

\* MemoryType is not 'F' (0 when the byte did not come).
BlockBadType ==
    /\ pc = "blk_hdr" /\ left = 1 /\ ReadByte
    /\ BlockReturn
    /\ UNCHANGED rest

\* MemoryType 'F': the timer interrupt goes off.
BlockRead ==
    /\ pc = "blk_hdr" /\ cmd = "g" /\ left = 1 /\ HostSends
    /\ \E n \in 0 .. MaxBlock : GotoReading("blk_out", n)
    /\ timerOn' = FALSE
    /\ rww' = TRUE
    /\ UNCHANGED <<Timeout, boot, word0, usb, board, history>>

\* boot_page_erase (CurrAddress) disables the application section.
BlockWrite ==
    /\ pc = "blk_hdr" /\ cmd = "B" /\ left = 1 /\ HostSends
    /\ pc' = "blk_in"
    /\ left' \in 0 .. MaxBlock
    /\ page0' \in BOOLEAN
    /\ word0' = (word0 /\ ~page0')
    /\ rww' = FALSE
    /\ timerOn' = FALSE
    /\ UNCHANGED <<stage, cmd, Timeout, boot, usb, board, history>>

\* The host goes on sending a block that it started.
BlockInByte ==
    /\ pc = "blk_in" /\ left > 0 /\ attached
    /\ Counts("blk_in", left - 1)

\* usb_read_byte returns 0 in place of a byte that does not come.
BlockInStandIn ==
    /\ pc = "blk_in" /\ left > 0 /\ endpoint_detached
    /\ Counts("blk_in", left - 1)

\* boot_page_write, whatever the data, and one response byte to write.
BlockCommit ==
    /\ pc = "blk_in" /\ left = 0
    /\ GotoReading("blk_out", 1)
    /\ IF page0 THEN word0' \in BOOLEAN ELSE UNCHANGED word0
    /\ UNCHANGED <<timer, boot, rww, usb, board, history>>

BlockOutByte ==
    /\ pc = "blk_out" /\ left > 0
    /\ Counts("blk_out", left - 1)

\* The endpoint bank is full: usb_write_byte waits for the host.
BlockOutFull ==
    /\ pc = "blk_out" /\ left > 0
    /\ Moves("blk_out_wait")

BlockOutTaken ==
    /\ pc = "blk_out_wait" /\ attached
    /\ Counts("blk_out", left - 1)

BlockOutGivenUp ==
    /\ pc = "blk_out_wait" /\ endpoint_detached
    /\ Counts("blk_out", left - 1)

\* TIMSK1 = (1 << OCIE1A); back to the command loop.
BlockEnd ==
    /\ pc = "blk_out" /\ left = 0
    /\ BlockReturn
    /\ timerOn' = TRUE
    /\ UNCHANGED <<Timeout, boot, flash, usb, board, history>>

-----------------------------------------------------------------------------
(* ESP8266_programmer *)

\* A byte of the ESP8266 while its ROM bootloader starts restarts the wait.
EspPost ==
    /\ pc = "esp_boot"
    /\ ~quiet
    /\ Timeout > 0
    /\ SetTimeout(CommTicks)
    /\ UNCHANGED <<flow, boot, flash, usb, board, history>>

\* 250 ms of silence: the bridge starts, with rts_pulse cleared.
EspBooted ==
    /\ pc = "esp_boot" /\ Timeout = 0
    /\ rts_pulse' = FALSE
    /\ SetTimeout(CommTicks)
    /\ Goto("esp_bridge")
    /\ UNCHANGED <<boot, flash, attached, setRts, board, history>>

\* Every iteration of the bridge restarts Timeout.
EspIterate ==
    /\ pc = "esp_bridge" /\ ~rts_pulse
    /\ Timeout # CommTicks
    /\ SetTimeout(CommTicks)
    /\ UNCHANGED <<flow, boot, flash, usb, board, history>>

\* A UART byte has to wait for the host to collect a packet.
EspOutFull ==
    /\ pc = "esp_bridge"
    /\ ~rts_pulse /\ ~quiet
    /\ SetTimeout(CommTicks)
    /\ Goto("esp_out")
    /\ UNCHANGED <<boot, flash, usb, board, history>>

EspOutTaken ==
    /\ pc = "esp_out" /\ attached
    /\ Moves("esp_bridge")

EspOutGivenUp ==
    /\ pc = "esp_out" /\ endpoint_detached
    /\ Moves("esp_bridge")

\* reset_esp_and_wait (false)
EspRtsExit ==
    /\ pc = "esp_bridge" /\ rts_pulse
    /\ esp' = "app"
    /\ SetTimeout(SettleTicks)
    /\ Goto("esp_settle")
    /\ UNCHANGED <<boot, flash, usb, button, mcusr, bootKey, quiet, history>>

EspSettled ==
    /\ pc = "esp_settle" /\ Timeout = 0
    /\ Moves(Caller)

-----------------------------------------------------------------------------
(* Interrupts and control requests *)

Mut_TickBelowZero ==
    /\ timerOn
    /\ Timeout' = Timeout - 1
    /\ UNCHANGED <<flow, timerOn, boot, flash, usb, board, history>>

\* ISR(TIMER1_COMPA_vect)
TIMER1_COMPA ==
    /\ timerOn
    /\ Timeout > 0
    /\ Timeout' = Timeout - 1
    /\ elapsed' = IF stage \in HoldStage /\ elapsed < HoldTicks[stage]
                  THEN elapsed + 1 ELSE elapsed
    /\ UNCHANGED <<flow, timerOn, boot, flash, usb, board, blockSeen, hijack>>

\* The loops that call USB_USBTask, which answers a waiting request first.
UsbTaskPC == {"task_out", "task_in", "avr", "avr_arg", "blk_hdr", "blk_in",
              "blk_out", "esp_bridge", "esp_settle", "esp_settle_main"}

RequestWaits == setRts /\ pc \in UsbTaskPC

\* EVENT_USB_Device_ControlRequest, CDC_REQ_SetControlLineState with RTS
SetControlLineState ==
    /\ RequestWaits
    /\ rts_pulse' = TRUE
    /\ setRts' = FALSE
    /\ UNCHANGED <<flow, timer, boot, flash, attached, board, history>>

-----------------------------------------------------------------------------
(* The environment *)

Running == pc \notin {"reset", "sketch"}

HostRaisesRts ==
    /\ Running
    /\ attached /\ ~setRts
    /\ ~quiet \/ (pc = "esp_bridge" /\ ~rts_pulse)
    /\ setRts' = TRUE
    /\ UNCHANGED <<flow, timer, boot, flash, attached, rts_pulse, board, history>>

\* VBUS appears: EVENT VBUSTI in the USB interrupt.
Plug ==
    /\ Running
    /\ ~attached /\ ~quiet
    /\ attached' = TRUE
    /\ UNCHANGED <<flow, timer, boot, flash, setRts, rts_pulse, board, history>>

Unplug ==
    /\ attached /\ ~quiet
    /\ attached' = FALSE
    /\ setRts' = FALSE
    /\ UNCHANGED <<flow, timer, boot, flash, rts_pulse, board, history>>

\* Closing the switch again would reset the board: within one boot the
\* switch only opens.
Release ==
    /\ button
    /\ button' = FALSE
    /\ UNCHANGED <<flow, timer, boot, flash, usb, esp, mcusr, bootKey, quiet,
                   history>>

GoQuiet ==
    /\ Running
    /\ ~quiet
    /\ quiet' = TRUE
    /\ UNCHANGED <<flow, timer, boot, flash, usb, button, esp, mcusr, bootKey,
                   history>>

\* The board is reset, by the switch, the supply or the watchdog.  RAM
\* survives unless the power failed, so only the sketch can leave the boot
\* key behind; a page that was being written has any content.
Reset(flags) ==
    /\ Resets
    /\ pc # "reset"
    /\ pc' = "reset"
    /\ stage' = "stay"
    /\ left' = 0 /\ cmd' = "-" /\ page0' = FALSE
    /\ Timeout' = 0 /\ timerOn' = FALSE
    /\ boot_mode' = "unset" /\ sketch_available' = FALSE
    /\ IF pc = "blk_in" /\ page0 THEN word0' \in BOOLEAN ELSE UNCHANGED word0
    /\ rww' = TRUE
    /\ attached' = FALSE /\ setRts' = FALSE /\ rts_pulse' = FALSE
    /\ button' \in BOOLEAN
    /\ esp' = CASE "PORF" \in flags -> "app"
                [] "PORF" \notin flags /\ esp = "rom" -> "stranded"
                [] OTHER -> esp
    /\ mcusr' = flags
    /\ bootKey' \in BOOLEAN
    /\ bootKey' => pc = "sketch" \/ "PORF" \in flags
    /\ quiet' = FALSE
    /\ blockSeen' = FALSE /\ elapsed' = 0 /\ hijack' = FALSE

-----------------------------------------------------------------------------
(* The specification *)

\* Steps the main program takes by itself.
MainStep ==
    \/ ResetToSketch \/ ResetToBootloader
    \/ CheckAgain \/ CheckDone \/ KeepBootloader \/ NormalBoot
    \/ EspReset \/ EspResetSettled \/ EspReconfigure \/ EspFactory \/ Released
    \/ LoopAgain \/ LoopExit
    \/ TaskOutNow \/ TaskOutFlush \/ TaskFlushGivenUp \/ TaskReturn
    \/ AvrTimeout \/ AvrArgument \/ AvrFlushGivenUp
    \/ BlockSizeByte \/ BlockBadType
    \/ BlockInStandIn \/ BlockCommit
    \/ BlockOutByte \/ BlockOutFull \/ BlockOutGivenUp \/ BlockEnd
    \/ EspBooted \/ EspIterate \/ EspOutFull \/ EspOutGivenUp
    \/ EspRtsExit \/ EspSettled

\* Steps the main program takes when the host sent or collected something,
\* or the ESP8266 sent something.
PeerStep ==
    \/ TaskFlushTaken \/ TaskEsp \/ TaskAvr
    \/ AvrExit \/ AvrSimple \/ AvrWithArgument \/ AvrFlushTaken
    \/ AvrBlock("B") \/ AvrBlock("g")
    \/ BlockRead \/ BlockWrite \/ BlockInByte \/ BlockOutTaken
    \/ EspPost \/ EspOutTaken

Environment ==
    \/ HostRaisesRts \/ Plug \/ Unplug \/ Release \/ GoQuiet
    \/ \E flags \in SUBSET ResetFlag : Reset(flags)

Main == ~RequestWaits /\ MainStep

Next ==
    \/ Main
    \/ ~RequestWaits /\ PeerStep
    \/ SetControlLineState
    \/ TIMER1_COMPA
    \/ Environment

Spec == Init /\ [][Next]_vars

(* Fairness of the code: the main program runs, the interrupts fire.       *)
CodeFairness ==
    /\ WF_vars(Main)
    /\ WF_vars(SetControlLineState)
    /\ WF_vars(TIMER1_COMPA)

(* Fairness of the host tools: a block that was started is sent or         *)
(* collected to its end, and the bridge is left with a pulse on RTS.       *)
HostFinishes ==
    /\ WF_vars(~RequestWaits /\ (BlockInByte \/ BlockInStandIn))
    /\ WF_vars(~RequestWaits /\ (BlockOutTaken \/ BlockOutGivenUp))
    /\ WF_vars(pc = "esp_bridge" /\ HostRaisesRts)

CodeFairSpec == Spec /\ CodeFairness

FairSpec == CodeFairSpec /\ HostFinishes

-----------------------------------------------------------------------------
(* Properties *)

TypeOK ==
    /\ pc \in PC
    /\ stage \in HoldStage \cup {"loop"}
    /\ left \in Nat
    /\ cmd \in {"-", "B", "g"}
    /\ Timeout \in Nat
    /\ boot_mode \in BootMode
    /\ {page0, timerOn, sketch_available, word0, rww, attached, setRts,
        rts_pulse, button, bootKey, quiet, blockSeen, hijack} \subseteq BOOLEAN
    /\ esp \in {"app", "rom", "stranded"}
    /\ mcusr \subseteq ResetFlag
    /\ elapsed \in Nat

(* Unless the host sent a block command since the reset, the jump to the   *)
(* application section is made only when main() found a sketch there, and  *)
(* it still is there: no timeout, button or ESP8266 session, and no page 0 *)
(* left erased by a reset, starts a board without a sketch.                *)
NoStartWithoutSketch ==
    pc = "sketch" /\ ~blockSeen => sketch_available /\ word0

(* check_reset answers "pressed" only after the switch was held for all    *)
(* the ticks it was asked to check, when no programmer ran meanwhile.      *)
HoldMeasured ==
    pc = "check_ret" /\ button /\ ~hijack => elapsed = HoldTicks[stage]

(* The timer interrupt, on which every wait for a timeout rests, is off    *)
(* only while ReadWriteMemoryBlock moves the data of a block, whichever    *)
(* way the block is left; and it is off when the sketch, whose vectors it  *)
(* would use, is started.                                                  *)
TimerServesWaits ==
    timerOn <=> pc \notin {"reset", "sketch", "blk_in", "blk_out", "blk_out_wait"}

(* An ESP8266 that was left in its ROM bootloader by a reset of the AVR is *)
(* brought back by holding the switch for the second interval: the later   *)
(* stages and the boot modes 'R', 'E' and 'F' never find it stranded.      *)
SwitchRecoversEsp ==
    boot_mode \in {"R", "E", "F"} \/ stage \in {"reconf", "factory"}
        => esp # "stranded"

(* Once the host and the ESP8266 start nothing new, every wait ends: the   *)
(* bootloader starts the sketch, or is back in the main loop with a boot   *)
(* mode that keeps it there; or it bridges for a host that was unplugged   *)
(* without the pulse on RTS; or it is reset.                               *)
QuietSettles ==
    quiet ~> \/ pc = "sketch"
             \/ pc = "loop" /\ boot_mode \in {"1", "R", "E", "F"}
             \/ pc = "esp_bridge" /\ ~attached
             \/ ~quiet

(* What the comment on check_reset says: the switch was pressed during the *)
(* interval it was asked about.                                            *)
HeldForTheInterval ==
    pc = "check_ret" /\ button => elapsed = HoldTicks[stage]

(* What the last comments of main() and of command 'E' say together: the   *)
(* jump is made into an application section that can be executed.          *)
SketchCanBeRead == pc = "sketch" => rww

(* What the comment on main() says: the processing routine ends when it    *)
(* times out.  A host that falls silent in an AVR-109 session is timed     *)
(* out.                                                                    *)
AvrPC == {"avr", "avr_arg", "avr_flush", "blk_hdr", "blk_in", "blk_out",
          "blk_out_wait"}

AvrSessionTimesOut == (quiet /\ pc \in AvrPC) ~> (pc \notin AvrPC)
=============================================================================
