--------------------------- MODULE ResetHandshake ---------------------------
(***************************************************************************)
(* How a host gets from a running sketch into the bootloader: it closes    *)
(* the sketch's serial port at 1200 baud.  CDC_Setup of the Arduino core   *)
(* (CDC.cpp, in the USB interrupt) then leaves a key in RAM and starts the *)
(* watchdog; when the port is opened again before it fires, the key and    *)
(* the watchdog are put back.  main () of the bootloader (Adelino.c) finds *)
(* the reason for the reset and the key, and decides what to run.          *)
(*                                                                         *)
(* Adelino's bootloader has no LUFA signature, so the key is kept at       *)
(* MAGIC_KEY_POS, where the sketch may have data of its own; the core      *)
(* saves that word at RAMEND - 1.  A sketch is in the flash.               *)
(***************************************************************************)
EXTENDS Naturals

CONSTANTS
    Words,          \* values of the sketch's word at MAGIC_KEY_POS
    Period,         \* ticks until a watchdog fires
    Watchdogs,      \* what the sketch sets the watchdog to: "off", "own"
    SketchWrites    \* the sketch changes its word

MAGIC_KEY == 30583  \* 0x7777

ASSUME WordAssumption == Words \subseteq Nat \ {MAGIC_KEY} /\ 0 \in Words
ASSUME PeriodAssumption ==
    Period \in Nat \ {0} /\ Watchdogs \subseteq {"off", "own"}
        /\ SketchWrites \in BOOLEAN

VARIABLES
    running,    \* "sketch", "bootloader", or "main": after a reset
    word,       \* the word at MAGIC_KEY_POS
    backup,     \* the word at RAMEND - 1
    WDTCSR,     \* "off", "own": as the sketch sets it, "120ms"
    wdtcsr_save,
    wdt,        \* the watchdog timer
    dwDTERate,
    MCUSR,      \* the reset flags, until main () reads them
    own, ownWdt,    \* what the sketch put into its word and the watchdog
    pending,    \* the host closed the port at 1200 and did not come back
    repeated,   \* history: it did so again while that was pending
    spoiled     \* history: the sketch wrote its word while it was pending

keys == <<word, backup, wdtcsr_save>>
watchdog == <<WDTCSR, wdt>>
sketch == <<own, ownWdt>>
history == <<pending, repeated, spoiled>>

vars == <<running, keys, watchdog, dwDTERate, MCUSR, sketch, history>>

Rates == {1200, 57600}

Init ==
    /\ running = "bootloader"
    /\ word = 0 /\ backup = 0
    /\ WDTCSR = "off" /\ wdtcsr_save = "off" /\ wdt = 0
    /\ dwDTERate = 57600
    /\ MCUSR = {}
    /\ own = 0 /\ ownWdt = "off"
    /\ pending = FALSE /\ repeated = FALSE /\ spoiled = FALSE

-----------------------------------------------------------------------------
(* The sketch *)

\* start_sketch: the word is set up by the sketch, or left as it is.
SketchStarts(left) ==
    /\ running' = "sketch"
    /\ own' \in Words \cup {left} /\ word' = own'
    /\ ownWdt' \in Watchdogs /\ WDTCSR' = ownWdt' /\ wdt' = 0
    /\ wdtcsr_save' = "off" /\ dwDTERate' = 57600
    /\ pending' = FALSE /\ repeated' = FALSE /\ spoiled' = FALSE

SketchFeeds ==
    /\ running = "sketch" /\ ownWdt = "own"
    /\ wdt' = 0
    /\ UNCHANGED <<running, keys, WDTCSR, dwDTERate, MCUSR, sketch, history>>

SketchWritesWord(v) ==
    /\ running = "sketch" /\ SketchWrites
    /\ own' = v /\ word' = v
    /\ spoiled' = (spoiled \/ pending)
    /\ UNCHANGED <<running, backup, wdtcsr_save, watchdog, dwDTERate, MCUSR,
                   ownWdt, pending, repeated>>

-----------------------------------------------------------------------------
(* CDC_Setup *)

SetLineCoding(rate) ==
    /\ running = "sketch"
    /\ dwDTERate' = rate
    /\ UNCHANGED <<running, keys, watchdog, MCUSR, sketch, history>>

\* wdt_reset (), and WDTCSR is written; wdt_enable does the same.
SetWatchdog(mode) == WDTCSR' = mode /\ wdt' = 0

Mut_BackupAgain ==
    /\ backup' = word      \* also when the word is the key already
    /\ word' = MAGIC_KEY
    /\ wdtcsr_save' = WDTCSR
    /\ SetWatchdog("120ms")

Mut_NoWatchdog ==
    /\ backup' = IF word # MAGIC_KEY THEN word ELSE backup
    /\ word' = MAGIC_KEY
    /\ wdtcsr_save' = WDTCSR
    /\ UNCHANGED watchdog

\* The word is saved, the key stored, the watchdog started.
StartReset ==
    /\ backup' = IF word # MAGIC_KEY THEN word ELSE backup
    /\ word' = MAGIC_KEY
    /\ wdtcsr_save' = WDTCSR
    /\ SetWatchdog("120ms")

Mut_CancelZero ==
    /\ SetWatchdog(wdtcsr_save)
    /\ word' = 0
    /\ UNCHANGED <<backup, wdtcsr_save>>

\* The watchdog and the word are restored.
CancelReset ==
    /\ SetWatchdog(wdtcsr_save)
    /\ word' = backup
    /\ UNCHANGED <<backup, wdtcsr_save>>

SetControlLineState(dtr) ==
    LET touch == dwDTERate = 1200 /\ ~dtr
    IN  /\ running = "sketch"
        /\ IF touch THEN StartReset
           ELSE IF word = MAGIC_KEY THEN CancelReset
           ELSE UNCHANGED <<keys, watchdog>>
        /\ pending' = touch
        /\ repeated' = (repeated \/ (touch /\ pending))
        /\ UNCHANGED <<running, dwDTERate, MCUSR, sketch, spoiled>>

-----------------------------------------------------------------------------
(* Resets, and main () of the bootloader *)

WatchdogTicks ==
    /\ running = "sketch" /\ WDTCSR # "off"
    /\ wdt < Period
    /\ wdt' = wdt + 1
    /\ UNCHANGED <<running, keys, WDTCSR, dwDTERate, MCUSR, sketch, history>>

WatchdogFires ==
    /\ running = "sketch" /\ WDTCSR # "off"
    /\ wdt = Period
    /\ running' = "main" /\ MCUSR' = MCUSR \cup {"WDRF"}
    /\ UNCHANGED <<keys, watchdog, dwDTERate, sketch, history>>

ResetSwitch ==
    /\ running' = "main" /\ MCUSR' = MCUSR \cup {"EXTRF"}
    /\ UNCHANGED <<keys, watchdog, dwDTERate, sketch, history>>

\* The RAM comes up with any content.
PowerOn ==
    /\ running' = "main" /\ MCUSR' = {"PORF"}
    /\ word' \in Words \cup {MAGIC_KEY} /\ backup' = 0
    /\ WDTCSR' = "off" /\ wdt' = 0
    /\ UNCHANGED <<wdtcsr_save, dwDTERate, sketch, history>>

Mut_AnyWatchdog ==
    "EXTRF" \notin MCUSR /\ MCUSR \cap {"PORF", "WDRF"} # {}

\* A sketch is there: is it started without the bootloader?
SkipBootloader ==
    /\ "EXTRF" \notin MCUSR
    /\ "PORF" \in MCUSR \/ ("WDRF" \in MCUSR /\ word # MAGIC_KEY)

Main ==
    /\ running = "main"
    /\ MCUSR' = {}
    /\ IF SkipBootloader THEN SketchStarts(0)
       ELSE /\ running' = "bootloader"
            /\ word' = 0
            /\ SetWatchdog("off")
            /\ pending' = FALSE
            /\ UNCHANGED <<wdtcsr_save, dwDTERate, sketch, repeated, spoiled>>
    /\ UNCHANGED backup

BootloaderExits ==
    /\ running = "bootloader"
    /\ SketchStarts(word)
    /\ UNCHANGED <<backup, MCUSR>>

Next ==
    \/ SketchFeeds \/ \E v \in Words : SketchWritesWord(v)
    \/ \E r \in Rates : SetLineCoding(r)
    \/ \E dtr \in BOOLEAN : SetControlLineState(dtr)
    \/ WatchdogTicks \/ WatchdogFires \/ ResetSwitch \/ PowerOn
    \/ Main \/ BootloaderExits

Spec == Init /\ [][Next]_vars

\* The watchdog has its own oscillator; main () runs after a reset.
FairSpec == Spec /\ WF_vars(WatchdogTicks) /\ WF_vars(WatchdogFires) /\ WF_vars(Main)

-----------------------------------------------------------------------------
(* Properties *)

TypeOK ==
    /\ running \in {"sketch", "bootloader", "main"}
    /\ word \in Words \cup {MAGIC_KEY} /\ backup \in Words
    /\ WDTCSR \in {"off", "own", "120ms"} /\ wdtcsr_save \in {"off", "own", "120ms"}
    /\ wdt \in 0 .. Period /\ dwDTERate \in Rates
    /\ MCUSR \subseteq {"EXTRF", "PORF", "WDRF"}
    /\ own \in Words \cup {MAGIC_KEY} /\ ownWdt \in {"off", "own"}
    /\ pending \in BOOLEAN /\ repeated \in BOOLEAN /\ spoiled \in BOOLEAN

(* A sketch whose reset was cancelled, however often the port was closed   *)
(* and opened, has its word back and its watchdog.  Excepted are a sketch  *)
(* that wrote its word while the reset was pending, which then cannot be   *)
(* cancelled any more, and the watchdog when the port was closed twice     *)
(* without being opened.                                                   *)
SketchIsKept ==
    running = "sketch" /\ ~pending /\ ~spoiled =>
        word = own /\ (repeated \/ WDTCSR = ownWdt)

(* After a watchdog reset main () enters the bootloader exactly if the     *)
(* host asked for it and did not cancel: no key is left over from a touch  *)
(* that was cancelled or overtaken by another reset.                       *)
EntersWhenAsked ==
    [][running = "main" /\ MCUSR = {"WDRF"} /\ ~spoiled /\ running' # "main"
        => (running' = "bootloader" <=> pending)]_vars

(* A host that closes the port at 1200 baud and then leaves it alone gets  *)
(* the reset it asked for, from a sketch that does not feed the watchdog   *)
(* for ever, unless the port was opened again.                             *)
TouchResets ==
    <>[][~SketchFeeds /\ \A dtr \in BOOLEAN : ~SetControlLineState(dtr)]_vars
        => (pending ~> (running # "sketch" \/ ~pending))
=============================================================================
