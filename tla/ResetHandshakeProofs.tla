------------------------ MODULE ResetHandshakeProofs ------------------------
(***************************************************************************)
(* For every set of words a sketch may keep at MAGIC_KEY_POS and every     *)
(* watchdog period: a touch that is cancelled leaves no trace, and main () *)
(* enters the bootloader after a watchdog reset exactly if it was asked.   *)
(***************************************************************************)
EXTENDS ResetHandshake, TLAPS

(* A leaf that names no prover is given to SMT, with a minute to answer.   *)
USE SMTT(60)

(* While a reset is pending the key is in place and the sketch's word and  *)
(* watchdog are where cancelling finds them; otherwise they are in place   *)
(* and no key is.                                                          *)
Kept ==
    running = "sketch" =>
        /\ own \in Words
        /\ ~spoiled /\ pending => word = MAGIC_KEY /\ backup = own
        /\ ~spoiled /\ ~pending => word = own
        /\ ~spoiled /\ ~repeated /\ pending => wdtcsr_save = ownWdt
        /\ ~spoiled /\ ~repeated /\ ~pending => WDTCSR = ownWdt

(* A watchdog reset finds the key exactly if a reset was pending.          *)
Asked ==
    /\ running # "main" => MCUSR = {}
    /\ running = "bootloader" => word = 0
    /\ running = "main" /\ MCUSR = {"WDRF"} /\ ~spoiled => (pending <=> word = MAGIC_KEY)

Inv == TypeOK /\ Kept /\ Asked

-----------------------------------------------------------------------------
(* The key is not a word of the sketch.                                    *)
LEMMA KeyFacts == 0 \in Words /\ MAGIC_KEY \notin Words /\ MAGIC_KEY # 0
BY WordAssumption DEF MAGIC_KEY

(* The sketch starts with a word and a watchdog of its own, and no key.    *)
LEMMA StartStep ==
    ASSUME Inv, SketchStarts(0), UNCHANGED backup, MCUSR' = {}
    PROVE  Inv'
<1>1. own' \in Words /\ word' = own' /\ ownWdt' \in {"off", "own"} /\ WDTCSR' = ownWdt'
  BY KeyFacts, PeriodAssumption DEF SketchStarts
<1>2. /\ running' = "sketch" /\ wdt' = 0 /\ wdtcsr_save' = "off" /\ dwDTERate' = 57600
      /\ pending' = FALSE /\ repeated' = FALSE /\ spoiled' = FALSE /\ backup' = backup
  BY DEF SketchStarts
<1>3. TypeOK'
  <2>1. 0 \in 0 .. Period /\ backup \in Words
    BY PeriodAssumption DEF Inv, TypeOK
  <2>2. MCUSR' \subseteq {"EXTRF", "PORF", "WDRF"} /\ dwDTERate' \in Rates
    BY <1>2 DEF Rates
  <2>3. word' \in Words \cup {MAGIC_KEY} /\ own' \in Words \cup {MAGIC_KEY} /\ backup' \in Words
    BY <1>1, <1>2, <2>1
  <2>4. WDTCSR' \in {"off", "own", "120ms"} /\ wdtcsr_save' \in {"off", "own", "120ms"}
    BY <1>1, <1>2
  <2>5. running' \in {"sketch", "bootloader", "main"} /\ wdt' \in 0 .. Period
    BY <1>2, <2>1
  <2>6. pending' \in BOOLEAN /\ repeated' \in BOOLEAN /\ spoiled' \in BOOLEAN
    <3>1. pending' = FALSE => pending' \in BOOLEAN
      BY ZenonT(60)
    <3>2. repeated' = FALSE => repeated' \in BOOLEAN
      BY ZenonT(60)
    <3>3. spoiled' = FALSE => spoiled' \in BOOLEAN
      BY ZenonT(60)
    <3> QED
      BY <1>2, <3>1, <3>2, <3>3
  <2> QED
    BY <1>1, <2>2, <2>3, <2>4, <2>5, <2>6 DEF TypeOK
<1>4. Kept' /\ Asked'
  BY <1>1, <1>2 DEF Kept, Asked
<1> QED
  BY <1>3, <1>4 DEF Inv

(* What the sketch, the host and the watchdog do while the sketch runs.    *)
LEMMA SketchStep ==
    ASSUME Inv, NEW v \in Words, NEW r \in Rates,
           SketchFeeds \/ SketchWritesWord(v) \/ SetLineCoding(r) \/ WatchdogTicks
    PROVE  Inv'
<1> USE DEF keys, watchdog, sketch, history
<1>1. running = "sketch" /\ running' = "sketch" /\ MCUSR' = MCUSR
  BY DEF SketchFeeds, SketchWritesWord, SetLineCoding, WatchdogTicks
<1>2. CASE SketchFeeds
  <2>1. 0 \in 0 .. Period
    BY PeriodAssumption
  <2> QED
    BY <1>1, <1>2, <2>1, ZenonT(60) DEF Inv, TypeOK, Kept, Asked, SketchFeeds
<1>3. CASE SketchWritesWord(v)
  <2>1. /\ own' = v /\ word' = v /\ spoiled' = (spoiled \/ pending)
        /\ backup' = backup /\ wdtcsr_save' = wdtcsr_save /\ WDTCSR' = WDTCSR /\ wdt' = wdt
        /\ dwDTERate' = dwDTERate /\ ownWdt' = ownWdt /\ pending' = pending
        /\ repeated' = repeated
    BY <1>3, ZenonT(60) DEF SketchWritesWord
  <2>2. TypeOK'
    BY <1>1, <2>1, ZenonT(120) DEF Inv, TypeOK
  <2>3. Kept' /\ Asked'
    BY <1>1, <2>1, ZenonT(60) DEF Inv, Kept, Asked
  <2> QED
    BY <2>2, <2>3 DEF Inv
<1>4. CASE SetLineCoding(r)
  BY <1>1, <1>4, ZenonT(60) DEF Inv, TypeOK, Kept, Asked, SetLineCoding
<1>5. CASE WatchdogTicks
  <2>1. wdt' \in 0 .. Period
    BY <1>5, PeriodAssumption DEF Inv, TypeOK, WatchdogTicks
  <2> QED
    BY <1>1, <1>5, <2>1, ZenonT(60) DEF Inv, TypeOK, Kept, Asked, WatchdogTicks
<1> QED
  BY <1>2, <1>3, <1>4, <1>5

(* The host closes or opens the port: the reset is started or cancelled.   *)
LEMMA TouchStep ==
    ASSUME Inv, NEW dtr \in BOOLEAN, SetControlLineState(dtr)
    PROVE  Inv'
<1> DEFINE touch == dwDTERate = 1200 /\ ~dtr
<1>1. /\ running = "sketch" /\ running' = "sketch" /\ MCUSR' = MCUSR
      /\ dwDTERate' = dwDTERate /\ own' = own /\ ownWdt' = ownWdt /\ spoiled' = spoiled
      /\ pending' = touch /\ repeated' = (repeated \/ (touch /\ pending))
  BY ZenonT(60) DEF SetControlLineState, sketch
<1>2. 0 \in 0 .. Period /\ own \in Words /\ own # MAGIC_KEY
  BY <1>1, KeyFacts, PeriodAssumption DEF Inv, Kept
<1>3. CASE touch
  <2>1. /\ backup' = (IF word # MAGIC_KEY THEN word ELSE backup) /\ word' = MAGIC_KEY
        /\ wdtcsr_save' = WDTCSR /\ WDTCSR' = "120ms" /\ wdt' = 0
    BY <1>3, ZenonT(60) DEF SetControlLineState, StartReset, SetWatchdog
  <2>2. backup' \in Words
    BY <2>1 DEF Inv, TypeOK
  <2>3. TypeOK'
    BY <1>1, <1>2, <2>1, <2>2, ZenonT(120) DEF Inv, TypeOK
  <2>4. Kept' /\ Asked'
    BY <1>1, <1>2, <1>3, <2>1, ZenonT(60) DEF Inv, Kept, Asked
  <2> QED
    BY <2>3, <2>4 DEF Inv
<1>4. CASE ~touch /\ word = MAGIC_KEY
  <2>1. /\ WDTCSR' = wdtcsr_save /\ wdt' = 0 /\ word' = backup
        /\ backup' = backup /\ wdtcsr_save' = wdtcsr_save
    BY <1>4, ZenonT(120) DEF SetControlLineState, CancelReset, SetWatchdog
  <2>2. TypeOK'
    BY <1>1, <1>2, <2>1, ZenonT(120) DEF Inv, TypeOK
  <2>3. ~spoiled => pending
    BY <1>1, <1>2, <1>4 DEF Inv, Kept
  <2>4. /\ ~spoiled => backup = own
        /\ ~spoiled /\ ~repeated => wdtcsr_save = ownWdt
    BY <1>1, <2>3 DEF Inv, Kept
  <2>5. Kept'
    BY <1>1, <1>2, <1>4, <2>1, <2>4, ZenonT(120) DEF Kept
  <2>6. Asked'
    BY <1>1, ZenonT(60) DEF Inv, Asked
  <2> QED
    BY <2>2, <2>5, <2>6 DEF Inv
<1>5. CASE ~touch /\ word # MAGIC_KEY
  <2>1. /\ WDTCSR' = WDTCSR /\ wdt' = wdt /\ word' = word
        /\ backup' = backup /\ wdtcsr_save' = wdtcsr_save
    BY <1>5, ZenonT(60) DEF SetControlLineState, keys, watchdog
  <2>2. TypeOK'
    BY <1>1, <2>1, ZenonT(120) DEF Inv, TypeOK
  <2>3. ~spoiled => ~pending
    BY <1>1, <1>5 DEF Inv, Kept
  <2>4. Kept' /\ Asked'
    BY <1>1, <1>2, <1>5, <2>1, <2>3, ZenonT(60) DEF Inv, Kept, Asked
  <2> QED
    BY <2>2, <2>4 DEF Inv
<1> QED
  BY <1>3, <1>4, <1>5

(* A reset, whatever its cause, leaves the RAM or fills it with anything.  *)
LEMMA ResetStep ==
    ASSUME Inv, WatchdogFires \/ ResetSwitch \/ PowerOn
    PROVE  Inv'
<1> USE DEF keys, watchdog, sketch, history
<1>1. running' = "main"
  BY DEF WatchdogFires, ResetSwitch, PowerOn
<1>2. CASE WatchdogFires
  <2>1. running = "sketch" /\ MCUSR = {} /\ own \in Words
    BY <1>2 DEF Inv, Kept, Asked, WatchdogFires
  <2>2. TypeOK'
    BY <1>1, <1>2, ZenonT(60) DEF Inv, TypeOK, WatchdogFires
  <2>3. Asked'
    <3>1. ~spoiled => (pending <=> word = MAGIC_KEY)
      BY <2>1, KeyFacts DEF Inv, TypeOK, Kept
    <3> QED
      BY <1>1, <1>2, <3>1, ZenonT(60) DEF Asked, WatchdogFires
  <2> QED
    BY <1>1, <2>2, <2>3 DEF Inv, Kept
<1>3. CASE ResetSwitch
  <2>1. TypeOK'
    BY <1>1, <1>3, ZenonT(60) DEF Inv, TypeOK, ResetSwitch
  <2>2. MCUSR' # {"WDRF"}
    BY <1>3 DEF ResetSwitch
  <2> QED
    BY <1>1, <2>1, <2>2 DEF Inv, Kept, Asked
<1>4. CASE PowerOn
  <2>1. 0 \in 0 .. Period /\ 0 \in Words
    BY PeriodAssumption, KeyFacts
  <2>2. TypeOK'
    BY <1>1, <1>4, <2>1, ZenonT(60) DEF Inv, TypeOK, PowerOn
  <2>3. MCUSR' # {"WDRF"}
    BY <1>4 DEF PowerOn
  <2> QED
    BY <1>1, <2>2, <2>3 DEF Inv, Kept, Asked
<1> QED
  BY <1>2, <1>3, <1>4

(* main () after a reset, and the way out of the bootloader.               *)
LEMMA MainStep == ASSUME Inv, Main \/ BootloaderExits PROVE Inv'
<1>1. CASE Main /\ SkipBootloader
  BY <1>1, StartStep DEF Main
<1>2. CASE Main /\ ~SkipBootloader
  <2>1. /\ running' = "bootloader" /\ MCUSR' = {} /\ word' = 0 /\ backup' = backup
        /\ WDTCSR' = "off" /\ wdt' = 0 /\ pending' = FALSE /\ wdtcsr_save' = wdtcsr_save
        /\ dwDTERate' = dwDTERate /\ own' = own /\ ownWdt' = ownWdt
        /\ repeated' = repeated /\ spoiled' = spoiled
    BY <1>2, ZenonT(60) DEF Main, SetWatchdog, sketch
  <2>2. 0 \in 0 .. Period /\ 0 \in Words
    BY PeriodAssumption, KeyFacts
  <2>3. TypeOK'
    BY <2>1, <2>2, ZenonT(60) DEF Inv, TypeOK
  <2> QED
    BY <2>1, <2>3 DEF Inv, Kept, Asked
<1>3. CASE BootloaderExits
  <2>1. word = 0 /\ MCUSR' = {}
    BY <1>3 DEF Inv, Asked, BootloaderExits
  <2> QED
    BY <1>3, <2>1, StartStep DEF BootloaderExits
<1> QED
  BY <1>1, <1>2, <1>3

-----------------------------------------------------------------------------
(* The invariant holds when the board is new and is preserved by every     *)
(* request, tick, reset and start.                                         *)
THEOREM Invariance == Spec => []Inv
<1>1. Init => Inv
  <2> SUFFICES ASSUME Init PROVE Inv
    OBVIOUS
  <2>1. 0 \in 0 .. Period /\ 0 \in Words
    BY PeriodAssumption, KeyFacts
  <2>2. TypeOK
    <3>1. pending \in BOOLEAN /\ repeated \in BOOLEAN /\ spoiled \in BOOLEAN
      <4>1. pending = FALSE => pending \in BOOLEAN
        BY ZenonT(60)
      <4>2. repeated = FALSE => repeated \in BOOLEAN
        BY ZenonT(60)
      <4>3. spoiled = FALSE => spoiled \in BOOLEAN
        BY ZenonT(60)
      <4> QED
        BY <4>1, <4>2, <4>3 DEF Init
    <3> QED
      BY <2>1, <3>1 DEF Init, TypeOK, Rates
  <2> QED
    BY <2>2 DEF Init, Inv, Kept, Asked
<1>2. Inv /\ [Next]_vars => Inv'
  <2> SUFFICES ASSUME Inv, [Next]_vars PROVE Inv'
    OBVIOUS
  <2>1. CASE UNCHANGED vars
    <3>1. TypeOK'
      BY <2>1, ZenonT(60) DEF Inv, TypeOK, vars, keys, watchdog, sketch, history
    <3>2. Kept'
      BY <2>1, ZenonT(60) DEF Inv, Kept, vars, keys, watchdog, sketch, history
    <3>3. Asked'
      BY <2>1, ZenonT(60) DEF Inv, Asked, vars, keys, sketch, history
    <3> QED
      BY <3>1, <3>2, <3>3 DEF Inv
  <2>2. 0 \in Words /\ 1200 \in Rates
    BY KeyFacts DEF Rates
  <2>3. CASE SketchFeeds \/ WatchdogTicks
    BY <2>2, <2>3, SketchStep
  <2>4. CASE \E v \in Words : SketchWritesWord(v)
    BY <2>2, <2>4, SketchStep
  <2>5. CASE \E r \in Rates : SetLineCoding(r)
    BY <2>2, <2>5, SketchStep
  <2>6. CASE \E dtr \in BOOLEAN : SetControlLineState(dtr)
    BY <2>6, TouchStep
  <2> QED
    BY <2>1, <2>3, <2>4, <2>5, <2>6, ResetStep, MainStep DEF Next
<1> QED
  BY <1>1, <1>2, PTL DEF Spec

(* The variables keep their types.                                         *)
THEOREM TypeCorrect == Spec => []TypeOK
<1>1. Inv => TypeOK
  BY DEF Inv
<1> QED
  BY <1>1, Invariance, PTL

(* Cancelling gives the sketch its word and its watchdog back, with the    *)
(* exceptions of SketchIsKept.                                             *)
THEOREM TouchLeavesNoTrace == Spec => []SketchIsKept
<1>1. Inv => SketchIsKept
  BY ZenonT(60) DEF Inv, Kept, SketchIsKept
<1> QED
  BY <1>1, Invariance, PTL

(* After a watchdog reset the bootloader is entered exactly if the host    *)
(* asked for it.                                                           *)
THEOREM EnteredWhenAsked == Spec => EntersWhenAsked
<1> DEFINE A == running = "main" /\ MCUSR = {"WDRF"} /\ ~spoiled /\ running' # "main"
                  => (running' = "bootloader" <=> pending)
<1>1. Inv /\ [Next]_vars => [A]_vars
  <2> SUFFICES ASSUME Inv, Next, running = "main", MCUSR = {"WDRF"}, ~spoiled,
                      running' # "main"
               PROVE  running' = "bootloader" <=> pending
    OBVIOUS
  <2>1. Main
    BY DEF Next, SketchFeeds, SketchWritesWord, SetLineCoding,
       SetControlLineState,
       WatchdogTicks, WatchdogFires, ResetSwitch, PowerOn, BootloaderExits
  <2>2. SkipBootloader <=> word # MAGIC_KEY
    BY DEF SkipBootloader
  <2>3. pending <=> word = MAGIC_KEY
    BY DEF Inv, Asked
  <2>4. running' = "bootloader" <=> ~SkipBootloader
    BY <2>1 DEF Main, SketchStarts
  <2> QED
    BY <2>2, <2>3, <2>4
<1> QED
  BY <1>1, Invariance, PTL DEF Spec, EntersWhenAsked
=============================================================================
