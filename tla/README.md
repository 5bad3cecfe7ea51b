# Adelino: TLA+ models and proofs

Adelino is an Arduino-compatible board with an ATmega32U4 (AVR) and an
ESP8266. Its AVR runs a USB CDC bootloader, `src/Firmware/adelino/Adelino.c`,
built on the LUFA USB library. The bootloader programs the AVR (AVR-109
protocol), bridges the host to the ESP8266 and its ROM bootloader, and reads a
reset switch that selects boot modes. Sketches are compiled with the Arduino
core under `src/Platforms`. This directory holds models of these programs,
model-checked with TLC and in large part proved with TLAPS.

## The system

| Part | State | Where | Modelled in |
| --- | --- | --- | --- |
| UART receive ring | `buffer`, `buffer_in`, `buffer_out` | Adelino.c 225-240, 311, 1135-1163, 1203-1206 | `UartRing` |
| Start and reset-switch chain | `MCUSR`, boot key, `sketch_available`, `boot_mode` | Adelino.c 358-460 | `Bootloader` |
| Task loop | `Timeout`, `boot_mode` | Adelino.c 181-216, 1198-1242 | `Bootloader`, `EspBridge` |
| AVR-109 programmer | `Timeout`, `boot_mode`, `CurrAddress` | Adelino.c 896-1121 | `Bootloader`, `FlashBlock` |
| Block transfer | flash, SPM hardware, `TIMSK1` | Adelino.c 676-763 | `FlashBlock`, `Bootloader` |
| ESP8266 programmer | `rts_pulse`, ESP8266 mode | Adelino.c 1132-1183 | `Bootloader`, `EspBridge` |
| CDC data endpoints | endpoint banks | Adelino.c 554-660 | `EspBridge` |
| Control endpoint | device state, address, configuration, endpoint 0 | LUFA device side; Adelino.c 482-550 | `UsbControl` |
| 1200-bps touch | key in RAM, watchdog | Arduino core CDC.cpp 92-160; Adelino.c 369-403 | `ResetHandshake` |
| Serial1 of a sketch | transmit buffer, UART flags | Arduino core HardwareSerial.cpp | `HardwareSerial` |

On the AVR the main program, the timer interrupt, the UART interrupts and the
USB interrupt run concurrently and share variables without locks. The hard
behaviours are their interleavings, one `Timeout` used for a dozen purposes,
waits that only the timer can end, a host or cable that goes away at any byte,
resets at any moment, and instruction pairs that an interrupt can separate.

How the parts meet: a touch (`ResetHandshake`) leads from a sketch to `main`,
whose decision `Bootloader` takes from the reset flags and the key. `Bootloader`
has the control of everything that follows and leaves the data to the others:
`FlashBlock` the bytes of block commands, `EspBridge` the bytes between ESP8266
and host. `EspBridge` uses the ring as `LossyFifo` (an `INSTANCE`), which is
what `UartRing` is shown to implement.

## Modules

| Module | Models | Shape |
| --- | --- | --- |
| `LossyFifo` | what the ring promises | abstract bounded FIFO that may lose arriving bytes |
| `UartRing` | the ring | each access of the main program to a shared variable is a step; the interrupt handler is one step; both orders the compiler may choose for non-volatile accesses |
| `Bootloader` | the control of the whole program | every waiting loop is a value of `pc`; one action per way out of it |
| `FlashBlock` | the data of block commands | bytes, page buffer, flash, the two-instruction SPM operations, and the 16-bit arithmetic of command `A` |
| `EspBridge` | bytes through ring, local variable, endpoint banks and UART | `CDC_Task` and the bridge loop over `usb_write_byte`, `usb_flush`, `usb_read_byte`; numbered bytes |
| `UsbControl` | the control endpoint | `USB_USBTask`, request handlers, control streams, status stages, `USB_GEN_vect`; a host that may abort, hurry, reset, suspend, unplug |
| `ResetHandshake` | the touch and the decision after the reset | `CDC_Setup`, the sketch, the watchdog, all kinds of reset, `main` |
| `HardwareSerial` | transmitter of Serial1 | each access of `write` and `flush` to shared state is a step, against `_tx_udr_empty_irq` and the UART |
| `*Proofs` | | theorems on the module they extend |
| `EspBridgeOrder` | | the theorems on the order of the bytes, over the invariant of `EspBridgeProofs` |
| `MC*` | | constants for TLC |

In `Bootloader`, `stage` is the call of `check_reset` in progress, or `"loop"`
for main's final loop, so it says where `run_tasks` returns to. Iterations that
find nothing to do are stuttering. Host, ESP8266, cable and switch are the
environment: a received byte is a choice of what the code does with it. Within
one boot the switch only opens: it pulls the reset line through a capacitor
(AdelinoX3 schematic), so closing it again is the `Reset` action. `blockSeen`,
`elapsed` and `hijack` are history variables; `elapsed` stops at the interval.
A brown-out sets a flag that `main` does not test, so it is a reset without
flags. `Bootloader` lets every SPM operation succeed; `FlashBlock` is where
they fail.

`FlashBlock` takes a host that follows the protocol: page-aligned addresses,
even block sizes up to a page, and an address set again after anything but a
whole page. Byte values are abstract: `FF` erased, `Zero` the stand-in of
`usb_read_byte`, `Junk` a byte programmed twice or read while disabled. A word
of the page buffer filled twice keeps either value. Once `Timeout` has run out
or the cable is pulled, `usb_read_byte` no longer waits, but it still takes a
byte that is in the endpoint: the rest of a block is any mix of stand-ins and
bytes of the host.

In `EspBridge`, a bank belongs to the controller from `Endpoint_ClearIN` until
the host has collected the packet, and a byte written to it meanwhile is lost.
`CDC_Task` is called by `main`, which may restart `Timeout` or reset the ESP8266
between two calls (`RunTasks`, `MainResetsEsp`); `cut` records that a wait for a
bank was given up, or the cable emptied a bank, since the last byte was written.
In `UsbControl`, `torn` records that a SETUP, a reset, a suspend or an unplug
came while a handler was at work; a reset outside a handler clears it. A suspend
takes three milliseconds of silence, so it comes where the program waits for the
host: between requests, or at a wait inside a handler or a control stream, whose
transfer is then broken off (`BrokenOff`). In `ResetHandshake`,
`own` and `ownWdt` are what the sketch believes its word and watchdog to be.
In `HardwareSerial`, `wire` and `count` are the last byte that left and the
last byte written, so that order and loss show without a record of the bytes;
`cut` records that `begin` on an open port found bytes unsent, until the next
byte is written.

Operators named `Mut_...` are deliberate mistakes. Substituted for a definition
that follows them, each breaks the property it was written for, which shows
that the property depends on the code it speaks of.

## Runs

| Run | Checks | Result | Distinct states |
| --- | --- | --- | --- |
| `uart_ring` | `TypeOK`, `LosesOnlyWhenFull`, refinement `RingIsFifo` | holds | 7,600 |
| `bootloader` | `TypeOK`, `NoStartWithoutSketch`, `HoldMeasured`, `TimerServesWaits`, `SwitchRecoversEsp`, liveness `QuietSettles` | holds | 229,008 |
| `flash_block` | `TypeOK`, `FlashIsImage`, `ReadBackIsFlash`, `AddressInStep` | holds | 6,951,572 (up to symmetry) |
| `esp_bridge` | `TypeOK`, `HostGetsInOrder`, `EspGetsInOrder`, `BridgeWaits`, `FlushEndsTransfer`, liveness `Delivered` | holds | 414,969 |
| `usb_control` | `TypeOK`, `HostAndDeviceAgree`, `SuspendIsNoticed`, `WholeAnswer`, liveness `Enumerates` | holds | 405,390 |
| `reset_handshake` | `TypeOK`, `SketchIsKept`, `EntersWhenAsked`, liveness `TouchResets` | holds | 1,972 |
| `hardware_serial` | `TypeOK`, `FlushMeansSent`, `FreeIsThere`, `WireInOrder`, liveness `CallsReturn` | holds | 465,746 |
| `hold_interval` | `HeldForTheInterval` | violated | |
| `sketch_rww` | `SketchCanBeRead` | violated | |
| `avr_timeout` | `AvrSessionTimesOut` | violated | |
| `flash_interrupt` | `InterruptsDoNoHarm` | violated | |
| `flash_stand_in` | `OnlyHostBytesWritten` | violated | |

The violated properties state what comments of Adelino.c say:

- `check_reset` (358) is to tell whether the switch was pressed during an
  interval. A programmer entered from its loop sets the same `Timeout`, so the
  interval is another one. Without a programmer, 'pressed' is answered only
  after the whole interval (`HoldMeasured`).
- The sketch is started (458) although a block was written and neither `E` nor
  `g` followed: the session timed out and the application section is still
  disabled. The comment at 920 sees the need, for `E` only.
- The processing routine is to time out (366). Inside a block the timer
  interrupt is off, so a silent, attached host is waited for without end.
- Nonessential interrupts are to be off during SPM tasks (696). The UART and
  USB interrupts are not; one of them between the two instructions of an SPM
  operation makes it do nothing.
- `usb_read_byte` is to return a byte of the host (583). For a host that is
  gone it returns 0, and the 0 is written to flash.

### Exceptions the properties make

A property that holds says in its antecedent what the code does not do. These
exceptions are behaviours of the code, each reachable in the model:

- `BridgeWaits` speaks of the bridge, which restarts `Timeout` before every
  byte. The task loop does not: with `Timeout` at zero, as in the modes that
  keep the bootloader, `_usb_flush_endpoint` gives up at once (Adelino.c 607)
  and a byte that meets a full bank is lost. `HostGetsInOrder` still accounts
  for it. `FlushEndsTransfer` excepts a transfer whose wait was given up so, or
  whose bank the cable emptied, until the next byte is written.
- `NoStartWithoutSketch` excepts starts after a block command: the code does not
  look at the flash again.
- `Delivered` speaks of the bytes `CDC_Task` takes from the ring and of the END
  bytes of the bridge, which flush. Other bytes of the bridge stay in the bank
  until it is full or an END follows. It excepts a `CDC_Task` that waits in `usb_read_byte` for a byte
  that was in the endpoint when the cable was pulled and is gone after it was
  plugged in again.
- `HostAndDeviceAgree`, `WholeAnswer` and `Enumerates` except a transfer that
  was `torn`. The control streams do not look for a new
  SETUP while they wait for the status stage; `USB_Device_ProcessControlRequest`
  takes a SETUP that came before the handler returned for the one handled, and
  stalls it; and the end-of-reset interrupt inside `Endpoint_ConfigureEndpoint`
  changes the endpoint being configured. `Enumerates` shows that the device
  recovers once a reset finds no handler at work.
- `SketchIsKept` excepts the watchdog of a sketch whose port was closed twice
  without being opened: `wdtcsr_save` then holds the setting of the touch
  itself. It also excepts word and watchdog of a sketch that wrote the word while
  a reset was pending: the key is gone, so CDC.cpp 136 does not cancel any more.
  `TouchResets` excepts a sketch that goes on feeding the watchdog.
- `FlashIsImage` excepts a page whose last block missed bytes of the host, and
  every page once any SPM operation was disturbed: an erase or a fill that did
  nothing shows in later pages too. `ReadBackIsFlash` excepts the same
  disturbance. `AddressInStep` excepts a host that was away, until it sets the
  address again.
- `FlushMeansSent` and `CallsReturn` except bytes that a `begin` on the open port
  cut off (HardwareSerial.cpp 149): it disables the data-register interrupt and
  clears `_written`, so `flush` returns at once, and a `write` that finds the
  buffer full waits for an interrupt that is off (`Stuck`). The next byte that
  is written sends them all.

### Bounds

- Ring: four slots and two byte values: it fills, wraps, and is emptied at
  every fill level; order and duplication show with two values.
- Bootloader: intervals of one or two ticks, so that a tick can fall before,
  inside and at the end of each wait; blocks of at most two bytes; all subsets
  of the reset flags that `main` tests.
- Flash: two pages of two words, two blocks, two data values that are symmetric
  since the code never looks at them, around byte address 512, where the high byte of the word address that command `A` sends
  changes. A block can be empty, partial or whole, hit the page just written or
  the other one, and continue across the page boundary.
- Bridge: banks and ring of two bytes, up to three bytes from the ESP8266, two
  from the host and four together (`MaxBytes`), one replugging: packets are full, short and empty, the ring
  overflows, and every wait can end with the host, the timer or the cable.
- Control endpoint: packets of two bytes, a descriptor of one packet and a line
  encoding of two, asked for with lengths three and four: answers are cut short,
  exact, and followed by an empty packet. All requests, and two faults in any
  combination: aborts, early requests, resets and unplugging at any step of a
  handler, suspends at any of its waits.
- Touch: two values of the sketch's word, a watchdog of two ticks, unlimited
  touches and resets.
- Serial1: a buffer of four and ten bytes, so that it fills and wraps twice.
  Deadlock is not checked in this run: a `Stuck` write is one.

### Fairness

Weak fairness of the main program and of the interrupts is assumed everywhere:
there is no scheduler that could withhold either. In addition:

- `QuietSettles`: the host tool finishes a block it began and ends the bridge
  with RTS (`HostFinishes`). The code does need this: without the first,
  `avr_timeout` is the counterexample. The second has no effect once the cable
  is pulled, and the property says so.
- `Delivered`: the UART transmits, and an attached host collects packets.
- `Enumerates`: the host completes the stages it is in, resets a device it finds
  attached, resumes a bus it suspended, and the cable is plugged in again. It
  asks for an address and a configuration if it can do so again and again
  (strong fairness, a host that persists).
- `TouchResets`: the watchdog counts and fires; it has an oscillator of its own.
- `CallsReturn`: the UART shifts bytes out. Interrupts need not be enabled:
  the waiting loops call the handler themselves.

## Proofs

TLAPS proves, for every value of the constants that satisfies the named
assumptions:

- `UartRingProofs` (`NAssumption`, `ByteAssumption`): `TypeCorrect`,
  `LossIsJustified`, `Refinement`. The invariant `Inv` records what each pending
  access of the main program relies on. The refinement needs how the bytes
  between two indexes change when either index advances (`BytesAppend`,
  `BytesTail`). The delicate case is `buffer_out` advanced before its byte is
  loaded: the slot lies just behind `buffer_out`, where the full test keeps the
  interrupt from writing.
- `BootloaderProofs` (`TicksAssumption`, `BoundAssumption`): `TypeCorrect`,
  `SketchNeeded`, `HoldIsMeasured`, `TimerKept`, `EspRecovered`. The invariant
  adds to the types that boot mode `'0'` comes from a sketch or a block command,
  that `Timeout + elapsed` is the interval of the `check_reset` in progress until
  a programmer runs, and where in the switch chain the ESP8266 may be stranded.
- `FlashBlockProofs` (`SizeAssumption`): `TypeCorrect`,
  `AddressKept`, `FlashHoldsImage`, `ReadsBackFlash`. The invariant has two
  parts. `Progress`: bytes moved and bytes to come stay within the page, in step
  with the data the host sent. `Contents`: while a page is being filled it is
  erased, the page buffer holds the bytes moved so far, and all other pages are
  as the host takes them to be.
- `EspBridgeProofs` (`SizeAssumption`, `TickAssumption`, `LimitAssumption`):
  `TypeCorrect`, `WaitsOutTheInterval` (an action property), `TransferEnded`. A
  byte is in hand exactly inside `usb_write_byte`; in the bridge, what it has
  waited and what is left of `Timeout` add up to the interval; and at each point
  of the task loop the IN bank is in the state that `usb_flush` relies on, or a
  wait was given up (`cut`). Nothing is assumed of when `main` restarts `Timeout`.
- `EspBridgeOrder` (the same assumptions): `HostOrder`, `EspOrder`. Either
  direction is one sequence, the bytes that have arrived followed by the places
  where others are on their way. `StreamStep` and `OutStreamStep` show that a
  step leaves this sequence alone, takes a part out of it, or appends to it;
  lemmas on concatenation show that each of these keeps the order. Towards the
  host, it is needed that the byte in hand is one byte (`Carried`). Towards the
  ESP8266, it is needed that an acknowledged bank is empty, that `CDC_Task` holds
  a byte only for `putch`, that the bridge reads one only with `UDR1` free, and
  that a byte that was polled is still there unless the cable was pulled
  (`OutShape`).
- `UsbControlProofs` (`SizeAssumption`): `TypeCorrect`, `Agreement`,
  `SuspendNoticed`, `AnswerIsWhole`. None of the properties is inductive, since
  each speaks of the moments between requests. `BusInv` says which interrupt
  flags are pending for what the library has not seen yet, that exactly one of
  suspend and wake-up is enabled, and that interrupts are off only in
  `SetAddress`. `TransferInv` says, for each place of the program, how far the
  host is in the same transfer: the configuration number is ahead of the host
  from the handler to the status stage, the address behind it from the status
  stage to the end of the handler. `StreamInv` says that the bytes the host has,
  those in the bank and those left to send make up the answer, and that only the
  last packet is short. `ReadyInv` says how many endpoints are configured while
  the event handler is at it. `SizeAssumption` asks for a control endpoint of two
  bytes or more, which hold the answer to `GetStatus`; USB allows none below
  eight.
- `ResetHandshakeProofs` (`WordAssumption`, `PeriodAssumption`): `TypeCorrect`,
  `TouchLeavesNoTrace`, `EnteredWhenAsked` (an action property). While a touch is
  pending the key is in place and word and watchdog are saved; a watchdog reset
  finds the key exactly if a touch is pending.
- `HardwareSerialProofs` (`NAssumption`, `WritesAssumption`): `TypeCorrect`,
  `InOrder` (an action property), `FlushedIsSent`, `FreeIsKept`. Every byte
  written is on the wire, in the UART or in its slot of the buffer; UDRIE is set
  exactly if the buffer is not empty, except while bytes are `cut` off, and TXC
  is clear while the UART is busy, both except inside the atomic blocks.

All invariants, action properties and the refinement that the passing runs
check are proved. Only model-checked are the five liveness properties
(`QuietSettles`, `Delivered`, `Enumerates`, `TouchResets`, `CallsReturn`):
arguments under fairness need `ENABLED`, which is out of the prover's reach.

## Not modelled

Nearly all files under `src/` are third-party: LUFA with its demos, host mode,
class drivers and other architectures; the Arduino cores and libraries; the
ESP8266 SDK and its binaries. The board's own program is Adelino.c, about 1,240
lines, which is modelled but for the parts below, together with the parts of
LUFA and of the Arduino core that it runs on or hands over to. Of the source
tree as a whole that is a very small share, and modelling more of it would
not say more about Adelino.

- LED animation and the strap pins shared with the LEDs: straight-line code of
  one process.
- Descriptors: constant tables. Line encoding: stored and never used.
- Odd or oversized blocks, which host tools do not send; the full AVR-109
  build, which is not the one compiled. A power loss inside a page is modelled
  for its effect on flash word 0 only.
- LUFA beyond the device side that the bootloader links. Of that side, three
  details are left out: the stall of a data endpoint that `SET_FEATURE` and
  `CLEAR_FEATURE` switch (DeviceStandardReq.c 341-364), since the model has no
  traffic there while requests are handled; `SET_ADDRESS` to zero (135), which a
  host sends only to undo an address; and requests for data with `wLength` zero,
  which host drivers do not send.
- The receiver of Serial1, which is a ring like the bootloader's; the core's own
  USB stack, apart from the two requests of the touch.
- The example sketches under `src/Cases`: demonstrations, not firmware.
