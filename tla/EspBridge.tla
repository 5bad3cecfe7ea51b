----------------------------- MODULE EspBridge -----------------------------
(***************************************************************************)
(* The bytes between the ESP8266 and the USB host (Adelino.c): CDC_Task    *)
(* and the loop of ESP8266_programmer, over usb_write_byte, usb_flush and  *)
(* usb_read_byte, with the banks of the two CDC data endpoints and the     *)
(* UART.  The receive ring is the lossy FIFO that UartRing implements.     *)
(* Of main () there is what it does between two calls of CDC_Task that     *)
(* matters here: it restarts Timeout, or resets the ESP8266, or neither;   *)
(* Bootloader says when.                                                   *)
(*                                                                         *)
(* Bytes are numbers in the order in which their sender sent them.  ESC    *)
(* and 04h are not sent here: Bootloader models what they start.  A bank   *)
(* belongs to the controller from Endpoint_ClearIN until the host has      *)
(* collected the packet; a byte written to it meanwhile is lost.           *)
(***************************************************************************)
EXTENDS Naturals, Sequences

CONSTANTS
    EpSize,     \* CDC_TXRX_EPSIZE
    RingSize,   \* unread bytes the UART ring holds
    CommTicks,  \* USB_COMM_TIMEOUT
    EspTicks,   \* ESP_PROGRAMMER_TIMEOUT
    SettleTicks,\* TICKS_MS(350), in reset_esp_and_wait
    StageTicks, \* the interval main () restarts Timeout with
    Ends,       \* which bytes of the ESP8266 are C0h, the SLIP END
    MaxIn,      \* bound: bytes the ESP8266 sends
    MaxOut,     \* bound: bytes the host sends
    MaxBytes,   \* bound: bytes they send together
    MaxPlugs    \* bound: times the cable is plugged in again

ASSUME SizeAssumption == EpSize \in Nat \ {0} /\ RingSize \in Nat \ {0}
ASSUME TickAssumption ==
    /\ CommTicks \in Nat \ {0} /\ EspTicks \in Nat \ {0}
    /\ SettleTicks \in Nat \ {0} /\ StageTicks \in Nat \ {0}
ASSUME LimitAssumption ==
    /\ MaxIn \in Nat /\ MaxOut \in Nat /\ MaxBytes \in Nat /\ MaxPlugs \in Nat
    /\ Ends \subseteq Nat

VARIABLES
    queue, hold, clearing,  \* the ring, and the byte ch taken from it
    bank,       \* bytes in the IN bank
    sent,       \* TXINI is clear: the controller owns the IN bank
    got,        \* the bytes the host has collected
    lastLen,    \* the length of the last packet it collected
    obank,      \* bytes in the OUT bank
    received,   \* RXOUTI: a packet is in the OUT bank
    ch,         \* the byte CDC_Task read from the host: <<>> or one byte
    udr,        \* the UART transmit register: <<>> or one byte
    toEsp,      \* the bytes the ESP8266 has received
    pc, mode,   \* "task": CDC_Task; "bridge": ESP8266_programmer
    Timeout,
    rts_pulse,
    attached,
    nextIn, nextOut,    \* the next byte of the ESP8266, of the host
    plugs,
    lost,       \* history: the bytes lost on the way to the host
    waited,     \* history: ticks since the byte was taken
    cut         \* history: since the last byte was written to the IN bank, a
                \* wait for the host was given up or the cable emptied the bank

ring == <<queue, hold, clearing>>
inEp == <<bank, sent, got, lastLen>>
out == <<obank, received, ch, udr, toEsp>>
env == <<attached, nextIn, nextOut, plugs>>
flow == <<pc, mode, Timeout, rts_pulse>>
history == <<lost, waited, cut>>

vars == <<ring, inEp, out, env, flow, history>>

PC == {"main", "loop", "write", "write_wait", "flush", "flush_full", "flush_wait",
       "in", "read", "put", "esp_boot", "settle", "settled"}

Ring == INSTANCE LossyFifo WITH Byte <- 1 .. MaxIn, Capacity <- RingSize

Init ==
    /\ Ring!Init
    /\ bank = <<>> /\ sent = FALSE /\ got = <<>> /\ lastLen = 0
    /\ obank = <<>> /\ received = FALSE
    /\ ch = <<>> /\ udr = <<>> /\ toEsp = <<>>
    /\ pc = "main" /\ mode = "task" /\ Timeout = 0 /\ rts_pulse = FALSE
    /\ attached = TRUE /\ nextIn = 1 /\ nextOut = 1 /\ plugs = 0
    /\ lost = {} /\ waited = 0 /\ cut = FALSE

-----------------------------------------------------------------------------
(* Between two calls of CDC_Task *)

\* main () calls run_tasks, with Timeout restarted when check_reset or the
\* normal boot begins.
RunTasks ==
    /\ pc = "main"
    /\ pc' = "loop"
    /\ Timeout' \in {Timeout, StageTicks}
    /\ UNCHANGED <<mode, rts_pulse, ring, inEp, out, env, history>>

\* reset_esp_and_wait, after the second check_reset
MainResetsEsp ==
    /\ pc = "main"
    /\ pc' = "settle" /\ Timeout' = SettleTicks
    /\ UNCHANGED <<mode, rts_pulse, ring, inEp, out, env, history>>

-----------------------------------------------------------------------------
(* The CDC IN endpoint *)

Goto(p) == pc' = p /\ UNCHANGED <<mode, Timeout, rts_pulse>>

endpoint_detached == Timeout = 0 \/ ~attached

ReadWriteAllowed == ~sent /\ Len(bank) < EpSize

Elements(s) == {s[i] : i \in DOMAIN s}

Lose(s) == lost' = lost \cup Elements(s)

\* Endpoint_ClearIN: a bank that was already handed over is left alone.
ClearIN == sent' = TRUE /\ UNCHANGED <<bank, got, lastLen>>

Mut_NoFlushAtEnd ==
    /\ Ring!PassOn
    /\ Goto(IF mode = "task" THEN "loop" ELSE "in")
    /\ waited' = 0

\* After usb_write_byte the bridge looks whether the byte was an END.
AfterWrite ==
    /\ Ring!PassOn
    /\ Goto(IF mode = "task" THEN "loop"
            ELSE IF Head(hold) \in Ends THEN "flush" ELSE "in")
    /\ waited' = 0

Mut_WriteUnchecked ==
    /\ pc = "write"
    /\ bank' = Append(bank, Head(hold))
    /\ AfterWrite
    /\ cut' = FALSE
    /\ UNCHANGED <<sent, got, lastLen, out, env, lost>>

Mut_WriteTwice ==
    /\ pc = "write"
    /\ ReadWriteAllowed
    /\ bank' = bank \o hold \o hold
    /\ AfterWrite
    /\ cut' = FALSE
    /\ UNCHANGED <<sent, got, lastLen, out, env, lost>>

\* usb_write_byte: there is room, or the bank is sent first.
WriteNow ==
    /\ pc = "write"
    /\ ReadWriteAllowed
    /\ bank' = Append(bank, Head(hold))
    /\ AfterWrite
    /\ cut' = FALSE
    /\ UNCHANGED <<sent, got, lastLen, out, env, lost>>

WriteFull ==
    /\ pc = "write"
    /\ ~ReadWriteAllowed
    /\ ClearIN
    /\ Goto("write_wait")
    /\ UNCHANGED <<ring, out, env, history>>

WriteReady ==
    /\ pc = "write_wait"
    /\ ~sent
    /\ bank' = Append(bank, Head(hold))
    /\ AfterWrite
    /\ cut' = FALSE
    /\ UNCHANGED <<sent, got, lastLen, out, env, lost>>

\* The wait is given up, and Endpoint_Write_8 writes all the same.
WriteGivenUp ==
    /\ pc = "write_wait"
    /\ sent
    /\ endpoint_detached
    /\ AfterWrite
    /\ Lose(hold)
    /\ cut' = TRUE
    /\ UNCHANGED <<inEp, out, env>>

\* usb_flush: nothing to send.  The byte count of a bank that is on its way
\* to the host can read zero as well.
FlushEmpty ==
    /\ pc = "flush"
    /\ bank = <<>> \/ sent
    /\ Goto("in")
    /\ UNCHANGED <<ring, inEp, out, env, history>>

Mut_FlushOnce ==
    /\ pc = "flush"
    /\ bank # <<>> \/ sent
    /\ ClearIN
    /\ Goto("flush_wait")
    /\ UNCHANGED <<ring, out, env, history>>

\* A full bank is sent, and an empty packet after it.
FlushBytes ==
    /\ pc = "flush"
    /\ bank # <<>> \/ sent
    /\ ClearIN
    /\ Goto(IF ReadWriteAllowed THEN "flush_wait" ELSE "flush_full")
    /\ UNCHANGED <<ring, out, env, history>>

\* _usb_flush_endpoint ends: TXINI is set, or endpoint_detached.
FlushWaitEnds == ~sent \/ endpoint_detached

FlushFull ==
    /\ pc = "flush_full"
    /\ FlushWaitEnds
    /\ ClearIN
    /\ Goto("flush_wait")
    /\ cut' = (cut \/ sent)
    /\ UNCHANGED <<ring, out, env, lost, waited>>

FlushDone ==
    /\ pc = "flush_wait"
    /\ FlushWaitEnds
    /\ Goto("in")
    /\ cut' = (cut \/ sent)
    /\ UNCHANGED <<ring, inEp, out, env, lost, waited>>

-----------------------------------------------------------------------------
(* ESP8266 to host *)

\* while (buffer_in != buffer_out) ch = buffer [buffer_out++];
TaskTake ==
    /\ pc = "loop" /\ mode = "task"
    /\ Ring!Take
    /\ Goto("write")
    /\ UNCHANGED <<inEp, out, env, history>>

TaskEmpty ==
    /\ pc = "loop" /\ mode = "task"
    /\ queue = <<>>
    /\ Goto("flush")
    /\ UNCHANGED <<ring, inEp, out, env, history>>

Mut_IterateNoRestart ==
    /\ pc = "loop" /\ mode = "bridge"
    /\ ~rts_pulse
    /\ IF queue # <<>> THEN Ring!Take /\ Goto("write")
                       ELSE UNCHANGED ring /\ Goto("in")
    /\ UNCHANGED <<inEp, out, env, history>>

\* An iteration of the bridge restarts Timeout and takes at most one byte.
BridgeIterate ==
    /\ pc = "loop" /\ mode = "bridge"
    /\ ~rts_pulse
    /\ Timeout' = CommTicks
    /\ IF queue # <<>> THEN Ring!Take /\ pc' = "write"
                       ELSE UNCHANGED ring /\ pc' = "in"
    /\ UNCHANGED <<mode, rts_pulse, inEp, out, env, history>>

-----------------------------------------------------------------------------
(* Host to ESP8266 *)

\* usb_byte_available; an empty packet is acknowledged and counts as none.
Available == received /\ obank # <<>>

ClearEmptyPacket == received' = FALSE /\ UNCHANGED <<obank, ch, udr, toEsp>>

NothingIn ==
    /\ pc = "in"
    /\ ~Available
    /\ ClearEmptyPacket
    /\ Goto(IF mode = "task" THEN "main" ELSE "loop")
    /\ UNCHANGED <<ring, inEp, env, history>>

\* The bridge polls the endpoint only when UDRE1 is set.
BridgeBusy ==
    /\ pc = "in" /\ mode = "bridge"
    /\ udr # <<>>
    /\ Goto("loop")
    /\ UNCHANGED <<ring, inEp, out, env, history>>

Mut_SomethingIn ==
    /\ pc = "in"
    /\ Available
    /\ Goto("read")
    /\ UNCHANGED <<ring, inEp, out, env, history>>

SomethingIn ==
    /\ pc = "in"
    /\ Available
    /\ mode = "bridge" => udr = <<>>
    /\ Goto("read")
    /\ UNCHANGED <<ring, inEp, out, env, history>>

\* CDC_Task keeps the byte for putch; the bridge writes it to UDR1 at once.
Read(b) ==
    IF mode = "task" THEN ch' = <<b>> /\ UNCHANGED udr /\ Goto("put")
                     ELSE udr' = <<b>> /\ UNCHANGED ch /\ Goto("loop")

\* Endpoint_Read_8, in CDC_Task after a second poll by usb_read_byte.
ReadAvailable ==
    /\ pc = "read"
    /\ Available
    /\ Read(Head(obank))
    /\ obank' = Tail(obank)
    /\ UNCHANGED <<ring, inEp, received, toEsp, env, history>>

\* usb_read_byte polls again, and again acknowledges an empty packet.
ReadPolls ==
    /\ pc = "read" /\ mode = "task"
    /\ received /\ obank = <<>>
    /\ ~endpoint_detached
    /\ ClearEmptyPacket
    /\ UNCHANGED <<flow, ring, inEp, env, history>>

\* The bank was emptied since it was polled: usb_read_byte polls once more
\* and returns 0 when endpoint_detached; the bridge reads a byte that is not
\* there.
ReadStandIn ==
    /\ pc = "read"
    /\ ~Available
    /\ mode = "task" => endpoint_detached
    /\ Read(0)
    /\ received' = (received /\ mode = "bridge")
    /\ UNCHANGED <<ring, inEp, obank, toEsp, env, history>>

\* putch: while (!(UCSR1A & _BV(UDRE1))); UDR1 = ch;
Putch ==
    /\ pc = "put"
    /\ udr = <<>>
    /\ udr' = ch
    /\ ch' = <<>>
    /\ Goto("main")
    /\ UNCHANGED <<ring, inEp, obank, received, toEsp, env, history>>

-----------------------------------------------------------------------------
(* ESP8266_programmer, before and after the bridge *)

\* CDC_Task reads a C0h; the ring is emptied and the ESP8266 restarts.
EnterProgrammer ==
    /\ pc = "in" /\ mode = "task"
    /\ attached /\ ~received
    /\ Ring!BeginClear
    /\ Lose(queue)
    /\ pc' = "esp_boot" /\ mode' = "bridge" /\ Timeout' = EspTicks
    /\ UNCHANGED <<rts_pulse, inEp, out, env, waited, cut>>

\* The first test of buffer_in, which finds bytes or does not.
BootFirst ==
    /\ pc = "esp_boot"
    /\ Ring!EndClear
    /\ Timeout' \in {Timeout, CommTicks}
    /\ UNCHANGED <<pc, mode, rts_pulse, inEp, out, env, history>>

\* A byte came in before CommTicks of silence: the ring is emptied again.
BootBytes ==
    /\ pc = "esp_boot"
    /\ ~clearing /\ queue # <<>>
    /\ Ring!Clear
    /\ Lose(queue)
    /\ Timeout' = CommTicks
    /\ UNCHANGED <<pc, mode, rts_pulse, inEp, out, env, waited, cut>>

BootDone ==
    /\ pc = "esp_boot"
    /\ Timeout = 0 /\ ~clearing
    /\ pc' = "loop" /\ rts_pulse' = FALSE
    /\ UNCHANGED <<mode, Timeout, ring, inEp, out, env, history>>

\* reset_esp_and_wait
BridgeExit ==
    /\ pc = "loop" /\ mode = "bridge"
    /\ rts_pulse
    /\ pc' = "settle" /\ Timeout' = SettleTicks
    /\ UNCHANGED <<mode, rts_pulse, ring, inEp, out, env, history>>

\* buffer_in = buffer_out = 0;
Settled ==
    /\ pc = "settle"
    /\ Timeout = 0
    /\ Ring!BeginClear
    /\ Lose(queue)
    /\ Goto("settled")
    /\ UNCHANGED <<inEp, out, env, waited, cut>>

\* Back to main (), from the programmer through CDC_Task.
BackToTask ==
    /\ pc = "settled"
    /\ Ring!EndClear
    /\ pc' = "main" /\ mode' = "task"
    /\ UNCHANGED <<Timeout, rts_pulse, inEp, out, env, history>>

-----------------------------------------------------------------------------
(* Interrupts, and the environment *)

TIMER1_COMPA ==
    /\ Timeout > 0
    /\ Timeout' = Timeout - 1
    /\ waited' = IF hold # <<>> /\ waited < CommTicks THEN waited + 1 ELSE waited
    /\ UNCHANGED <<pc, mode, rts_pulse, ring, inEp, out, env, lost, cut>>

\* The receive interrupt stores the byte, or loses it when it may.
EspSends ==
    /\ nextIn <= MaxIn /\ nextIn + nextOut < MaxBytes + 2
    /\ nextIn' = nextIn + 1
    /\ \/ Ring!Accept(nextIn) /\ UNCHANGED lost
       \/ Ring!MayLose /\ Lose(<<nextIn>>) /\ UNCHANGED ring
    /\ UNCHANGED <<inEp, out, attached, nextOut, plugs, flow, waited, cut>>

\* The UART is done with a byte.
UartSends ==
    /\ udr # <<>>
    /\ toEsp' = toEsp \o udr
    /\ udr' = <<>>
    /\ UNCHANGED <<ring, inEp, obank, received, ch, env, flow, history>>

HostCollects ==
    /\ attached /\ sent
    /\ got' = got \o bank
    /\ lastLen' = Len(bank)
    /\ bank' = <<>> /\ sent' = FALSE
    /\ UNCHANGED <<ring, out, env, flow, history>>

\* A packet of the host is taken when the OUT bank is free.
HostSends(n) ==
    /\ attached /\ ~received
    /\ nextOut + n <= MaxOut + 1 /\ nextIn + nextOut + n <= MaxBytes + 2
    /\ obank' = [i \in 1 .. n |-> nextOut + i - 1]
    /\ received' = TRUE
    /\ nextOut' = nextOut + n
    /\ UNCHANGED <<ring, inEp, ch, udr, toEsp, attached, nextIn, plugs, flow,
                   history>>

\* EVENT_USB_Device_ControlRequest, while the bridge runs
HostPulsesRts ==
    /\ attached /\ mode = "bridge"
    /\ ~rts_pulse
    /\ rts_pulse' = TRUE
    /\ UNCHANGED <<pc, mode, Timeout, ring, inEp, out, env, history>>

Unplug ==
    /\ attached
    /\ plugs < MaxPlugs
    /\ attached' = FALSE
    /\ UNCHANGED <<ring, inEp, out, nextIn, nextOut, plugs, flow, history>>

\* The device is enumerated again and its data endpoints are configured.
Plug ==
    /\ ~attached
    /\ attached' = TRUE
    /\ plugs' = plugs + 1
    /\ bank' = <<>> /\ sent' = FALSE
    /\ obank' = <<>> /\ received' = FALSE
    /\ Lose(bank)
    /\ cut' = TRUE
    /\ UNCHANGED <<ring, got, lastLen, ch, udr, toEsp, nextIn, nextOut, flow,
                   waited>>

-----------------------------------------------------------------------------
(* The specification *)

\* The loops of main (), of CDC_Task and of the bridge.
Main ==
    \/ RunTasks \/ MainResetsEsp
    \/ TaskTake \/ TaskEmpty \/ BridgeIterate
    \/ WriteNow \/ WriteFull \/ WriteReady \/ WriteGivenUp
    \/ FlushEmpty \/ FlushBytes \/ FlushFull \/ FlushDone
    \/ NothingIn \/ BridgeBusy \/ SomethingIn
    \/ ReadAvailable \/ ReadPolls \/ ReadStandIn \/ Putch
    \/ EnterProgrammer \/ BootFirst \/ BootBytes \/ BootDone
    \/ BridgeExit \/ Settled \/ BackToTask

Environment ==
    \/ EspSends \/ HostPulsesRts \/ Unplug \/ Plug
    \/ \E n \in 0 .. EpSize : HostSends(n)

Next == Main \/ TIMER1_COMPA \/ UartSends \/ HostCollects \/ Environment

Spec == Init /\ [][Next]_vars

(* The main program runs, the timer ticks, the UART shifts, and a host     *)
(* that is there collects the packets that are ready.                      *)
FairSpec ==
    /\ Spec
    /\ WF_vars(Main) /\ WF_vars(TIMER1_COMPA)
    /\ WF_vars(UartSends) /\ WF_vars(HostCollects)

-----------------------------------------------------------------------------
(* Properties *)

TypeOK ==
    /\ bank \in Seq(1 .. MaxIn) /\ Len(bank) <= EpSize
    /\ queue \in Seq(1 .. MaxIn) /\ hold \in Seq(1 .. MaxIn)
    /\ lastLen \in 0 .. EpSize /\ nextIn \in 1 .. MaxIn + 1
    /\ Timeout \in Nat /\ waited \in 0 .. CommTicks /\ plugs \in Nat
    /\ pc \in PC /\ mode \in {"task", "bridge"}
    /\ {sent, received, rts_pulse, attached, clearing, cut} \subseteq BOOLEAN

\* The bytes of s are in the order in which they were sent, and none is there
\* twice; 0 is no byte that was sent, but what is read from an empty bank.
Increasing(s) ==
    \A i, j \in DOMAIN s : i < j /\ s[i] # 0 /\ s[j] # 0 => s[i] < s[j]

(* The bytes of the ESP8266 reach the host in order and none twice, across *)
(* usb_write_byte, usb_flush, abandoned waits, mode changes and cables     *)
(* pulled; every one that does not is accounted for.                       *)
HostGetsInOrder ==
    LET s == got \o bank \o hold \o queue
    IN  /\ Increasing(s)
        /\ Elements(s) \cap lost = {}
        /\ Elements(s) \cup lost = 1 .. nextIn - 1

(* The bytes of the host reach the ESP8266 in order and none twice; all of *)
(* them do, and nothing else, as long as the cable stays in: neither putch *)
(* nor the bridge overwrites a byte the UART has not sent.                 *)
EspGetsInOrder ==
    LET s == toEsp \o udr \o ch \o obank
    IN  /\ Increasing(s)
        /\ plugs = 0 => s = [i \in 1 .. nextOut - 1 |-> i]

(* The bridge gives a byte up, with the host attached, only after the host *)
(* had all of USB_COMM_TIMEOUT to collect the packet in front of it.       *)
BridgeWaits ==
    [][hold # <<>> /\ hold' = <<>> /\ bank' = bank /\ attached /\ mode = "bridge"
        => waited = CommTicks]_vars

(* When usb_flush of CDC_Task returns, the host has every byte written,    *)
(* and the last packet was a short one, which ends the transfer; unless a  *)
(* wait for the host was given up, at once with Timeout at zero or after   *)
(* it ran out, or the cable emptied the bank, and no byte was written      *)
(* since.  It does not matter when main () restarts Timeout.               *)
FlushEndsTransfer ==
    pc = "in" /\ mode = "task" /\ ~cut
        => bank = <<>> /\ ~sent /\ lastLen < EpSize

(* A byte that waits in the ring of the task loop, or an END in the ring   *)
(* of the bridge, is collected by a host that stays, or given up.          *)
Delivered ==
    \A b \in 1 .. MaxIn :
        (b \in Elements(queue) /\ (mode = "task" \/ b \in Ends))
            ~> b \in Elements(got) \cup lost \/ ~attached
=============================================================================
