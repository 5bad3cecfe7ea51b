---------------------------- MODULE UsbControl ----------------------------
(***************************************************************************)
(* The device side of the USB library under the bootloader, as the         *)
(* Makefile of adelino configures it: USB_USBTask and the control requests *)
(* on endpoint 0 (LUFA, DeviceStandardReq.c, Endpoint_AVR8.c and the       *)
(* control streams), the interrupt USB_GEN_vect, and the two events that   *)
(* Adelino.c handles.                                                      *)
(*                                                                         *)
(* Endpoint 0 and the bus are hardware and modelled from how the code uses *)
(* them: a SETUP is always taken and frees the bank; a bus reset clears    *)
(* the address and disables the data endpoints; any signal on the bus sets *)
(* WAKEUPI; SUSPI stays set while the bus is idle.  The host is one that   *)
(* keeps to the stages of a control transfer, and may break one off.       *)
(***************************************************************************)
EXTENDS Naturals, Sequences

CONSTANTS
    EpSize,     \* FIXED_CONTROL_ENDPOINT_SIZE
    DescLen,    \* bytes of the descriptor that is asked for
    EncLen,     \* sizeof(CDC_LineEncoding_t)
    WLengths,   \* lengths the host asks for
    MaxFaults   \* bound: transfers aborted, bus resets, suspends, unplugs

StreamIn == {"GetDescriptor", "GetLineEncoding"}
ShortIn == {"GetConfiguration", "GetStatus"}
NoData == {"SetAddress", "SetConfiguration", "Unconfigure", "ClearFeature",
           "SetControlLineState"}
Kinds == StreamIn \cup ShortIn \cup NoData \cup {"SetLineEncoding", "Unknown"}

\* The smallest control endpoint USB allows is larger than an answer to
\* GetStatus.
ASSUME SizeAssumption ==
    /\ EpSize \in Nat /\ EpSize >= 2
    /\ DescLen \in Nat \ {0} /\ EncLen \in Nat \ {0}
    /\ WLengths \subseteq Nat \ {0} /\ MaxFaults \in Nat

VARIABLES
    DeviceState, ConfigurationNumber,
    ADDEN,      \* 1 when the device answers at its own address, 0 before
    IE,         \* the global interrupt flag
    pending, enabled,   \* interrupt flags; SUSPI and WAKEUPI can be disabled
    UENUM,      \* the selected endpoint; 0 is the control endpoint
    epType,     \* what each endpoint is configured as
    setup, out, \* RXSTPI, RXOUTI of endpoint 0
    free, len,  \* TXINI: the bank is the program's; the bytes in it
    stall,      \* STALLRQ
    pc,
    req,        \* USB_ControlRequest, while a request is being handled
    left, full, \* Length (in ConfigurationChanged: the endpoint number) and
                \* LastPacketFull
    bus,        \* "off", "attached" (not yet reset), "up", "suspended"
    stage, hreq, hlen,  \* the host's transfer, its SETUP, and the bytes it carried
    hostAddr, hostCfg,  \* what the host takes the device to be set to
    faults,
    torn        \* history: a SETUP, reset or unplug came inside a handler

state == <<DeviceState, ConfigurationNumber, ADDEN>>
ints == <<IE, pending, enabled>>
eps == <<UENUM, epType>>
ep0 == <<setup, out, free, len, stall>>
prog == <<pc, req, left, full>>
host == <<bus, stage, hreq, hlen, hostAddr, hostCfg, faults, torn>>

vars == <<state, ints, eps, ep0, prog, host>>

States == {"Unattached", "Powered", "Default", "Addressed", "Configured",
           "Suspended"}
PC == {"task", "dispatch", "status_in", "status_out", "address", "configure",
       "select", "enable", "write_check", "write_fill", "write_status", "write_end",
       "read", "read_status", "read_end", "final"}
Buses == {"off", "attached", "up", "suspended"}
Stages == {"idle", "data_in", "data_out", "status_in", "status_out"}
Order == <<"VBUSTI", "SUSPI", "WAKEUPI", "EORSTI">>
NoRequest == [kind |-> "Unknown", wLength |-> 0]
Request ==
    [kind : Kinds \cap StreamIn, wLength : WLengths]
        \cup [kind : Kinds \ StreamIn, wLength : {0}]

vbus == bus # "off"

\* USB_Init: the cable is in and the controller has just been enabled.
Init ==
    /\ DeviceState = "Unattached" /\ ConfigurationNumber = 0 /\ ADDEN = 0
    /\ IE = TRUE /\ pending = {"VBUSTI"} /\ enabled = {"SUSPI"}
    /\ UENUM = 0 /\ epType = [e \in 0 .. 3 |-> IF e = 0 THEN "control" ELSE "off"]
    /\ setup = FALSE /\ out = FALSE /\ free = TRUE /\ len = 0 /\ stall = FALSE
    /\ pc = "task" /\ req = NoRequest /\ left = 0 /\ full = FALSE
    /\ bus = "attached" /\ stage = "idle" /\ hreq = NoRequest /\ hlen = 0
    /\ hostAddr = 0 /\ hostCfg = 0 /\ faults = 0 /\ torn = FALSE

-----------------------------------------------------------------------------
(* The interrupt: the flags are handled in a fixed order, before the main  *)
(* program goes on.                                                        *)

Live == pending \cap (enabled \cup {"VBUSTI", "EORSTI"})

Taken(i) == IE /\ Order[i] \in Live /\ \A j \in 1 .. i - 1 : Order[j] \notin Live

VBusChange ==
    /\ Taken(1)
    /\ pending' = pending \ {"VBUSTI"}
    /\ DeviceState' = IF vbus THEN "Powered" ELSE "Unattached"
    /\ UNCHANGED <<ConfigurationNumber, ADDEN, IE, enabled, eps, ep0, prog, host>>

Suspend ==
    /\ Taken(2)
    /\ enabled' = {"WAKEUPI"}
    /\ DeviceState' = "Suspended"
    /\ UNCHANGED <<ConfigurationNumber, ADDEN, IE, pending, eps, ep0, prog, host>>

\* DeviceState after a wake-up and after SetConfiguration
ActiveState(n) == IF n # 0 \/ ADDEN = 1 THEN "Configured" ELSE "Powered"

Mut_WakeUpOnce ==
    /\ Taken(3)
    /\ pending' = pending \ {"WAKEUPI"}
    /\ enabled' = {}
    /\ DeviceState' = ActiveState(ConfigurationNumber)
    /\ UNCHANGED <<ConfigurationNumber, ADDEN, IE, eps, ep0, prog, host>>

WakeUp ==
    /\ Taken(3)
    /\ pending' = pending \ {"WAKEUPI"}
    /\ enabled' = {"SUSPI"}
    /\ DeviceState' = ActiveState(ConfigurationNumber)
    /\ UNCHANGED <<ConfigurationNumber, ADDEN, IE, eps, ep0, prog, host>>

\* The control endpoint is configured, and stays selected.
EndOfReset ==
    /\ Taken(4)
    /\ pending' = pending \ {"EORSTI", "SUSPI"}
    /\ enabled' = {"WAKEUPI"}
    /\ DeviceState' = "Default"
    /\ ConfigurationNumber' = 0
    /\ UENUM' = 0
    /\ epType' = [epType EXCEPT ![0] = "control"]
    /\ UNCHANGED <<ADDEN, IE, ep0, prog, host>>

-----------------------------------------------------------------------------
(* The main program *)

Runs(p) == pc = p /\ ~(IE /\ Live # {})

\* No request is being handled, and every interrupt has been taken.
Settled == pc = "task" /\ IE /\ Live = {}

Goto(p) == pc' = p /\ UNCHANGED <<req, left, full>>

\* USB_USBTask: the request is read from the bank.
USBTask ==
    /\ Runs("task")
    /\ DeviceState # "Unattached"
    /\ setup
    /\ UENUM' = 0
    /\ pc' = "dispatch" /\ req' = hreq
    /\ UNCHANGED <<left, full, epType, state, ints, ep0, host>>

\* A handler takes the request: Endpoint_ClearSETUP comes first.
Handles(kinds) == Runs("dispatch") /\ req.kind \in kinds

ClearSETUP == setup' = FALSE /\ UNCHANGED <<out, free, len, stall>>

SetAddress ==
    /\ Handles({"SetAddress"})
    /\ IE' = FALSE
    /\ ClearSETUP
    /\ Goto("status_in")
    /\ UNCHANGED <<pending, enabled, state, eps, host>>

SetConfiguration ==
    /\ Handles({"SetConfiguration", "Unconfigure"})
    /\ ClearSETUP
    /\ ConfigurationNumber' = IF req.kind = "SetConfiguration" THEN 1 ELSE 0
    /\ Goto("status_in")
    /\ UNCHANGED <<DeviceState, ADDEN, ints, eps, host>>

ClearSetFeature ==
    /\ Handles({"ClearFeature"})
    /\ ClearSETUP
    /\ Goto("status_in")
    /\ UNCHANGED <<state, ints, eps, host>>

SetControlLineState ==
    /\ Handles({"SetControlLineState"})
    /\ ClearSETUP
    /\ Goto("status_in")
    /\ UNCHANGED <<state, ints, eps, host>>

\* One packet with the answer, sent at once.
Answer(n) ==
    /\ setup' = FALSE
    /\ len' = n /\ free' = FALSE
    /\ Goto("status_out")
    /\ UNCHANGED <<out, stall, state, ints, eps, host>>

GetConfiguration == Handles({"GetConfiguration"}) /\ Answer(1)

GetStatus == Handles({"GetStatus"}) /\ Answer(2)

Mut_WriteStreamAll(n) ==
    /\ ClearSETUP
    /\ left' = n
    /\ full' = FALSE
    /\ pc' = "write_check"
    /\ UNCHANGED <<req, state, ints, eps, host>>

\* Endpoint_Write_Control_Stream: no more than the host asked for.
WriteStream(n) ==
    /\ ClearSETUP
    /\ left' = IF n > req.wLength THEN req.wLength ELSE n
    /\ full' = FALSE
    /\ pc' = "write_check"
    /\ UNCHANGED <<req, state, ints, eps, host>>

GetDescriptor == Handles({"GetDescriptor"}) /\ WriteStream(DescLen)

GetLineEncoding == Handles({"GetLineEncoding"}) /\ WriteStream(EncLen)

SetLineEncoding ==
    /\ Handles({"SetLineEncoding"})
    /\ ClearSETUP
    /\ left' = EncLen
    /\ pc' = "read"
    /\ UNCHANGED <<req, full, state, ints, eps, host>>

NoHandler ==
    /\ Handles({"Unknown"})
    /\ Goto("final")
    /\ UNCHANGED <<state, ints, eps, ep0, host>>

\* A SETUP that is still flagged on the selected endpoint is stalled, and the
\* endpoint selected before the request is selected again.
Final ==
    /\ Runs("final")
    /\ LET unhandled == setup /\ UENUM = 0
       IN  setup' = (setup /\ ~unhandled) /\ stall' = (stall \/ unhandled)
    /\ UENUM' = 0
    /\ pc' = "task" /\ req' = NoRequest /\ left' = 0 /\ full' = FALSE
    /\ UNCHANGED <<out, free, len, epType, state, ints, host>>

-----------------------------------------------------------------------------
(* Status stages *)

Detached == DeviceState = "Unattached"

AfterStatus ==
    IF req.kind = "SetAddress" THEN "address"
    ELSE IF req.kind \in {"SetConfiguration", "Unconfigure"} THEN "configure"
    ELSE "final"

Mut_NoStatus ==
    /\ Runs("status_in")
    /\ free
    /\ Goto(AfterStatus)
    /\ UNCHANGED <<state, ints, eps, ep0, host>>

\* Endpoint_ClearStatusStage, for a request without data from the device
StatusIn ==
    /\ Runs("status_in")
    /\ free
    /\ free' = FALSE /\ len' = 0
    /\ Goto(AfterStatus)
    /\ UNCHANGED <<setup, out, stall, state, ints, eps, host>>

StatusInDetached ==
    /\ Runs("status_in")
    /\ ~free /\ Detached
    /\ Goto(AfterStatus)
    /\ UNCHANGED <<state, ints, eps, ep0, host>>

\* ... and for one with data from the device
StatusOut ==
    /\ Runs("status_out")
    /\ out
    /\ out' = FALSE
    /\ Goto("final")
    /\ UNCHANGED <<setup, free, len, stall, state, ints, eps, host>>

StatusOutDetached ==
    /\ Runs("status_out")
    /\ ~out /\ Detached
    /\ Goto("final")
    /\ UNCHANGED <<state, ints, eps, ep0, host>>

\* while (!(Endpoint_IsINReady())); then the address is set.
SetDeviceAddress ==
    /\ Runs("address")
    /\ free
    /\ ADDEN' = 1
    /\ DeviceState' = "Addressed"
    /\ IE' = TRUE
    /\ Goto("final")
    /\ UNCHANGED <<ConfigurationNumber, pending, enabled, eps, ep0, host>>

SetConfigured ==
    /\ Runs("configure")
    /\ DeviceState' = ActiveState(ConfigurationNumber)
    /\ left' = 1
    /\ pc' = "select"
    /\ UNCHANGED <<req, full, ConfigurationNumber, ADDEN, ints, eps, ep0, host>>

\* EVENT_USB_Device_ConfigurationChanged: three endpoints, each selected and
\* then configured by its number in UENUM.
SelectEndpoint ==
    /\ Runs("select")
    /\ UENUM' = left
    /\ Goto("enable")
    /\ UNCHANGED <<epType, state, ints, ep0, host>>

Mut_ConfigureTwo ==
    /\ Runs("enable")
    /\ epType' = [epType EXCEPT ![UENUM] = "data"]
    /\ left' = left + 1
    /\ pc' = IF left = 2 THEN "final" ELSE "select"
    /\ UNCHANGED <<req, full, UENUM, state, ints, ep0, host>>

ConfigureEndpoint ==
    /\ Runs("enable")
    /\ epType' = [epType EXCEPT ![UENUM] = "data"]
    /\ left' = left + 1
    /\ pc' = IF left = 3 THEN "final" ELSE "select"
    /\ UNCHANGED <<req, full, UENUM, state, ints, ep0, host>>

-----------------------------------------------------------------------------
(* Control streams *)

Cut == DeviceState \in {"Unattached", "Suspended"}

WriteCheck ==
    /\ Runs("write_check")
    /\ Goto(IF left = 0 /\ ~full THEN "write_status"
            ELSE IF Cut \/ setup THEN "write_end"
            ELSE IF out THEN "write_status" ELSE "write_fill")
    /\ UNCHANGED <<state, ints, eps, ep0, host>>

Lesser(m, n) == IF m < n THEN m ELSE n

Mut_FillAll ==
    /\ Runs("write_fill")
    /\ IF free
       THEN /\ len' = len + left /\ left' = 0
            /\ full' = (len + left = EpSize) /\ free' = FALSE
       ELSE UNCHANGED <<len, left, full, free>>
    /\ pc' = "write_check"
    /\ UNCHANGED <<req, setup, out, stall, state, ints, eps, host>>

\* The bank is filled when it is free; a full last packet is followed by an
\* empty one.
WriteFill ==
    /\ Runs("write_fill")
    /\ IF free
       THEN LET n == Lesser(left, EpSize - len)
            IN  /\ len' = len + n /\ left' = left - n
                /\ full' = (len + n = EpSize) /\ free' = FALSE
       ELSE UNCHANGED <<len, left, full, free>>
    /\ pc' = "write_check"
    /\ UNCHANGED <<req, setup, out, stall, state, ints, eps, host>>

WriteStatus ==
    /\ Runs("write_status")
    /\ out \/ Cut
    /\ Goto("write_end")
    /\ UNCHANGED <<state, ints, eps, ep0, host>>

\* The Endpoint_ClearOUT after the stream
WriteEnd ==
    /\ Runs("write_end")
    /\ out' = FALSE
    /\ Goto("final")
    /\ UNCHANGED <<setup, free, len, stall, state, ints, eps, host>>

ReadCheck ==
    /\ Runs("read")
    /\ left = 0 \/ Cut \/ setup
    /\ Goto(IF left = 0 THEN "read_status" ELSE "read_end")
    /\ UNCHANGED <<state, ints, eps, ep0, host>>

ReadBytes ==
    /\ Runs("read")
    /\ left > 0 /\ ~Cut /\ ~setup
    /\ out
    /\ left' = left - Lesser(left, len)
    /\ len' = 0 /\ out' = FALSE
    /\ UNCHANGED <<pc, req, full, setup, free, stall, state, ints, eps, host>>

ReadStatus ==
    /\ Runs("read_status")
    /\ free \/ Cut
    /\ Goto("read_end")
    /\ UNCHANGED <<state, ints, eps, ep0, host>>

\* The Endpoint_ClearIN after the stream
ReadEnd ==
    /\ Runs("read_end")
    /\ free' = FALSE /\ len' = 0
    /\ Goto("final")
    /\ UNCHANGED <<setup, out, stall, state, ints, eps, host>>

-----------------------------------------------------------------------------
(* The host and the bus *)

Answers == bus = "up" /\ ADDEN = hostAddr /\ epType[0] = "control"

Activity == pending' = (pending \ {"SUSPI"}) \cup {"WAKEUPI"}

Count == faults < MaxFaults /\ faults' = faults + 1

FirstStage(k) ==
    IF k \in NoData THEN "status_in"
    ELSE IF k = "SetLineEncoding" THEN "data_out" ELSE "data_in"

\* The order of an enumeration: an address, then a configuration.
InOrder(k) ==
    /\ k = "SetAddress" => hostAddr = 0
    /\ k \in {"SetConfiguration", "Unconfigure"} => hostAddr = 1

SetupPacket(r) ==
    /\ Answers
    /\ InOrder(r.kind)
    /\ setup' = TRUE /\ out' = FALSE /\ free' = TRUE /\ len' = 0 /\ stall' = FALSE
    /\ stage' = FirstStage(r.kind) /\ hreq' = r /\ hlen' = 0
    /\ Activity
    /\ UNCHANGED <<state, IE, enabled, eps, prog, bus, hostAddr, hostCfg>>

HostSetup(r) ==
    /\ stage = "idle"
    /\ SetupPacket(r)
    /\ torn' = (torn \/ pc # "task")
    /\ UNCHANGED faults

\* The host breaks its transfer off and begins another.
HostAborts(r) ==
    /\ stage # "idle"
    /\ Count
    /\ SetupPacket(r)
    /\ torn' = (torn \/ pc # "task" \/ ~setup)

NoTransfer == stage' = "idle" /\ hreq' = NoRequest /\ hlen' = 0

\* A SETUP that was not read yet stays in the bank.
BrokenOff ==
    /\ stage' = "idle" /\ hlen' = 0
    /\ hreq' = IF setup THEN hreq ELSE NoRequest

Done ==
    /\ NoTransfer
    /\ hostAddr' = IF hreq.kind = "SetAddress" THEN 1 ELSE hostAddr
    /\ hostCfg' = CASE hreq.kind = "SetConfiguration" -> 1
                    [] hreq.kind = "Unconfigure" -> 0
                    [] OTHER -> hostCfg

Continue(s, n) ==
    stage' = s /\ hlen' = hlen + n /\ UNCHANGED <<hreq, hostAddr, hostCfg>>

HostIn ==
    /\ Answers /\ ~stall
    /\ stage \in {"data_in", "status_in"}
    /\ ~free /\ ~setup
    /\ free' = TRUE /\ len' = 0
    /\ IF stage = "status_in" THEN Done
       ELSE Continue(IF len < EpSize \/ hlen + len >= hreq.wLength
                     THEN "status_out" ELSE "data_in", len)
    /\ Activity
    /\ UNCHANGED <<setup, out, stall, state, IE, enabled, eps, prog, bus, faults,
                   torn>>

HostOut ==
    /\ Answers /\ ~stall
    /\ stage \in {"data_out", "status_out"}
    /\ ~out /\ ~setup
    /\ out' = TRUE
    /\ IF stage = "status_out" THEN Done /\ UNCHANGED len
       ELSE LET n == Lesser(EpSize, EncLen - hlen)
            IN  /\ len' = n
                /\ Continue(IF hlen + n = EncLen THEN "status_in" ELSE "data_out", n)
    /\ Activity
    /\ UNCHANGED <<setup, free, stall, state, IE, enabled, eps, prog, bus, faults,
                   torn>>

HostStalled ==
    /\ Answers /\ stall
    /\ stage # "idle"
    /\ NoTransfer
    /\ Activity
    /\ UNCHANGED <<hostAddr, hostCfg, bus, faults, torn, ep0, state, IE, enabled, eps, prog>>

ResetEffect ==
    /\ bus' = "up"
    /\ pending' = (pending \ {"SUSPI"}) \cup {"WAKEUPI", "EORSTI"}
    /\ ADDEN' = 0
    /\ epType' = [e \in 0 .. 3 |-> IF e = 0 THEN epType[0] ELSE "off"]
    /\ setup' = FALSE /\ out' = FALSE /\ free' = TRUE /\ len' = 0 /\ stall' = FALSE
    /\ NoTransfer /\ hostAddr' = 0 /\ hostCfg' = 0
    /\ torn' = (pc # "task")
    /\ UNCHANGED <<DeviceState, ConfigurationNumber, IE, enabled, UENUM, prog>>

\* The reset that begins an enumeration, and one between or inside transfers
HostReset ==
    /\ \/ bus = "attached" /\ UNCHANGED faults
       \/ bus = "up" /\ Count
    /\ ResetEffect

\* The program waits for the host: it is between two requests, or a handler
\* or a control stream waits for a packet.
Waits ==
    \/ Runs("task") /\ ~setup
    \/ (Runs("status_in") \/ Runs("address") \/ Runs("read_status")) /\ ~free
    \/ (Runs("status_out") \/ Runs("write_status")) /\ ~out
    \/ Runs("write_fill") /\ ~free /\ ~out /\ ~setup
    \/ Runs("read") /\ left > 0 /\ ~out /\ ~setup

\* Frames, which set WAKEUPI, and then three milliseconds of silence, in
\* which the program does all it can do without the host.  A transfer that
\* was begun is broken off.
HostSuspends ==
    /\ bus = "up" /\ Waits
    /\ Count
    /\ bus' = "suspended"
    /\ pending' = pending \cup {"WAKEUPI", "SUSPI"}
    /\ BrokenOff
    /\ torn' = (torn \/ pc # "task" \/ stage # "idle")
    /\ UNCHANGED <<hostAddr, hostCfg, state, IE, enabled, eps, ep0, prog>>

HostResumes ==
    /\ bus = "suspended"
    /\ bus' = "up"
    /\ Activity
    /\ UNCHANGED <<stage, hreq, hlen, hostAddr, hostCfg, faults, torn, state, IE,
                   enabled, eps, ep0, prog>>

Unplug ==
    /\ vbus
    /\ Count
    /\ bus' = "off"
    /\ pending' = pending \cup {"VBUSTI"}
    /\ BrokenOff /\ hostAddr' = 0 /\ hostCfg' = 0
    /\ torn' = (torn \/ pc # "task")
    /\ UNCHANGED <<state, IE, enabled, eps, ep0, prog>>

Plug ==
    /\ bus = "off"
    /\ bus' = "attached"
    /\ pending' = pending \cup {"VBUSTI"}
    /\ UNCHANGED <<stage, hreq, hlen, hostAddr, hostCfg, faults, torn, state, IE,
                   enabled, eps, ep0, prog>>

-----------------------------------------------------------------------------
(* The specification *)

Interrupt == VBusChange \/ Suspend \/ WakeUp \/ EndOfReset

Main ==
    \/ USBTask \/ SetAddress \/ SetConfiguration \/ ClearSetFeature
    \/ SetControlLineState \/ GetConfiguration \/ GetStatus \/ GetDescriptor
    \/ GetLineEncoding \/ SetLineEncoding \/ NoHandler \/ Final
    \/ StatusIn \/ StatusInDetached \/ StatusOut \/ StatusOutDetached
    \/ SetDeviceAddress \/ SetConfigured \/ SelectEndpoint \/ ConfigureEndpoint
    \/ WriteCheck \/ WriteFill \/ WriteStatus \/ WriteEnd
    \/ ReadCheck \/ ReadBytes \/ ReadStatus \/ ReadEnd

Host ==
    \/ \E r \in Request : HostSetup(r) \/ HostAborts(r)
    \/ HostIn \/ HostOut \/ HostStalled \/ HostReset
    \/ HostSuspends \/ HostResumes \/ Unplug \/ Plug

Next == Interrupt \/ Main \/ Host

Spec == Init /\ [][Next]_vars

Asks(k) == \E r \in Request : r.kind = k /\ HostSetup(r)

(* The processor runs.  The host goes on with a transfer it has begun,     *)
(* resets and resumes a device it wants to use, and among its requests is  *)
(* again and again the one that enumeration needs next.                    *)
FairSpec ==
    /\ Spec
    /\ WF_vars(Interrupt) /\ WF_vars(Main)
    /\ WF_vars(HostIn) /\ WF_vars(HostOut) /\ WF_vars(HostStalled)
    /\ WF_vars(bus = "attached" /\ HostReset) /\ WF_vars(HostResumes)
    /\ WF_vars(Plug)
    /\ SF_vars(Asks("SetAddress")) /\ SF_vars(Asks("SetConfiguration"))

-----------------------------------------------------------------------------
(* Properties *)

TypeOK ==
    /\ DeviceState \in States /\ ConfigurationNumber \in 0 .. 1 /\ ADDEN \in 0 .. 1
    /\ pending \subseteq {Order[i] : i \in 1 .. 4}
    /\ enabled \subseteq {"SUSPI", "WAKEUPI"}
    /\ UENUM \in 0 .. 3 /\ epType \in [0 .. 3 -> {"off", "control", "data"}]
    /\ len \in 0 .. EpSize /\ left \in Nat
    /\ pc \in PC /\ stage \in Stages /\ bus \in Buses
    /\ hlen \in Nat /\ hostAddr \in 0 .. 1 /\ hostCfg \in 0 .. 1
    /\ faults \in 0 .. MaxFaults
    /\ {req, hreq} \subseteq Request \cup {NoRequest}
    /\ {IE, setup, out, free, stall, full, torn} \subseteq BOOLEAN

(* Device and host agree on the address and on the configuration whenever  *)
(* the host has no transfer open, the library is done with the last one,   *)
(* and none was cut off inside its handler since the last reset: the       *)
(* address is set after the status stage and before the next request, and  *)
(* a configured device has all its endpoints.                              *)
HostAndDeviceAgree ==
    bus = "up" /\ stage = "idle" /\ Settled /\ ~setup /\ ~torn =>
        /\ ADDEN = hostAddr
        /\ ConfigurationNumber = hostCfg
        /\ hostCfg = 1 => DeviceState = "Configured"
                          /\ \A e \in 1 .. 3 : epType[e] = "data"

(* The library notices every suspend and every wake-up: it always listens  *)
(* for the next of the two, whatever resets came between and whichever     *)
(* request was cut off by them.                                            *)
SuspendIsNoticed ==
    Settled /\ bus \in {"up", "suspended"}
        => (DeviceState = "Suspended" <=> bus = "suspended")

(* A host that persists configures the device again and again, whatever   *)
(* was aborted, reset, suspended or unplugged before: only a request that  *)
(* was cut off in its handler may keep it from doing so, until a reset.    *)
Enumerates == <>[]~torn => []<>(hostCfg = 1 /\ DeviceState = "Configured")

(* The answer to a GetDescriptor or a GetLineEncoding that is not cut off  *)
(* is as long as the device has it or as the host asked for it.            *)
WholeAnswer ==
    stage = "status_out" /\ hreq.kind \in StreamIn /\ ~torn =>
        hlen = Lesser(IF hreq.kind = "GetDescriptor" THEN DescLen ELSE EncLen,
                      hreq.wLength)
=============================================================================
