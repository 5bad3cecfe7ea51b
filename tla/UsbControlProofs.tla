-------------------------- MODULE UsbControlProofs --------------------------
(***************************************************************************)
(* For every endpoint size, descriptor length and set of requested lengths:*)
(* the library and the host agree on address and configuration, no suspend *)
(* goes unnoticed, and an answer that is not cut off is whole.             *)
(***************************************************************************)
EXTENDS UsbControl, TLAPS

(* A leaf that names no prover is given to SMT, with a minute to answer.   *)
USE SMTT(60)

(* The types of the variables that are not flags.  The loop of             *)
(* EVENT_USB_Device_ConfigurationChanged counts from 1 to 3, and a host in *)
(* the data stage of SetLineEncoding has bytes left to send.               *)
Shape ==
    /\ DeviceState \in States /\ ConfigurationNumber \in 0 .. 1 /\ ADDEN \in 0 .. 1
    /\ pending \subseteq {"VBUSTI", "SUSPI", "WAKEUPI", "EORSTI"}
    /\ UENUM \in 0 .. 3 /\ epType \in [0 .. 3 -> {"off", "control", "data"}]
    /\ len \in 0 .. EpSize /\ left \in Nat
    /\ pc \in PC /\ stage \in Stages /\ bus \in Buses
    /\ hlen \in Nat /\ hostAddr \in 0 .. 1 /\ hostCfg \in 0 .. 1
    /\ faults \in 0 .. MaxFaults
    /\ pc \in {"select", "enable"} => left \in 1 .. 3
    /\ stage = "data_out" => hlen < EncLen

Requests == req \in Request \cup {NoRequest} /\ hreq \in Request \cup {NoRequest}

Flags ==
    /\ IE \in BOOLEAN /\ setup \in BOOLEAN /\ out \in BOOLEAN /\ free \in BOOLEAN
    /\ stall \in BOOLEAN /\ full \in BOOLEAN /\ torn \in BOOLEAN

(* The interrupt and the bus: the library listens for exactly one of       *)
(* suspend and wake-up, an event it has not seen yet is pending, a device  *)
(* that is suspended waits for the host or returns from a control stream,  *)
(* and interrupts are off only in SetAddress.                              *)
BusInv ==
    /\ DeviceState = "Unattached" /\ vbus => "VBUSTI" \in pending
    /\ enabled \in {{"SUSPI"}, {"WAKEUPI"}}
    /\ DeviceState = "Suspended" => enabled = {"WAKEUPI"}
    /\ DeviceState = "Suspended" /\ bus = "up" => "WAKEUPI" \in pending
    /\ "SUSPI" \in pending => bus # "up"
    /\ bus \in {"up", "suspended"} /\ "VBUSTI" \in pending => "EORSTI" \in pending
    /\ bus = "suspended" =>
         /\ stage = "idle" /\ "SUSPI" \in pending
         /\ IE => "EORSTI" \notin pending
         /\ "WAKEUPI" \in pending \/ enabled = {"SUSPI"} \/ DeviceState = "Suspended"
         /\ pc \notin {"dispatch", "configure", "select", "enable"}
         /\ pc \in {"status_in", "address"} => ~free
         /\ pc = "task" => ~setup
         /\ pc # "task" => torn
    /\ bus = "suspended" \/ pc \notin {"select", "enable", "final"} => UENUM = 0
    /\ bus = "up" /\ stage = "idle" /\ ~torn => ~setup
    /\ stall => ~setup
    /\ ~IE => pc \in {"status_in", "address"} /\ req.kind = "SetAddress"
    /\ stage # "idle" => bus = "up" /\ InOrder(hreq.kind)
    /\ hostCfg = 1 => hostAddr = 1

(* The device is in use, and no request was cut off in its handler since   *)
(* the last reset.                                                         *)
InUse == ~torn /\ bus \in {"up", "suspended"}

(* The configuration the device has when the transfer of the host is over. *)
NextCfg ==
    IF stage = "idle" THEN hostCfg
    ELSE IF hreq.kind = "SetConfiguration" THEN 1
    ELSE IF hreq.kind = "Unconfigure" THEN 0 ELSE hostCfg

(* Where the handler is, and where the host is in the same transfer: a     *)
(* SETUP is read before anything else happens to it; until the end of a    *)
(* reset was handled, the host has at most sent a SETUP; the configuration *)
(* number is ahead of the host from the handler to the status stage, the   *)
(* address behind it from the status stage to the end of the handler.      *)
Transfer ==
    /\ "EORSTI" \in pending => pc = "task" /\ hostCfg = 0 /\ (stage # "idle" => setup)
    /\ setup =>
         /\ pc \in {"task", "dispatch"} \/ (pc = "final" /\ hreq.kind = "Unknown")
         /\ stage = FirstStage(hreq.kind)
         /\ hlen = 0 /\ free /\ len = 0 /\ ~out
    /\ pc = "dispatch" => setup /\ req = hreq
    /\ stall /\ stage # "idle" => hreq.kind = "Unknown"
    /\ "EORSTI" \notin pending
         => ConfigurationNumber = IF setup THEN hostCfg ELSE NextCfg
    /\ pc = "status_in" =>
         req = hreq /\ req.kind \in NoData /\ stage = "status_in" /\ free /\ ~setup
    /\ pc = "address" =>
         /\ hostCfg = 0
         /\ IF stage = "idle" THEN hostAddr = 1
            ELSE hreq.kind = "SetAddress" /\ stage = "status_in" /\ ~free
    /\ ~(pc = "address" /\ stage = "idle") => ADDEN = hostAddr
    /\ stage # "idle" /\ ~setup /\ pc \notin {"status_in", "address"}
         => hreq.kind # "SetAddress"

TransferInv == InUse => Transfer

(* How long the answer to the request of the host is to be.                *)
Total ==
    Lesser(IF hreq.kind = "GetDescriptor" THEN DescLen ELSE EncLen, hreq.wLength)

(* What the host has, what is in the bank and what is left to send make up *)
(* the answer, and only the last packet is short.                          *)
Stream ==
    IF stage = "status_out" THEN hlen = Total
    ELSE /\ pc \in {"write_check", "write_fill", "write_status"} /\ ~out
         /\ hlen + (IF free THEN 0 ELSE len) + left = Total
         /\ IF free THEN len = 0 ELSE len = EpSize \/ left = 0

StreamInv ==
    InUse /\ ~setup /\ stage \in {"data_in", "status_out"} /\ hreq.kind \in StreamIn
        => Stream

(* A configured device has its endpoints, but for the handler that is      *)
(* about to configure them.                                                *)
Ready ==
    /\ pc \in {"select", "enable"} =>
         /\ \A e \in 1 .. left - 1 : epType[e] = "data"
         /\ ConfigurationNumber = 1 => DeviceState = "Configured"
    /\ pc = "enable" => UENUM = left
    /\ ConfigurationNumber = 1 /\ "EORSTI" \notin pending =>
         \/ /\ pc \in {"status_in", "configure", "select", "enable"}
            /\ req.kind = "SetConfiguration"
         \/ /\ DeviceState \in {"Configured", "Suspended"}
            /\ \A e \in 1 .. 3 : epType[e] = "data"

ReadyInv == InUse => Ready

Inv == Shape /\ Requests /\ Flags /\ BusInv /\ TransferInv /\ StreamInv /\ ReadyInv

-----------------------------------------------------------------------------

(* The host asks for a number of bytes.                                    *)
LEMMA LengthType == Requests => req.wLength \in Nat /\ hreq.wLength \in Nat
<1>1. \A r \in Request : r.wLength \in Nat
  <2> SUFFICES ASSUME NEW r \in Request PROVE r.wLength \in Nat
    OBVIOUS
  <2>1. CASE r \in [kind : Kinds \cap StreamIn, wLength : WLengths]
    BY <2>1, SizeAssumption, ZenonT(60)
  <2>2. CASE r \in [kind : Kinds \ StreamIn, wLength : {0}]
    BY <2>2
  <2> QED
    BY <2>1, <2>2 DEF Request
<1>2. NoRequest.wLength \in Nat
  BY DEF NoRequest
<1> QED
  BY <1>1, <1>2, ZenonT(60) DEF Requests

(* Every step keeps the types of the variables.                            *)
LEMMA ShapeStep == Shape /\ Requests /\ [Next]_vars => Shape'
<1> SUFFICES ASSUME Shape, Requests, [Next]_vars PROVE Shape'
  OBVIOUS
<1> USE SizeAssumption DEF state, ints, eps, ep0, prog, host, Shape, PC,
      States, Stages, Buses
<1>1. CASE VBusChange
  BY <1>1 DEF VBusChange
<1>2. CASE Suspend
  BY <1>2 DEF Suspend
<1>3. CASE WakeUp
  BY <1>3 DEF WakeUp, ActiveState
<1>4. CASE EndOfReset
  BY <1>4 DEF EndOfReset
<1>5. CASE USBTask
  BY <1>5 DEF USBTask
<1>6. CASE SetAddress
  BY <1>6 DEF SetAddress, Goto, ClearSETUP
<1>7. CASE SetConfiguration
  BY <1>7 DEF SetConfiguration, Goto, ClearSETUP
<1>8. CASE ClearSetFeature
  BY <1>8 DEF ClearSetFeature, Goto, ClearSETUP
<1>9. CASE SetControlLineState
  BY <1>9 DEF SetControlLineState, Goto, ClearSETUP
<1>10. CASE GetConfiguration
  BY <1>10 DEF GetConfiguration, Answer, Goto
<1>11. CASE GetStatus
  BY <1>11 DEF GetStatus, Answer, Goto
<1>12. CASE GetDescriptor
  BY <1>12, LengthType DEF GetDescriptor, WriteStream, ClearSETUP
<1>13. CASE GetLineEncoding
  BY <1>13, LengthType DEF GetLineEncoding, WriteStream, ClearSETUP
<1>14. CASE SetLineEncoding
  BY <1>14 DEF SetLineEncoding, ClearSETUP
<1>15. CASE NoHandler
  BY <1>15 DEF NoHandler, Goto
<1>16. CASE Final
  BY <1>16 DEF Final
<1>17. CASE StatusIn
  BY <1>17 DEF StatusIn, Goto, AfterStatus
<1>18. CASE StatusInDetached
  BY <1>18 DEF StatusInDetached, Goto, AfterStatus
<1>19. CASE StatusOut
  BY <1>19 DEF StatusOut, Goto
<1>20. CASE StatusOutDetached
  BY <1>20 DEF StatusOutDetached, Goto
<1>21. CASE SetDeviceAddress
  BY <1>21 DEF SetDeviceAddress, Goto
<1>22. CASE SetConfigured
  BY <1>22 DEF SetConfigured, ActiveState
<1>23. CASE SelectEndpoint
  BY <1>23 DEF SelectEndpoint, Goto, Runs
<1>24. CASE ConfigureEndpoint
  BY <1>24 DEF ConfigureEndpoint, Runs
<1>25. CASE WriteCheck
  BY <1>25 DEF WriteCheck, Goto
<1>26. CASE WriteFill
  BY <1>26 DEF WriteFill, Lesser
<1>27. CASE WriteStatus
  BY <1>27 DEF WriteStatus, Goto
<1>28. CASE WriteEnd
  BY <1>28 DEF WriteEnd, Goto
<1>29. CASE ReadCheck
  BY <1>29 DEF ReadCheck, Goto
<1>30. CASE ReadBytes
  BY <1>30 DEF ReadBytes, Runs, Lesser
<1>31. CASE ReadStatus
  BY <1>31 DEF ReadStatus, Goto
<1>32. CASE ReadEnd
  BY <1>32 DEF ReadEnd, Goto
<1>33. ASSUME NEW r \in Request, HostSetup(r) PROVE Shape'
  BY <1>33 DEF HostSetup, SetupPacket, Activity, FirstStage
<1>34. ASSUME NEW r \in Request, HostAborts(r) PROVE Shape'
  BY <1>34 DEF HostAborts, Count, SetupPacket, Activity, FirstStage
<1>35. CASE HostIn
  BY <1>35 DEF HostIn, Activity, Done, Continue, NoTransfer
<1>36. CASE HostOut
  BY <1>36 DEF HostOut, Lesser, Activity, Done, Continue, NoTransfer
<1>37. CASE HostStalled
  BY <1>37 DEF HostStalled, Activity, NoTransfer
<1>38. CASE HostReset
  BY <1>38 DEF HostReset, Count, ResetEffect, NoTransfer
<1>39. CASE HostSuspends
  BY <1>39 DEF HostSuspends, BrokenOff, Count
<1>40. CASE HostResumes
  BY <1>40 DEF HostResumes, Activity
<1>41. CASE Unplug
  BY <1>41 DEF Unplug, BrokenOff, Count
<1>42. CASE Plug
  BY <1>42 DEF Plug
<1>43. CASE UNCHANGED vars
  BY <1>43 DEF vars
<1> QED
  BY ZenonT(60), <1>1, <1>2, <1>3, <1>4, <1>5, <1>6, <1>7, <1>8, <1>9, <1>10,
     <1>11, <1>12, <1>13, <1>14, <1>15, <1>16, <1>17, <1>18, <1>19, <1>20,
     <1>21, <1>22, <1>23, <1>24, <1>25, <1>26, <1>27, <1>28, <1>29, <1>30,
     <1>31, <1>32, <1>33, <1>34, <1>35, <1>36, <1>37, <1>38, <1>39, <1>40,
     <1>41, <1>42, <1>43
  DEF Next, Interrupt, Main, Host

(* A request is one of the host's, or none.                                *)
LEMMA RequestStep == Requests /\ [Next]_vars => Requests'
<1> SUFFICES ASSUME Requests, [Next]_vars PROVE Requests'
  OBVIOUS
<1> USE DEF Requests, prog, host
<1>1. CASE Interrupt
  BY <1>1, ZenonT(60) DEF Interrupt, VBusChange, Suspend, WakeUp, EndOfReset
<1>2. CASE USBTask
  BY <1>2, ZenonT(60) DEF USBTask
<1>3. CASE \/ SetAddress \/ SetConfiguration \/ ClearSetFeature
           \/ SetControlLineState \/ GetConfiguration \/ GetStatus \/ GetDescriptor
           \/ GetLineEncoding \/ SetLineEncoding \/ NoHandler \/ Final
  BY <1>3, ZenonT(60)
  DEF SetAddress, SetConfiguration, ClearSetFeature, SetControlLineState,
      GetConfiguration, GetStatus, Answer, GetDescriptor, GetLineEncoding,
      WriteStream, SetLineEncoding, NoHandler, Final, Goto
<1>4. CASE \/ StatusIn \/ StatusInDetached \/ StatusOut \/ StatusOutDetached
           \/ SetDeviceAddress \/ SetConfigured \/ SelectEndpoint \/ ConfigureEndpoint
  BY <1>4, ZenonT(60)
  DEF StatusIn, StatusInDetached, StatusOut, StatusOutDetached, SetDeviceAddress,
      SetConfigured, SelectEndpoint, ConfigureEndpoint, Goto
<1>5. CASE \/ WriteCheck \/ WriteFill \/ WriteStatus \/ WriteEnd
           \/ ReadCheck \/ ReadBytes \/ ReadStatus \/ ReadEnd
  BY <1>5, ZenonT(60)
  DEF WriteCheck, WriteFill, WriteStatus, WriteEnd, ReadCheck, ReadBytes,
      ReadStatus, ReadEnd, Goto
<1>6. ASSUME NEW r \in Request, HostSetup(r) \/ HostAborts(r) PROVE Requests'
  BY <1>6, ZenonT(60) DEF HostSetup, HostAborts, SetupPacket
<1>7. CASE HostIn \/ HostOut \/ HostStalled
  BY <1>7, ZenonT(60)
  DEF HostIn, HostOut, HostStalled, Done, Continue, NoTransfer
<1>8. CASE HostReset \/ HostSuspends \/ HostResumes \/ Unplug \/ Plug
  BY <1>8, ZenonT(60)
  DEF HostReset, ResetEffect, NoTransfer, BrokenOff, HostSuspends, HostResumes,
      Unplug, Plug
<1>9. CASE UNCHANGED vars
  BY <1>9, ZenonT(60) DEF vars
<1> QED
  BY <1>1, <1>2, <1>3, <1>4, <1>5, <1>6, <1>7, <1>8, <1>9, ZenonT(60)
  DEF Next, Main, Host

(* The flags are Boolean.                                                  *)
LEMMA FlagStep == Flags /\ [Next]_vars => Flags'
<1> SUFFICES ASSUME Flags, [Next]_vars PROVE Flags'
  OBVIOUS
<1> USE DEF Flags, ints, ep0, prog, host
<1>1. CASE Interrupt
  BY <1>1 DEF Interrupt, VBusChange, Suspend, WakeUp, EndOfReset
<1>2. CASE \/ USBTask \/ SetAddress \/ SetConfiguration \/ ClearSetFeature
           \/ SetControlLineState \/ NoHandler
  BY <1>2, ZenonT(60)
  DEF USBTask, SetAddress, SetConfiguration, ClearSetFeature, SetControlLineState,
      NoHandler, ClearSETUP, Goto
<1>3. CASE GetConfiguration \/ GetStatus
  BY <1>3, ZenonT(60) DEF GetConfiguration, GetStatus, Answer, Goto
<1>4. CASE GetDescriptor \/ GetLineEncoding \/ SetLineEncoding
  BY <1>4, ZenonT(60) DEF GetDescriptor, GetLineEncoding, WriteStream,
     SetLineEncoding, ClearSETUP
<1>5. CASE Final
  BY <1>5, ZenonT(60) DEF Final
<1>6. CASE \/ StatusIn \/ StatusInDetached \/ StatusOut \/ StatusOutDetached
           \/ SetDeviceAddress \/ SetConfigured \/ SelectEndpoint \/ ConfigureEndpoint
  BY <1>6, ZenonT(60)
  DEF StatusIn, StatusInDetached, StatusOut, StatusOutDetached, SetDeviceAddress,
      SetConfigured, SelectEndpoint, ConfigureEndpoint, Goto
<1>7. CASE WriteFill
  BY <1>7, ZenonT(60) DEF WriteFill
<1>8. CASE \/ WriteCheck \/ WriteStatus \/ WriteEnd
           \/ ReadCheck \/ ReadBytes \/ ReadStatus \/ ReadEnd
  BY <1>8, ZenonT(60)
  DEF WriteCheck, WriteStatus, WriteEnd, ReadCheck, ReadBytes, ReadStatus, ReadEnd,
      Goto
<1>9. ASSUME NEW r \in Request, HostSetup(r) \/ HostAborts(r) PROVE Flags'
  BY <1>9, ZenonT(60) DEF HostSetup, HostAborts, SetupPacket
<1>10. CASE HostIn \/ HostOut \/ HostStalled
  BY <1>10, ZenonT(60) DEF HostIn, HostOut, HostStalled
<1>11. CASE HostReset \/ HostSuspends \/ HostResumes \/ Unplug \/ Plug
  BY <1>11, ZenonT(60) DEF HostReset, ResetEffect, HostSuspends, HostResumes,
     Unplug, Plug
<1>12. CASE UNCHANGED vars
  BY <1>12 DEF vars
<1> QED
  BY <1>1, <1>2, <1>3, <1>4, <1>5, <1>6, <1>7, <1>8, <1>9, <1>10, <1>11, <1>12,
     ZenonT(60)
  DEF Next, Main, Host

(* A suspend in a handler, or in a transfer, is remembered; the program    *)
(* then waits where only the host can free it.                             *)
LEMMA SuspendFacts ==
  ASSUME HostSuspends
  PROVE  /\ pc # "task" \/ stage # "idle" \/ torn <=> torn'
         /\ pc \notin {"dispatch", "configure", "select", "enable", "final"}
         /\ pc \in {"status_in", "address"} => ~free
         /\ pc = "task" => ~setup
         /\ IE => Live = {}
<1>1. pc # "task" \/ stage # "idle" \/ torn <=> torn'
  BY ZenonT(60) DEF HostSuspends
<1>2. Waits
  BY ZenonT(60) DEF HostSuspends
<1> QED
  BY <1>1, <1>2 DEF Waits, Runs

(* Every step keeps what the interrupt, the bus and the host's transfer    *)
(* promise each other.                                                     *)
LEMMA BusStep == BusInv /\ [Next]_vars => BusInv'
<1> SUFFICES ASSUME BusInv, [Next]_vars PROVE BusInv'
  OBVIOUS
<1> USE DEF state, ints, eps, ep0, prog, host, BusInv, vbus, InOrder
<1>1. CASE VBusChange
  BY <1>1 DEF VBusChange, Taken, Live
<1>2. CASE Suspend
  BY <1>2 DEF Suspend, Taken, Live, Order
<1>3. CASE WakeUp
  BY <1>3 DEF WakeUp, ActiveState
<1>4. CASE EndOfReset
  BY <1>4 DEF EndOfReset, Taken, Live, Order
<1>5. CASE USBTask
  BY <1>5 DEF USBTask, Runs
<1>6. CASE SetAddress
  BY <1>6 DEF SetAddress, Goto, Handles, ClearSETUP, Runs
<1>7. CASE SetConfiguration
  BY <1>7 DEF SetConfiguration, Handles, ClearSETUP, Runs
<1>8. CASE ClearSetFeature
  BY <1>8 DEF ClearSetFeature, Handles, ClearSETUP, Runs
<1>9. CASE SetControlLineState
  BY <1>9 DEF SetControlLineState, Handles, ClearSETUP, Runs
<1>10. CASE GetConfiguration
  BY <1>10 DEF GetConfiguration, Handles, Answer, Runs
<1>11. CASE GetStatus
  BY <1>11 DEF GetStatus, Handles, Answer, Runs
<1>12. CASE GetDescriptor
  BY <1>12 DEF GetDescriptor, Handles, WriteStream, Runs, ClearSETUP
<1>13. CASE GetLineEncoding
  BY <1>13 DEF GetLineEncoding, Handles, WriteStream, Runs, ClearSETUP
<1>14. CASE SetLineEncoding
  BY <1>14 DEF SetLineEncoding, Handles, ClearSETUP, Runs
<1>15. CASE NoHandler
  BY <1>15 DEF NoHandler, Handles, Runs
<1>16. CASE Final
  BY <1>16, ZenonT(60) DEF Final, Runs, Live
<1>17. CASE StatusIn
  BY <1>17 DEF StatusIn, Goto, Runs, AfterStatus
<1>18. CASE StatusInDetached
  BY <1>18 DEF StatusInDetached, Detached, Live, Goto, Runs, AfterStatus
<1>19. CASE StatusOut
  BY <1>19 DEF StatusOut, Goto, Runs
<1>20. CASE StatusOutDetached
  BY <1>20 DEF StatusOutDetached, Goto, Runs
<1>21. CASE SetDeviceAddress
  BY <1>21 DEF SetDeviceAddress, Runs
<1>22. CASE SetConfigured
  BY <1>22 DEF SetConfigured, Runs, ActiveState
<1>23. CASE SelectEndpoint
  BY <1>23 DEF SelectEndpoint, Goto, Runs
<1>24. CASE ConfigureEndpoint
  BY <1>24 DEF ConfigureEndpoint, Runs
<1>25. CASE WriteCheck
  BY <1>25 DEF WriteCheck, Goto, Runs
<1>26. CASE WriteFill
  BY <1>26 DEF WriteFill, Runs
<1>27. CASE WriteStatus
  BY <1>27 DEF WriteStatus, Goto, Runs
<1>28. CASE WriteEnd
  BY <1>28 DEF WriteEnd, Goto, Runs
<1>29. CASE ReadCheck
  BY <1>29 DEF ReadCheck, Goto, Runs
<1>30. CASE ReadBytes
  BY <1>30 DEF ReadBytes
<1>31. CASE ReadStatus
  BY <1>31 DEF ReadStatus, Goto, Runs
<1>32. CASE ReadEnd
  BY <1>32 DEF ReadEnd, Goto, Runs
<1>33. ASSUME NEW r \in Request, HostSetup(r) PROVE BusInv'
  BY <1>33 DEF HostSetup, SetupPacket, Answers, Activity, FirstStage
<1>34. ASSUME NEW r \in Request, HostAborts(r) PROVE BusInv'
  BY <1>34 DEF HostAborts, SetupPacket, Activity, FirstStage
<1>35. CASE HostIn
  BY <1>35 DEF HostIn, Activity, Done, Continue, NoTransfer
<1>36. CASE HostOut
  BY <1>36 DEF HostOut, Activity, Done, Continue, NoTransfer
<1>37. CASE HostStalled
  BY <1>37 DEF HostStalled, Activity, NoTransfer
<1>38. CASE HostReset
  BY <1>38 DEF HostReset, ResetEffect, NoTransfer
<1>39. CASE HostSuspends
  BY <1>39, SuspendFacts DEF HostSuspends, BrokenOff, Live
<1>40. CASE HostResumes
  BY <1>40 DEF HostResumes, Activity
<1>41. CASE Unplug
  BY <1>41 DEF Unplug, BrokenOff
<1>42. CASE Plug
  BY <1>42 DEF Plug
<1>43. CASE UNCHANGED vars
  BY <1>43 DEF vars
<1> QED
  BY ZenonT(60), <1>1, <1>2, <1>3, <1>4, <1>5, <1>6, <1>7, <1>8, <1>9, <1>10,
     <1>11, <1>12, <1>13, <1>14, <1>15, <1>16, <1>17, <1>18, <1>19, <1>20,
     <1>21, <1>22, <1>23, <1>24, <1>25, <1>26, <1>27, <1>28, <1>29, <1>30,
     <1>31, <1>32, <1>33, <1>34, <1>35, <1>36, <1>37, <1>38, <1>39, <1>40,
     <1>41, <1>42, <1>43
  DEF Next, Interrupt, Main, Host

(* Every step keeps handler and host in the same transfer.                 *)
LEMMA TransferStep == Shape /\ BusInv /\ TransferInv /\ [Next]_vars => TransferInv'
<1> SUFFICES ASSUME Shape, BusInv, TransferInv, [Next]_vars PROVE TransferInv'
  OBVIOUS
<1> USE DEF TransferInv, InUse, NextCfg, Transfer, state, host
<1>1. CASE VBusChange
  BY <1>1 DEF VBusChange, ep0, prog
<1>2. CASE Suspend
  BY <1>2 DEF Suspend, ep0, prog
<1>3. CASE WakeUp
  BY <1>3 DEF WakeUp, ep0, prog
<1>4. CASE EndOfReset
  BY <1>4 DEF EndOfReset, Taken, Live, Order, ep0, prog
<1>5. CASE USBTask
  BY <1>5 DEF USBTask, Runs, Live, BusInv, ints, ep0
<1>6. CASE SetAddress
  BY <1>6 DEF SetAddress, Goto, Handles, ClearSETUP, Runs, FirstStage, NoData
<1>7. CASE SetConfiguration
  BY <1>7 DEF SetConfiguration, Goto, Handles, ClearSETUP, Runs, FirstStage,
     NoData, ints
<1>8. CASE ClearSetFeature
  BY <1>8 DEF ClearSetFeature, Goto, Handles, ClearSETUP, Runs, FirstStage,
     NoData, ints
<1>9. CASE SetControlLineState
  BY <1>9 DEF SetControlLineState, Goto, Handles, ClearSETUP, Runs,
     FirstStage, NoData, ints
<1>10. CASE GetConfiguration
  BY <1>10 DEF GetConfiguration, Handles, Answer, Runs, Goto, ints
<1>11. CASE GetStatus
  BY <1>11 DEF GetStatus, Handles, Answer, Runs, Goto, ints
<1>12. CASE GetDescriptor
  BY <1>12 DEF GetDescriptor, Handles, WriteStream, Runs, ClearSETUP, ints
<1>13. CASE GetLineEncoding
  BY <1>13 DEF GetLineEncoding, Handles, WriteStream, Runs, ClearSETUP, ints
<1>14. CASE SetLineEncoding
  BY <1>14 DEF SetLineEncoding, Handles, ClearSETUP, Runs, ints
<1>15. CASE NoHandler
  BY <1>15 DEF NoHandler, Goto, Handles, Runs, ints, ep0
<1>16. CASE Final
  BY <1>16, ZenonT(60) DEF Final, Runs, Live, ints
<1>17. CASE StatusIn
  BY <1>17 DEF StatusIn, Goto, Runs, AfterStatus, Shape, BusInv, InOrder, ints
<1>18. CASE StatusInDetached
  BY <1>18 DEF StatusInDetached, Runs
<1>19. CASE StatusOut
  BY <1>19 DEF StatusOut, Goto, Runs, ints
<1>20. CASE StatusOutDetached
  BY <1>20 DEF StatusOutDetached, Goto, Runs, ints, ep0
<1>21. CASE SetDeviceAddress
  BY <1>21 DEF SetDeviceAddress, Goto, Runs, ep0
<1>22. CASE SetConfigured
  BY <1>22 DEF SetConfigured, Runs, ints, ep0
<1>23. CASE SelectEndpoint
  BY <1>23 DEF SelectEndpoint, Goto, Runs, ints, ep0
<1>24. CASE ConfigureEndpoint
  BY <1>24 DEF ConfigureEndpoint, Runs, ints, ep0
<1>25. CASE WriteCheck
  BY <1>25 DEF WriteCheck, Goto, Runs, ints, ep0
<1>26. CASE WriteFill
  BY <1>26 DEF WriteFill, Runs, ints
<1>27. CASE WriteStatus
  BY <1>27 DEF WriteStatus, Goto, Runs, ints, ep0
<1>28. CASE WriteEnd
  BY <1>28 DEF WriteEnd, Goto, Runs, ints
<1>29. CASE ReadCheck
  BY <1>29 DEF ReadCheck, Goto, Runs, ints, ep0
<1>30. CASE ReadBytes
  BY <1>30 DEF ReadBytes, ints
<1>31. CASE ReadStatus
  BY <1>31 DEF ReadStatus, Goto, Runs, ints, ep0
<1>32. CASE ReadEnd
  BY <1>32 DEF ReadEnd, Goto, Runs, ints
<1>33. ASSUME NEW r \in Request, HostSetup(r) PROVE TransferInv'
  BY <1>33, ZenonT(60) DEF HostSetup, SetupPacket, Answers, Activity, prog
<1>34. ASSUME NEW r \in Request, HostAborts(r) PROVE TransferInv'
  BY <1>34, ZenonT(60) DEF HostAborts, Count, SetupPacket, Answers, Activity,
     prog
<1>35. CASE HostIn
  BY <1>35 DEF HostIn, Activity, Done, Continue, NoTransfer, prog
<1>36. CASE HostOut
  BY <1>36 DEF HostOut, Activity, Done, Continue, NoTransfer, prog
<1>37. CASE HostStalled
  BY <1>37 DEF HostStalled, Activity, NoTransfer, BusInv, NoData, ep0, prog
<1>38. CASE HostReset
  BY <1>38, ZenonT(60) DEF HostReset, Count, ResetEffect, NoTransfer,
     NoRequest, prog
<1>39. CASE HostSuspends
  BY <1>39, SuspendFacts DEF HostSuspends, BrokenOff, BusInv, ep0, prog
<1>40. CASE HostResumes
  BY <1>40 DEF HostResumes, Activity, ep0, prog
<1>41. CASE Unplug
  BY <1>41 DEF Unplug
<1>42. CASE Plug
  BY <1>42 DEF Plug
<1>43. CASE UNCHANGED vars
  BY <1>43 DEF vars, ints, ep0, prog
<1> QED
  BY ZenonT(60), <1>1, <1>2, <1>3, <1>4, <1>5, <1>6, <1>7, <1>8, <1>9, <1>10,
     <1>11, <1>12, <1>13, <1>14, <1>15, <1>16, <1>17, <1>18, <1>19, <1>20,
     <1>21, <1>22, <1>23, <1>24, <1>25, <1>26, <1>27, <1>28, <1>29, <1>30,
     <1>31, <1>32, <1>33, <1>34, <1>35, <1>36, <1>37, <1>38, <1>39, <1>40,
     <1>41, <1>42, <1>43 DEF Next, Interrupt, Main, Host

(* Every step keeps the account of the bytes of an answer.                 *)
LEMMA StreamStep ==
  Shape /\ Requests /\ BusInv /\ TransferInv /\ StreamInv /\ [Next]_vars => StreamInv'
<1> SUFFICES ASSUME Shape, Requests, BusInv, TransferInv, StreamInv, [Next]_vars
             PROVE  StreamInv'
  OBVIOUS
<1> USE DEF StreamInv, InUse, Stream, Total, Lesser, host
<1>1. CASE VBusChange
  BY <1>1 DEF VBusChange, ep0, prog
<1>2. CASE Suspend
  BY <1>2 DEF Suspend, ep0, prog
<1>3. CASE WakeUp
  BY <1>3 DEF WakeUp, ep0, prog
<1>4. CASE EndOfReset
  BY <1>4 DEF EndOfReset, ep0, prog
<1>5. CASE USBTask
  BY <1>5 DEF USBTask, ep0
<1>6. CASE SetAddress
  BY <1>6 DEF SetAddress, Handles, Runs, TransferInv, Transfer, StreamIn,
     ShortIn, NoData
<1>7. CASE SetConfiguration
  BY <1>7 DEF SetConfiguration, Handles, Runs, TransferInv, Transfer,
     StreamIn, ShortIn, NoData
<1>8. CASE ClearSetFeature
  BY <1>8 DEF ClearSetFeature, Handles, Runs, TransferInv, Transfer, StreamIn,
     ShortIn, NoData
<1>9. CASE SetControlLineState
  BY <1>9 DEF SetControlLineState, Handles, Runs, TransferInv, Transfer,
     StreamIn, ShortIn, NoData
<1>10. CASE GetConfiguration
  BY <1>10 DEF GetConfiguration, Handles, Answer, Runs, TransferInv, Transfer,
     StreamIn, ShortIn, NoData
<1>11. CASE GetStatus
  BY <1>11 DEF GetStatus, Handles, Answer, Runs, TransferInv, Transfer,
     StreamIn, ShortIn, NoData
<1>12. CASE GetDescriptor
  BY <1>12, SizeAssumption, LengthType, SMTT(60) DEF GetDescriptor, Handles,
     WriteStream, Runs, ClearSETUP, TransferInv, Transfer, FirstStage
<1>13. CASE GetLineEncoding
  BY <1>13, SizeAssumption, LengthType, SMTT(60) DEF GetLineEncoding, Handles,
     WriteStream, Runs, ClearSETUP, TransferInv, Transfer, FirstStage
<1>14. CASE SetLineEncoding
  BY <1>14 DEF SetLineEncoding, Handles, Runs, TransferInv, Transfer,
     StreamIn, ShortIn, NoData
<1>15. CASE NoHandler
  BY <1>15 DEF NoHandler, Handles, Runs, ep0
<1>16. CASE Final
  BY <1>16 DEF Final, Runs, TransferInv, Transfer, StreamIn, ShortIn, NoData
<1>17. CASE StatusIn
  BY <1>17 DEF StatusIn, Runs
<1>18. CASE StatusInDetached
  BY <1>18 DEF StatusInDetached, Runs, ep0
<1>19. CASE StatusOut
  BY <1>19 DEF StatusOut
<1>20. CASE StatusOutDetached
  BY <1>20 DEF StatusOutDetached, Runs, ep0
<1>21. CASE SetDeviceAddress
  BY <1>21 DEF SetDeviceAddress, Runs, ep0
<1>22. CASE SetConfigured
  BY <1>22 DEF SetConfigured, Runs, ep0
<1>23. CASE SelectEndpoint
  BY <1>23 DEF SelectEndpoint, Runs, ep0
<1>24. CASE ConfigureEndpoint
  BY <1>24 DEF ConfigureEndpoint, Runs, ep0
<1>25. CASE WriteCheck
  BY <1>25 DEF WriteCheck, Goto, Runs, Cut, Live, BusInv, vbus, ep0
<1>26. CASE WriteFill
  BY <1>26, SizeAssumption DEF WriteFill, Shape
<1>27. CASE WriteStatus
  BY <1>27 DEF WriteStatus, Runs, Cut, Live, BusInv, vbus, ep0
<1>28. CASE WriteEnd
  BY <1>28 DEF WriteEnd, Runs
<1>29. CASE ReadCheck
  BY <1>29 DEF ReadCheck, Runs, ep0
<1>30. CASE ReadBytes
  BY <1>30 DEF ReadBytes
<1>31. CASE ReadStatus
  BY <1>31 DEF ReadStatus, Runs, ep0
<1>32. CASE ReadEnd
  BY <1>32 DEF ReadEnd, Runs
<1>33. ASSUME NEW r \in Request, HostSetup(r) PROVE StreamInv'
  BY <1>33 DEF HostSetup, SetupPacket
<1>34. ASSUME NEW r \in Request, HostAborts(r) PROVE StreamInv'
  BY <1>34 DEF HostAborts, SetupPacket
<1>35. CASE HostIn
  BY <1>35, LengthType DEF HostIn, Done, Continue, NoTransfer, Shape, prog
<1>36. CASE HostOut
  BY <1>36 DEF HostOut, Done, Continue, NoTransfer
<1>37. CASE HostStalled
  BY <1>37 DEF HostStalled, NoTransfer
<1>38. CASE HostReset
  BY <1>38 DEF HostReset, ResetEffect, NoTransfer
<1>39. CASE HostSuspends
  BY <1>39 DEF HostSuspends, BrokenOff, BusInv
<1>40. CASE HostResumes
  BY <1>40 DEF HostResumes, ep0, prog
<1>41. CASE Unplug
  BY <1>41 DEF Unplug
<1>42. CASE Plug
  BY <1>42 DEF Plug
<1>43. CASE UNCHANGED vars
  BY <1>43 DEF vars, ep0, prog
<1> QED
  BY ZenonT(60), <1>1, <1>2, <1>3, <1>4, <1>5, <1>6, <1>7, <1>8, <1>9, <1>10,
     <1>11, <1>12, <1>13, <1>14, <1>15, <1>16, <1>17, <1>18, <1>19, <1>20,
     <1>21, <1>22, <1>23, <1>24, <1>25, <1>26, <1>27, <1>28, <1>29, <1>30,
     <1>31, <1>32, <1>33, <1>34, <1>35, <1>36, <1>37, <1>38, <1>39, <1>40,
     <1>41, <1>42, <1>43 DEF Next, Interrupt, Main, Host

(* Every step keeps the endpoints of a configured device.                  *)
LEMMA ReadyStep == Shape /\ BusInv /\ TransferInv /\ ReadyInv /\ [Next]_vars => ReadyInv'
<1> SUFFICES ASSUME Shape, BusInv, TransferInv, ReadyInv, [Next]_vars PROVE ReadyInv'
  OBVIOUS
<1> USE DEF ReadyInv, InUse, Ready, state, eps, host
<1>1. CASE VBusChange
  BY <1>1 DEF VBusChange, Taken, Live, Order, TransferInv, Transfer, BusInv,
     prog
<1>2. CASE Suspend
  BY <1>2 DEF Suspend, Taken, Live, Order, BusInv, prog
<1>3. CASE WakeUp
  BY <1>3 DEF WakeUp, ActiveState, prog
<1>4. CASE EndOfReset
  BY <1>4, SMTT(60) DEF EndOfReset, Taken, Live, Order, TransferInv, Transfer,
     prog
<1>5. CASE USBTask
  BY <1>5 DEF USBTask, TransferInv, Transfer, ints
<1>6. CASE SetAddress
  BY <1>6 DEF SetAddress, Goto
<1>7. CASE SetConfiguration
  BY <1>7 DEF SetConfiguration, Goto
<1>8. CASE ClearSetFeature
  BY <1>8 DEF ClearSetFeature, Goto, ints
<1>9. CASE SetControlLineState
  BY <1>9 DEF SetControlLineState, Goto, ints
<1>10. CASE GetConfiguration
  BY <1>10 DEF GetConfiguration, Handles, Answer, Goto, ints
<1>11. CASE GetStatus
  BY <1>11 DEF GetStatus, Handles, Answer, Goto, ints
<1>12. CASE GetDescriptor
  BY <1>12 DEF GetDescriptor, Handles, WriteStream, ints
<1>13. CASE GetLineEncoding
  BY <1>13 DEF GetLineEncoding, Handles, WriteStream, ints
<1>14. CASE SetLineEncoding
  BY <1>14 DEF SetLineEncoding, Handles, ints
<1>15. CASE NoHandler
  BY <1>15 DEF NoHandler, Goto, Handles, ints
<1>16. CASE Final
  BY <1>16 DEF Final, Runs, ints
<1>17. CASE StatusIn
  BY <1>17 DEF StatusIn, Goto, AfterStatus, ints
<1>18. CASE StatusInDetached
  BY <1>18 DEF StatusInDetached, Runs, TransferInv, Transfer
<1>19. CASE StatusOut
  BY <1>19 DEF StatusOut, Goto, Runs, ints
<1>20. CASE StatusOutDetached
  BY <1>20 DEF StatusOutDetached, Goto, Runs, ints
<1>21. CASE SetDeviceAddress
  BY <1>21, SMTT(60) DEF SetDeviceAddress, Goto, Runs, TransferInv, Transfer,
     NextCfg
<1>22. CASE SetConfigured
  BY <1>22, SMTT(60) DEF SetConfigured, ActiveState, ints
<1>23. CASE SelectEndpoint
  BY <1>23 DEF SelectEndpoint, Goto, Runs, ints
<1>24. CASE ConfigureEndpoint
  BY <1>24, SMTT(60) DEF ConfigureEndpoint, Runs, Shape, ints
<1>25. CASE WriteCheck
  BY <1>25 DEF WriteCheck, Goto, Runs, ints
<1>26. CASE WriteFill
  BY <1>26 DEF WriteFill, Runs, ints
<1>27. CASE WriteStatus
  BY <1>27 DEF WriteStatus, Goto, Runs, ints
<1>28. CASE WriteEnd
  BY <1>28 DEF WriteEnd, Goto, Runs, ints
<1>29. CASE ReadCheck
  BY <1>29 DEF ReadCheck, Goto, Runs, ints
<1>30. CASE ReadBytes
  BY <1>30 DEF ReadBytes, Runs, ints
<1>31. CASE ReadStatus
  BY <1>31 DEF ReadStatus, Goto, Runs, ints
<1>32. CASE ReadEnd
  BY <1>32 DEF ReadEnd, Goto, Runs, ints
<1>33. ASSUME NEW r \in Request, HostSetup(r) PROVE ReadyInv'
  BY <1>33, ZenonT(60) DEF HostSetup, SetupPacket, Answers, Activity, InOrder,
     prog
<1>34. ASSUME NEW r \in Request, HostAborts(r) PROVE ReadyInv'
  BY <1>34, ZenonT(60) DEF HostAborts, Count, SetupPacket, Answers, Activity,
     InOrder, prog
<1>35. CASE HostIn
  BY <1>35 DEF HostIn, TransferInv, Transfer, prog
<1>36. CASE HostOut
  BY <1>36 DEF HostOut, TransferInv, Transfer, prog
<1>37. CASE HostStalled
  BY <1>37 DEF HostStalled, TransferInv, Transfer, BusInv, ints, prog
<1>38. CASE HostReset
  BY <1>38, ZenonT(60) DEF HostReset, Count, ResetEffect, NoTransfer,
     NoRequest, prog
<1>39. CASE HostSuspends
  BY <1>39, SuspendFacts DEF HostSuspends, BrokenOff, BusInv, prog
<1>40. CASE HostResumes
  BY <1>40 DEF HostResumes, BusInv, prog
<1>41. CASE Unplug
  BY <1>41 DEF Unplug
<1>42. CASE Plug
  BY <1>42 DEF Plug
<1>43. CASE UNCHANGED vars
  BY <1>43 DEF vars, ints, prog
<1> QED
  BY ZenonT(60), <1>1, <1>2, <1>3, <1>4, <1>5, <1>6, <1>7, <1>8, <1>9, <1>10,
     <1>11, <1>12, <1>13, <1>14, <1>15, <1>16, <1>17, <1>18, <1>19, <1>20,
     <1>21, <1>22, <1>23, <1>24, <1>25, <1>26, <1>27, <1>28, <1>29, <1>30,
     <1>31, <1>32, <1>33, <1>34, <1>35, <1>36, <1>37, <1>38, <1>39, <1>40,
     <1>41, <1>42, <1>43 DEF Next, Interrupt, Main, Host

-----------------------------------------------------------------------------
(* The theorems *)

(* The invariant holds from USB_Init on.                                   *)
THEOREM Invariance == Spec => []Inv
<1>1. Init => Inv
  <2> SUFFICES ASSUME Init PROVE Inv
    OBVIOUS
  <2>1. Shape
    BY SizeAssumption DEF Init, Shape, States, PC, Stages, Buses
  <2>2. Requests
    BY ZenonT(60) DEF Init, Requests
  <2>3. Flags
    BY ZenonT(60) DEF Init, Flags
  <2>4. BusInv
    BY DEF Init, BusInv, vbus
  <2>5. ~InUse
    BY DEF Init, InUse
  <2> QED
    BY <2>1, <2>2, <2>3, <2>4, <2>5, ZenonT(60) DEF Inv, TransferInv, StreamInv,
       ReadyInv
<1>2. Inv /\ [Next]_vars => Inv'
  BY ShapeStep, RequestStep, FlagStep, BusStep, TransferStep, StreamStep,
     ReadyStep,
     ZenonT(60) DEF Inv
<1> QED
  BY <1>1, <1>2, PTL DEF Spec

(* The variables keep their types: no packet is longer than the endpoint,  *)
(* and only endpoints that exist are selected.                             *)
THEOREM TypeCorrect == Spec => []TypeOK
<1>1. Inv => TypeOK
  <2> SUFFICES ASSUME Inv PROVE TypeOK
    OBVIOUS
  <2>1. {IE, setup, out, free, stall, full, torn} \subseteq BOOLEAN
    BY ZenonT(60) DEF Inv, Flags
  <2>2. {req, hreq} \subseteq Request \cup {NoRequest}
    BY ZenonT(60) DEF Inv, Requests
  <2>3. pending \subseteq {Order[i] : i \in 1 .. 4}
    <3>1. /\ Order[1] = "VBUSTI" /\ Order[2] = "SUSPI"
          /\ Order[3] = "WAKEUPI" /\ Order[4] = "EORSTI"
      BY DEF Order
    <3> QED
      BY <3>1 DEF Inv, Shape
  <2>4. enabled \subseteq {"SUSPI", "WAKEUPI"}
    BY DEF Inv, BusInv
  <2> QED
    BY <2>1, <2>2, <2>3, <2>4 DEF Inv, Shape, TypeOK
<1> QED
  BY <1>1, Invariance, PTL

(* Between transfers, device and host agree on address and configuration,  *)
(* and a configured device has its endpoints.                              *)
THEOREM Agreement == Spec => []HostAndDeviceAgree
<1>1. Inv => HostAndDeviceAgree
  BY DEF Inv, Shape, BusInv, TransferInv, Transfer, NextCfg, ReadyInv, Ready,
     InUse,
         HostAndDeviceAgree, Settled, Live
<1> QED
  BY <1>1, Invariance, PTL

(* USB_GEN_vect misses neither a suspend nor a wake-up.                    *)
THEOREM SuspendNoticed == Spec => []SuspendIsNoticed
<1>1. Inv => SuspendIsNoticed
  BY DEF Inv, BusInv, SuspendIsNoticed, Settled, Live
<1> QED
  BY <1>1, Invariance, PTL

(* Endpoint_Write_Control_Stream sends the answer whole, in however many   *)
(* packets, or as much of it as the host asked for.                        *)
THEOREM AnswerIsWhole == Spec => []WholeAnswer
<1>1. Inv => WholeAnswer
  <2> SUFFICES ASSUME Inv, stage = "status_out", hreq.kind \in StreamIn, ~torn
               PROVE  hlen = Total
    BY DEF WholeAnswer, Total
  <2> QED
    BY DEF Inv, BusInv, TransferInv, Transfer, StreamInv, Stream, InUse,
           FirstStage
<1> QED
  BY <1>1, Invariance, PTL
=============================================================================
