----------------------------- MODULE FlashBlock -----------------------------
(***************************************************************************)
(* The data of the AVR-109 block commands (ReadWriteMemoryBlock in         *)
(* Adelino.c): a page of flash is erased, its words are filled into the    *)
(* temporary page buffer as their bytes come in from the host, and the     *)
(* buffer is written to the page; a block is read back byte by byte.       *)
(*                                                                         *)
(* The self-programming hardware is external.  An SPM operation takes two  *)
(* instructions: SPMCSR is written, which arms it, and the SPM instruction *)
(* that follows executes it.  SPMCSR disarms itself after four cycles, so  *)
(* an interrupt taken between the two makes the SPM instruction do         *)
(* nothing.  The code disables the timer interrupt; the UART and the USB   *)
(* interrupt stay enabled.                                                 *)
(*                                                                         *)
(* The host is one that follows the protocol: it sets the address of a     *)
(* page, then sends or asks for blocks of an even number of bytes, a page  *)
(* at most, and goes on without setting the address again only after a     *)
(* block that was a whole page.                                            *)
(***************************************************************************)
EXTENDS Integers, Sequences

CONSTANTS
    Base,       \* the first address of the modelled part of the flash
    Pages,      \* its pages
    PageWords,  \* words of a page: SPM_PAGESIZE / 2
    Data,       \* the values of the bytes the host sends
    Old,        \* the value of every byte of the flash at first
    MaxBlocks   \* bound: blocks sent or asked for by the host

PageSize == 2 * PageWords

FF == 255       \* an erased byte
Zero == 0       \* what usb_read_byte returns in place of a byte
Junk == 256     \* a byte programmed over without an erase

Value == Data \cup {FF, Zero, Junk, Old}

ASSUME SizeAssumption ==
    /\ Pages \in Nat \ {0}
    /\ PageWords \in Nat \ {0}
    /\ MaxBlocks \in Nat
    /\ Base \in Nat /\ Base % PageSize = 0
    /\ Base + Pages * PageSize <= 32768     \* the flash of the ATmega32U4

VARIABLES
    pc,
    CurrAddress,
    PageStartAddress,
    BlockSize,      \* bytes of the block still to be transferred
    HighByte,
    LowByte,
    NextByte,       \* the byte read for the word being filled
    flash,          \* the application section, byte by byte
    tmp,            \* the temporary page buffer
    rww,            \* the application section can be read
    armed,          \* SPMCSR is armed for the SPM instruction at pc
    detached,       \* endpoint_detached () is true
    hostAddress,    \* the address the host is at; NoAddress when it has set none
    image,          \* what the host takes the flash to hold
    data,           \* the bytes of the block in progress, up to a stand-in
    standIn,        \* history: usb_read_byte returned 0 for a missing byte
                    \* of the block in progress
    spoiled,        \* history: the pages whose last block had such a byte
    disturbed,      \* history: an interrupt disarmed an SPM operation
    blocks          \* the number of blocks so far

code == <<CurrAddress, PageStartAddress, BlockSize, HighByte, LowByte, NextByte>>
spm == <<flash, tmp, rww>>
host == <<hostAddress, image, data, blocks>>
history == <<standIn, spoiled, disturbed>>

vars == <<pc, code, spm, armed, detached, host, history>>

NoAddress == Base + Pages * PageSize

Address == Base .. NoAddress - 1

PC == {"idle", "erase", "in", "fill", "write", "enable", "out", "read_done"}

SpmPC == {"erase", "fill", "write", "enable"}

PageOf(a) == a \div PageSize
Offset(a) == a % PageSize

EmptyBuffer == [i \in 0 .. PageSize - 1 |-> FF]

Init ==
    /\ pc = "idle"
    /\ CurrAddress = 0 /\ PageStartAddress = 0
    /\ BlockSize = 0
    /\ HighByte = 0 /\ LowByte = 0 /\ NextByte = 0
    /\ flash = [a \in Address |-> Old]
    /\ tmp = EmptyBuffer
    /\ rww = TRUE
    /\ armed = FALSE
    /\ detached = FALSE
    /\ hostAddress = NoAddress
    /\ image = [a \in Address |-> Old]
    /\ data = <<>>
    /\ standIn = FALSE /\ spoiled = {} /\ disturbed = FALSE
    /\ blocks = 0

-----------------------------------------------------------------------------
(* The self-programming hardware *)

PageErase(a) ==
    flash' = [x \in Address |-> IF PageOf(x) = PageOf(a) THEN FF ELSE flash[x]]

\* Programming can only clear bits of a byte that was not erased.
Program(old, new) ==
    IF old = FF THEN new ELSE IF new \in {FF, old} THEN old ELSE Junk

PageWrite(a) ==
    flash' = [x \in Address |->
                IF PageOf(x) = PageOf(a)
                THEN Program(flash[x], tmp[Offset(x)]) ELSE flash[x]]

\* A word of the buffer cannot be relied on when it is filled twice.
PageFill(a, low, high) ==
    LET filled == [tmp EXCEPT ![Offset(a)] = low, ![Offset(a) + 1] = high]
    IN  \/ tmp' = filled
        \/ (tmp[Offset(a)] # FF \/ tmp[Offset(a) + 1] # FF) /\ tmp' = tmp

\* USART1_RX_vect or USB_GEN_vect is taken between the two instructions.
Interrupt ==
    /\ pc \in SpmPC
    /\ armed
    /\ armed' = FALSE
    /\ disturbed' = TRUE
    /\ UNCHANGED <<pc, code, spm, detached, host, standIn, spoiled>>

-----------------------------------------------------------------------------
(* Commands *)

\* A value in an int of the AVR
Int16(x) == LET y == x % 65536 IN IF y < 32768 THEN y ELSE y - 65536

Mut_AddressOf(hi, lo) == Int16(256 * hi) + Int16(2 * lo)

\* (hi << 9) | (lo << 1), computed in ints: the two have no bit in common.
AddressOf(hi, lo) == Int16(512 * hi) + Int16(2 * lo)

\* 'A' with the address of a word, for a page the host wants to go on with
SetAddress(w) ==
    /\ pc = "idle"
    /\ ~detached
    /\ 2 * w \in Address /\ Offset(2 * w) = 0
    /\ CurrAddress' = AddressOf(w \div 256, w % 256)
    /\ hostAddress' = 2 * w
    /\ UNCHANGED <<pc, PageStartAddress, BlockSize, HighByte, LowByte, NextByte,
                   spm, armed, detached, image, data, blocks, history>>

\* The host goes away before the second byte of the address, or the first.
SetAddressCut(w) ==
    /\ pc = "idle"
    /\ ~detached
    /\ 2 * w \in Address /\ Offset(2 * w) = 0
    /\ CurrAddress' \in {AddressOf(w \div 256, Zero), AddressOf(Zero, Zero)}
    /\ detached' = TRUE
    /\ UNCHANGED <<pc, PageStartAddress, BlockSize, HighByte, LowByte, NextByte,
                   spm, armed, host, history>>

HostBegins ==
    /\ pc = "idle"
    /\ ~detached
    /\ blocks < MaxBlocks
    /\ blocks' = blocks + 1
    /\ hostAddress \in Address
    /\ Offset(hostAddress) = 0
    /\ UNCHANGED data

BeginBlock(n) ==
    /\ BlockSize' = n
    /\ HighByte' = 0
    /\ LowByte' = 0
    /\ armed' = TRUE
    /\ standIn' = FALSE
    /\ UNCHANGED <<CurrAddress, NextByte, detached, hostAddress, image, spoiled,
                   disturbed>>

\* The locals of ReadWriteMemoryBlock are gone.
BlockReturns ==
    /\ PageStartAddress' = 0
    /\ BlockSize' = 0
    /\ HighByte' = 0 /\ LowByte' = 0 /\ NextByte' = 0
    /\ UNCHANGED CurrAddress

\* 'B' with its header: the page is about to be erased.
WriteBlock(n) ==
    /\ HostBegins
    /\ BeginBlock(n)
    /\ PageStartAddress' = CurrAddress
    /\ pc' = "erase"
    /\ UNCHANGED spm

\* 'g' with its header: boot_rww_enable is about to be executed.
ReadBlock(n) ==
    /\ HostBegins
    /\ BeginBlock(n)
    /\ pc' = "enable"
    /\ UNCHANGED <<PageStartAddress, spm>>

-----------------------------------------------------------------------------
(* ReadWriteMemoryBlock, writing *)

\* boot_page_erase (PageStartAddress); boot_spm_busy_wait ();
EraseSpm ==
    /\ pc = "erase"
    /\ IF armed
       THEN PageErase(PageStartAddress) /\ rww' = FALSE /\ UNCHANGED tmp
       ELSE UNCHANGED spm
    /\ pc' = "in"
    /\ armed' = FALSE
    /\ UNCHANGED <<code, detached, host, history>>

\* usb_read_byte: the next byte of the host; or 0, when none is there and
\* endpoint_detached (), which is not asked when there is one.
ReadByte(b) ==
    \/ /\ b \in Data
       /\ data' = IF standIn THEN data ELSE Append(data, b)
       /\ UNCHANGED standIn
    \/ /\ detached
       /\ b = Zero
       /\ standIn' = TRUE
       /\ UNCHANGED data

Mut_ReadAtZero(b) ==
    /\ pc = "in"
    /\ HighByte = 0
    /\ ReadByte(b)
    /\ LowByte' = b
    /\ HighByte' = 1
    /\ BlockSize' = BlockSize - 1
    /\ UNCHANGED <<pc, CurrAddress, PageStartAddress, NextByte, spm, armed,
                   detached, hostAddress, image, blocks, spoiled, disturbed>>

ReadLow(b) ==
    /\ pc = "in"
    /\ BlockSize > 0 /\ HighByte = 0
    /\ ReadByte(b)
    /\ LowByte' = b
    /\ HighByte' = 1
    /\ BlockSize' = BlockSize - 1
    /\ UNCHANGED <<pc, CurrAddress, PageStartAddress, NextByte, spm, armed,
                   detached, hostAddress, image, blocks, spoiled, disturbed>>

\* The word is complete: boot_page_fill is about to be executed.
ReadHigh(b) ==
    /\ pc = "in"
    /\ BlockSize > 0 /\ HighByte = 1
    /\ ReadByte(b)
    /\ NextByte' = b
    /\ pc' = "fill"
    /\ armed' = TRUE
    /\ UNCHANGED <<CurrAddress, PageStartAddress, BlockSize, HighByte, LowByte,
                   spm, detached, hostAddress, image, blocks, spoiled, disturbed>>

Mut_SwappedBytes ==
    /\ pc = "fill"
    /\ IF armed THEN PageFill(CurrAddress, NextByte, LowByte) ELSE UNCHANGED tmp
    /\ CurrAddress' = CurrAddress + 2
    /\ HighByte' = 0
    /\ BlockSize' = BlockSize - 1
    /\ pc' = "in"
    /\ armed' = FALSE
    /\ NextByte' = 0
    /\ UNCHANGED <<PageStartAddress, LowByte, flash, rww, detached, host, history>>

FillSpm ==
    /\ pc = "fill"
    /\ IF armed THEN PageFill(CurrAddress, LowByte, NextByte) ELSE UNCHANGED tmp
    /\ CurrAddress' = CurrAddress + 2
    /\ HighByte' = 0
    /\ BlockSize' = BlockSize - 1
    /\ pc' = "in"
    /\ armed' = FALSE
    /\ NextByte' = 0
    /\ UNCHANGED <<PageStartAddress, LowByte, flash, rww, detached, host, history>>

\* All bytes are read: boot_page_write is about to be executed.
Commit ==
    /\ pc = "in"
    /\ BlockSize = 0
    /\ pc' = "write"
    /\ armed' = TRUE
    /\ UNCHANGED <<code, spm, detached, host, history>>

\* The host's view of a block that was acknowledged.
BlockImage ==
    [a \in Address |->
        IF PageOf(a) # PageOf(hostAddress) THEN image[a]
        ELSE IF Offset(a) < Len(data) THEN data[Offset(a) + 1] ELSE FF]

\* boot_page_write (PageStartAddress); the buffer is empty again.
WriteSpm ==
    /\ pc = "write"
    /\ IF armed
       THEN PageWrite(PageStartAddress) /\ tmp' = EmptyBuffer /\ rww' = FALSE
       ELSE UNCHANGED spm
    /\ pc' = "idle"
    /\ armed' = FALSE
    /\ image' = BlockImage
    /\ hostAddress' = hostAddress + Len(data)
    /\ spoiled' = IF standIn THEN spoiled \cup {PageOf(hostAddress)}
                             ELSE spoiled \ {PageOf(hostAddress)}
    /\ data' = <<>>
    /\ BlockReturns
    /\ UNCHANGED <<detached, blocks, standIn, disturbed>>

-----------------------------------------------------------------------------
(* ReadWriteMemoryBlock, reading *)

Mut_NoEnable ==
    /\ pc = "enable"
    /\ pc' = "out"
    /\ armed' = FALSE
    /\ UNCHANGED <<code, spm, detached, host, history>>

\* boot_rww_enable ()
EnableSpm ==
    /\ pc = "enable"
    /\ IF armed THEN rww' = TRUE /\ tmp' = EmptyBuffer ELSE UNCHANGED <<rww, tmp>>
    /\ pc' = "out"
    /\ armed' = FALSE
    /\ UNCHANGED <<code, flash, detached, host, history>>

\* pgm_read_byte (CurrAddress | HighByte)
ReadFlash == IF rww THEN flash[CurrAddress + HighByte] ELSE Junk

WriteOut ==
    /\ pc = "out"
    /\ BlockSize > 0
    /\ data' = Append(data, ReadFlash)
    /\ CurrAddress' = CurrAddress + 2 * HighByte
    /\ HighByte' = 1 - HighByte
    /\ BlockSize' = BlockSize - 1
    /\ UNCHANGED <<pc, PageStartAddress, LowByte, NextByte, spm, armed, detached,
                   hostAddress, image, blocks, history>>

ReadDone ==
    /\ pc = "out"
    /\ BlockSize = 0
    /\ pc' = "read_done"
    /\ UNCHANGED <<code, spm, armed, detached, host, history>>

NextCommand ==
    /\ pc = "read_done"
    /\ pc' = "idle"
    /\ hostAddress' = hostAddress + Len(data)
    /\ data' = <<>>
    /\ BlockReturns
    /\ UNCHANGED <<spm, armed, detached, image, blocks, history>>

-----------------------------------------------------------------------------

\* The cable is pulled, or Timeout is 0.
Detach ==
    /\ ~detached
    /\ detached' = TRUE
    /\ UNCHANGED <<pc, code, spm, armed, host, history>>

\* A host that comes back sets the address before it goes on.
Attach ==
    /\ pc = "idle"
    /\ detached
    /\ detached' = FALSE
    /\ hostAddress' = NoAddress
    /\ UNCHANGED <<pc, code, spm, armed, image, data, blocks, history>>

EvenSizes == {2 * k : k \in 0 .. PageWords}

Next ==
    \/ \E w \in Base \div 2 .. NoAddress \div 2 : SetAddress(w) \/ SetAddressCut(w)
    \/ \E n \in EvenSizes : WriteBlock(n) \/ ReadBlock(n)
    \/ EraseSpm \/ FillSpm \/ Commit \/ WriteSpm
    \/ \E b \in Value : ReadLow(b) \/ ReadHigh(b)
    \/ EnableSpm \/ WriteOut \/ ReadDone \/ NextCommand
    \/ Interrupt \/ Detach \/ Attach

Spec == Init /\ [][Next]_vars

-----------------------------------------------------------------------------
(* Properties *)

TypeOK ==
    /\ pc \in PC
    /\ CurrAddress \in 0 .. NoAddress
    /\ PageStartAddress \in 0 .. NoAddress
    /\ BlockSize \in 0 .. PageSize
    /\ HighByte \in {0, 1}
    /\ LowByte \in Value /\ NextByte \in Value
    /\ flash \in [Address -> Value]
    /\ tmp \in [0 .. PageSize - 1 -> Value]
    /\ image \in [Address -> Value]
    /\ data \in Seq(Value)
    /\ {rww, armed, detached, standIn, disturbed} \subseteq BOOLEAN
    /\ spoiled \subseteq {PageOf(a) : a \in Address}
    /\ hostAddress \in Base .. NoAddress
    /\ blocks \in 0 .. MaxBlocks

(* After every block, the flash holds what the host sent: every byte of    *)
(* every block at its address, the rest of the page erased, other pages    *)
(* untouched.  Excepted are pages whose last block missed bytes of the     *)
(* host, and everything once an SPM operation was disturbed.               *)
FlashIsImage ==
    pc = "idle" /\ ~disturbed =>
        \A a \in Address : PageOf(a) \notin spoiled => flash[a] = image[a]

(* A block read back is what the flash holds from the address on, in order *)
(* of the bytes, even right after a write left the section disabled.       *)
ReadBackIsFlash ==
    pc = "read_done" /\ ~disturbed =>
        \A i \in 1 .. Len(data) : data[i] = flash[hostAddress + i - 1]

(* The automatic increment keeps CurrAddress at the host's address from    *)
(* block to block, and command 'A' sets it to the address the host means,  *)
(* whatever interrupts do to the SPM operations, until the host is gone; a *)
(* host that comes back sets the address first.                            *)
AddressInStep ==
    pc = "idle" /\ ~detached /\ hostAddress # NoAddress
        => CurrAddress = hostAddress

(* What the comment in ReadWriteMemoryBlock says: no nonessential          *)
(* interrupt is processed during the SPM tasks, so none can spoil a page.  *)
InterruptsDoNoHarm ==
    pc = "idle" =>
        \A a \in Address : PageOf(a) \notin spoiled => flash[a] = image[a]

(* What the comment on usb_read_byte says: it returns the next byte        *)
(* received from the host, so only such bytes are written to the flash.    *)
OnlyHostBytesWritten ==
    pc = "idle" /\ ~disturbed =>
        \A a \in Address : flash[a] \in Data \cup {FF, Old}
=============================================================================
