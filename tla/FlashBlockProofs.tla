-------------------------- MODULE FlashBlockProofs --------------------------
(***************************************************************************)
(* For every page size, every part of the flash and every content of the   *)
(* blocks: ReadWriteMemoryBlock keeps its addresses within the pages, the  *)
(* flash holds what the host sent, and what is read back is what it holds. *)
(***************************************************************************)
EXTENDS FlashBlock, TLAPS

(* A leaf that names no prover is given to SMT, with a minute to answer.   *)
USE SMTT(60)

(* The types; the Boolean variables apart.                                 *)
Kinds ==
    /\ pc \in PC
    /\ CurrAddress \in 0 .. NoAddress
    /\ PageStartAddress \in 0 .. NoAddress
    /\ BlockSize \in 0 .. PageSize
    /\ HighByte \in {0, 1}
    /\ LowByte \in Value /\ NextByte \in Value
    /\ flash \in [Address -> Value]
    /\ tmp \in [0 .. PageSize - 1 -> Value]
    /\ image \in [Address -> Value]
    /\ data \in Seq(Value)
    /\ spoiled \subseteq {PageOf(a) : a \in Address}
    /\ hostAddress \in Base .. NoAddress
    /\ blocks \in 0 .. MaxBlocks

Flags ==
    /\ rww \in BOOLEAN /\ armed \in BOOLEAN /\ detached \in BOOLEAN
    /\ standIn \in BOOLEAN /\ disturbed \in BOOLEAN

Filling == {"in", "fill", "write"}
Writing == Filling \cup {"erase"}
Reading == {"enable", "out", "read_done"}

\* The bytes of the block that were transferred, stand-ins included
Moved == CurrAddress - hostAddress + (IF pc = "fill" THEN 2 ELSE HighByte)

(* How far a block has come: the bytes moved and the bytes to come stay    *)
(* within the page; without a stand-in, the bytes moved are the host's.    *)
Progress ==
    /\ pc = "idle" => data = <<>> /\ AddressInStep
    /\ pc # "idle" =>
          /\ hostAddress \in Address /\ Offset(hostAddress) = 0
          /\ hostAddress <= CurrAddress
          /\ CurrAddress + HighByte + BlockSize <= hostAddress + PageSize
          /\ (BlockSize + HighByte) % 2 = 0
    /\ pc \in Writing =>
          /\ PageStartAddress = hostAddress
          /\ standIn => detached
          /\ Len(data) <= Moved
          /\ ~standIn => Len(data) = Moved
    /\ pc \in Reading => Len(data) = Moved
    /\ pc \in {"erase", "enable"} =>
          CurrAddress = hostAddress /\ HighByte = 0 /\ data = <<>> /\ ~standIn
    /\ pc = "fill" => HighByte = 1 /\ BlockSize > 0
    /\ pc \in {"write", "read_done"} => BlockSize = 0

\* The flash is what the host takes it to be, outside the page pages.
Kept(pages) ==
    \A x \in Address : PageOf(x) \notin spoiled \cup pages => flash[x] = image[x]

\* The page of the block is erased, and the others are left alone.
Erased ==
    /\ Kept({PageOf(hostAddress)})
    /\ \A x \in Address : PageOf(x) = PageOf(hostAddress) => flash[x] = FF

\* The page buffer has the words moved so far.
Buffered ==
    \A i \in 0 .. PageSize - 1 :
        IF i < CurrAddress - hostAddress
        THEN ~standIn => tmp[i] = data[i + 1]
        ELSE tmp[i] = FF

\* LowByte, and NextByte behind it, are the last bytes of the host.
Loaded ==
    /\ pc = "in" /\ HighByte = 1 /\ ~standIn => LowByte = data[Len(data)]
    /\ pc = "fill" /\ ~standIn =>
          LowByte = data[Len(data) - 1] /\ NextByte = data[Len(data)]

\* The bytes sent are those of the flash.
Sent == \A i \in 1 .. Len(data) : data[i] = flash[hostAddress + i - 1]

(* What flash, buffer and locals hold while no SPM operation failed.       *)
Contents ==
    /\ pc \in SpmPC => armed
    /\ pc \notin Filling => tmp = EmptyBuffer /\ Kept({})
    /\ pc \in Filling => Erased /\ Buffered
    /\ Loaded
    /\ pc \in {"out", "read_done"} => rww /\ Sent

Inv ==
    /\ Kinds
    /\ Flags
    /\ Progress
    /\ ~disturbed => Contents

(* An address is a page's first address and an offset.                     *)
LEMMA PageSizeType == PageSize \in Nat \ {0} /\ NoAddress \in Nat /\ Base \in Nat
  BY SizeAssumption DEF PageSize, NoAddress

LEMMA OffsetType ==
    ASSUME NEW x \in Address
    PROVE  Offset(x) \in 0 .. PageSize - 1
  BY PageSizeType DEF Offset, Address

(* A page that begins in the modelled part of the flash ends in it, and    *)
(* its addresses are counted from its first one.                           *)
LEMMA PageFacts ==
    ASSUME NEW h \in Address, Offset(h) = 0
    PROVE  /\ h + PageSize <= NoAddress
           /\ \A i \in 0 .. PageSize - 1 :
                 /\ h + i \in Address
                 /\ PageOf(h + i) = PageOf(h)
                 /\ Offset(h + i) = i
<1> DEFINE P == PageSize
<1>1. P \in Nat \ {0} /\ h \in Nat /\ NoAddress \in Nat /\ Base \in Nat /\ h < NoAddress
      /\ Base <= h
  BY PageSizeType DEF Address
<1> HIDE DEF P
<1>2. PICK k \in Nat : h = P * k
  <2>1. h % P = 0
    BY DEF Offset, P
  <2>2. h = P * (h \div P) + (h % P) /\ h \div P \in Nat
    BY <1>1
  <2> QED
    BY <1>1, <2>1, <2>2
<1>3. PICK m \in Nat : NoAddress = P * m
  <2>1. Base % P = 0 /\ NoAddress = Base + Pages * P /\ Pages \in Nat
    BY SizeAssumption DEF NoAddress, P
  <2>2. Base = P * (Base \div P) + (Base % P) /\ Base \div P \in Nat
    BY <1>1
  <2>3. NoAddress = P * ((Base \div P) + Pages)
    BY <1>1, <2>1, <2>2
  <2> QED
    BY <2>1, <2>2, <2>3
<1>4. P * k + P <= P * m
  <2>1. k < m
    BY <1>1, <1>2, <1>3
  <2>2. P * (k + 1) <= P * m
    BY <1>1, <2>1
  <2> QED
    BY <1>1, <2>2
<1>5. ASSUME NEW i \in 0 .. P - 1
      PROVE  (P * k + i) % P = i /\ (P * k + i) \div P = k
  BY <1>1, <1>5
<1>6. h \div P = k
  BY <1>1, <1>2
<1>7. h + P <= NoAddress
  BY <1>2, <1>3, <1>4
<1>8. ASSUME NEW i \in 0 .. P - 1
      PROVE  /\ h + i \in Address
             /\ PageOf(h + i) = PageOf(h)
             /\ Offset(h + i) = i
  <2>1. h + i \in Address
    BY <1>1, <1>7 DEF Address
  <2>2. (h + i) % P = i /\ (h + i) \div P = h \div P
    BY <1>2, <1>5, <1>6
  <2> QED
    BY <2>1, <2>2 DEF PageOf, Offset, P
<1> QED
  BY <1>7, <1>8 DEF P

(* Command 'A' computes in ints of 16 bits, and is exact for every address *)
(* of the ATmega32U4.                                                      *)
LEMMA AddressGiven ==
    ASSUME NEW w \in Nat, 2 * w \in Address
    PROVE  /\ AddressOf(w \div 256, w % 256) = 2 * w
           /\ AddressOf(w \div 256, Zero) \in 0 .. 2 * w
           /\ AddressOf(Zero, Zero) = 0
<1> DEFINE hi == w \div 256
           lo == w % 256
<1>1. 2 * w < 32768
  BY SizeAssumption, PageSizeType DEF Address, NoAddress
<1>2. hi \in 0 .. 63 /\ lo \in 0 .. 255 /\ w = 256 * hi + lo
  BY <1>1
<1> HIDE DEF hi, lo
<1>3. Int16(512 * hi) = 512 * hi
  BY <1>2 DEF Int16
<1>4. Int16(2 * lo) = 2 * lo /\ Int16(0) = 0
  BY <1>2 DEF Int16
<1>5. AddressOf(hi, lo) = 2 * w /\ AddressOf(hi, 0) = 512 * hi /\ AddressOf(0, 0) = 0
  BY <1>2, <1>3, <1>4 DEF AddressOf
<1> QED
  BY <1>2, <1>5 DEF hi, lo, Zero

(* Every step keeps the Boolean variables Boolean.                         *)
LEMMA FlagStep == Flags /\ [Next]_vars => Flags'
<1> SUFFICES ASSUME Flags, [Next]_vars PROVE Flags'
  OBVIOUS
<1> USE DEF Flags, code, spm, host, history
<1>1. ASSUME NEW w \in Base \div 2 .. NoAddress \div 2,
             SetAddress(w) \/ SetAddressCut(w)
      PROVE  Flags'
  <2>1. CASE SetAddress(w)
    BY <2>1, ZenonT(60) DEF SetAddress
  <2>2. CASE SetAddressCut(w)
    BY <2>2, ZenonT(60) DEF SetAddressCut
  <2> QED
    BY <1>1, <2>1, <2>2
<1>2. ASSUME NEW n \in EvenSizes, WriteBlock(n) \/ ReadBlock(n)
      PROVE  Flags'
  BY <1>2, ZenonT(60) DEF WriteBlock, ReadBlock, BeginBlock
<1>3. ASSUME NEW b \in Value, ReadLow(b) \/ ReadHigh(b)
      PROVE  Flags'
  BY <1>3, ZenonT(60) DEF ReadLow, ReadHigh, ReadByte
<1>4. CASE EraseSpm
  BY <1>4, ZenonT(60) DEF EraseSpm
<1>5. CASE FillSpm
  BY <1>5, ZenonT(60) DEF FillSpm
<1>6. CASE Commit
  BY <1>6, ZenonT(60) DEF Commit
<1>7. CASE WriteSpm
  BY <1>7, ZenonT(60) DEF WriteSpm
<1>8. CASE EnableSpm
  BY <1>8, ZenonT(60) DEF EnableSpm
<1>9. CASE WriteOut \/ ReadDone \/ NextCommand
  BY <1>9, ZenonT(60) DEF WriteOut, ReadDone, NextCommand
<1>10. CASE Interrupt \/ Detach \/ Attach
  BY <1>10, ZenonT(60) DEF Interrupt, Detach, Attach
<1>11. CASE UNCHANGED vars
  BY <1>11, ZenonT(60) DEF vars
<1> QED
  BY <1>1, <1>2, <1>3, <1>4, <1>5, <1>6, <1>7, <1>8, <1>9, <1>10, <1>11,
     ZenonT(60) DEF Next

(* What an SPM instruction does when it is armed, and what a read from the *)
(* endpoint does to the bytes of the block.                                *)
LEMMA ErasesPage ==
    EraseSpm /\ armed => PageErase(PageStartAddress) /\ tmp' = tmp
  BY ZenonT(60) DEF EraseSpm

LEMMA FillsWord ==
    FillSpm /\ armed => PageFill(CurrAddress, LowByte, NextByte)
  BY ZenonT(60) DEF FillSpm

LEMMA WritesPage ==
    WriteSpm /\ armed => PageWrite(PageStartAddress) /\ tmp' = EmptyBuffer
  BY ZenonT(60) DEF WriteSpm

LEMMA EnablesSection ==
    EnableSpm /\ armed => rww' = TRUE /\ tmp' = EmptyBuffer
  BY ZenonT(60) DEF EnableSpm

LEMMA ReadsByte ==
    ASSUME NEW b, ReadByte(b)
    PROVE  \/ ~standIn /\ data' = Append(data, b) /\ ~standIn'
           \/ (standIn \/ detached) /\ data' = data /\ standIn'
  BY ZenonT(60) DEF ReadByte

(* Every step keeps the other variables in their types.                    *)
LEMMA KindStep == Kinds /\ Progress /\ [Next]_vars => Kinds'
<1> SUFFICES ASSUME Kinds, Progress, [Next]_vars PROVE Kinds'
  OBVIOUS
<1> USE PageSizeType, SizeAssumption DEF Kinds, PC, code, spm, host, history
<1>0. Zero \in Value /\ FF \in Value /\ Junk \in Value /\ Data \subseteq Value
      /\ 0 \in Value /\ EmptyBuffer \in [0 .. PageSize - 1 -> Value]
  BY DEF Value, Zero, EmptyBuffer
<1>1. ASSUME NEW w \in Base \div 2 .. NoAddress \div 2, SetAddress(w)
      PROVE  Kinds'
  <2>1. w \in Nat /\ 2 * w \in Address
    BY <1>1 DEF SetAddress
  <2>2. CurrAddress' = 2 * w
    BY <1>1, <2>1, AddressGiven DEF SetAddress
  <2> QED
    BY <1>1, <2>1, <2>2 DEF SetAddress, Address
<1>2. ASSUME NEW w \in Base \div 2 .. NoAddress \div 2, SetAddressCut(w)
      PROVE  Kinds'
  <2>1. w \in Nat /\ 2 * w \in Address
    BY <1>2 DEF SetAddressCut
  <2>2. CurrAddress' \in 0 .. 2 * w
    BY <1>2, <2>1, AddressGiven DEF SetAddressCut
  <2> QED
    BY <1>2, <2>1, <2>2 DEF SetAddressCut, Address
<1>3. ASSUME NEW n \in EvenSizes, WriteBlock(n) \/ ReadBlock(n)
      PROVE  Kinds'
  <2>1. n \in 0 .. PageSize
    <3>1. PICK k \in 0 .. PageWords : n = 2 * k
      BY <1>3 DEF EvenSizes
    <3> QED
      BY <3>1 DEF PageSize
  <2> QED
    BY <1>0, <1>3, <2>1 DEF WriteBlock, ReadBlock, HostBegins, BeginBlock
<1>4. ASSUME NEW b \in Value, ReadLow(b) \/ ReadHigh(b)
      PROVE  Kinds'
  <2>1. data' \in Seq(Value)
    <3>1. ReadByte(b)
      BY <1>4 DEF ReadLow, ReadHigh
    <3>2. data' = Append(data, b) \/ data' = data
      BY <3>1, ReadsByte
    <3> QED
      BY SMTT(60), <3>2
  <2>2. CASE ReadLow(b)
    BY <2>1, <2>2 DEF ReadLow
  <2>3. CASE ReadHigh(b)
    BY <2>1, <2>3 DEF ReadHigh
  <2> QED
    BY <1>4, <2>2, <2>3
<1>5. CASE EraseSpm
  <2>1. flash' \in [Address -> Value] /\ tmp' = tmp
    <3>1. CASE armed
      <4>1. PageErase(PageStartAddress) /\ tmp' = tmp
        BY <1>5, <3>1, ErasesPage
      <4> QED
        BY <1>0, <4>1 DEF PageErase
    <3>2. CASE ~armed
      BY <1>5, <3>2 DEF EraseSpm
    <3> QED
      BY <3>1, <3>2
  <2> QED
    BY <1>5, <2>1 DEF EraseSpm
<1>6. CASE FillSpm
  <2>1. tmp' \in [0 .. PageSize - 1 -> Value]
    <3>1. CASE armed
      BY SMTT(60), <1>6, <3>1 DEF FillSpm, PageFill
    <3>2. CASE ~armed
      BY <1>6, <3>2 DEF FillSpm
    <3> QED
      BY <3>1, <3>2
  <2>2. /\ HighByte = 1 /\ BlockSize > 0
        /\ hostAddress \in Address /\ Offset(hostAddress) = 0
        /\ CurrAddress + HighByte + BlockSize <= hostAddress + PageSize
    BY <1>6 DEF FillSpm, Progress
  <2>3. hostAddress + PageSize <= NoAddress
    BY <2>2, PageFacts
  <2>4. CurrAddress + 2 \in 0 .. NoAddress /\ BlockSize - 1 \in 0 .. PageSize
    BY <2>2, <2>3
  <2>5. NextByte' \in Value
    BY <1>0, <1>6 DEF FillSpm, Zero
  <2>6. /\ pc' = "in" /\ CurrAddress' = CurrAddress + 2 /\ HighByte' = 0
        /\ BlockSize' = BlockSize - 1
        /\ UNCHANGED <<PageStartAddress, LowByte, flash, host, spoiled>>
    BY ONLY <1>6 DEF FillSpm
  <2> QED
    BY <2>1, <2>4, <2>5, <2>6
<1>7. CASE WriteSpm
  <2>1. /\ hostAddress \in Address /\ Offset(hostAddress) = 0
        /\ CurrAddress + HighByte + BlockSize <= hostAddress + PageSize
        /\ Len(data) <= CurrAddress - hostAddress + HighByte
    BY <1>7 DEF WriteSpm, Progress, Writing, Filling, Moved
  <2>2. hostAddress + PageSize <= NoAddress
    BY <2>1, PageFacts
  <2>3. Len(data) \in Nat
    OBVIOUS
  <2>4. hostAddress + Len(data) \in Base .. NoAddress
    BY <2>1, <2>2, <2>3
  <2>5. flash' \in [Address -> Value]
    <3>1. ASSUME NEW u \in Value, NEW v \in Value PROVE Program(u, v) \in Value
      BY <1>0, <3>1 DEF Program
    <3>2. \A x \in Address : tmp[Offset(x)] \in Value
      BY OffsetType
    <3>3. CASE armed
      <4>1. PageWrite(PageStartAddress)
        BY <1>7, <3>3, WritesPage
      <4>2. \A x \in Address : Program(flash[x], tmp[Offset(x)]) \in Value
        BY <3>1, <3>2
      <4> QED
        BY <4>1, <4>2 DEF PageWrite
    <3>4. CASE ~armed
      BY <1>7, <3>4 DEF WriteSpm
    <3> QED
      BY <3>3, <3>4
  <2>6. tmp' \in [0 .. PageSize - 1 -> Value]
    <3>1. CASE armed
      BY <1>0, <1>7, <3>1 DEF WriteSpm
    <3>2. CASE ~armed
      BY <1>7, <3>2 DEF WriteSpm
    <3> QED
      BY <3>1, <3>2
  <2>7. BlockImage \in [Address -> Value]
    <3>1. \A a \in Address : Offset(a) < Len(data) => data[Offset(a) + 1] \in Value
      BY <2>3, OffsetType
    <3> QED
      BY <1>0, <3>1 DEF BlockImage
  <2>8. PageOf(hostAddress) \in {PageOf(a) : a \in Address}
    BY <2>1
  <2>9. spoiled' \subseteq {PageOf(a) : a \in Address}
    BY SMTT(60), <1>7, <2>8 DEF WriteSpm
  <2>10. /\ pc' = "idle" /\ CurrAddress' = CurrAddress /\ PageStartAddress' = 0
         /\ BlockSize' = 0 /\ HighByte' = 0 /\ LowByte' = 0 /\ NextByte' = 0
    BY <1>7 DEF WriteSpm, BlockReturns
  <2>11. /\ image' = BlockImage /\ data' = <<>> /\ blocks' = blocks
         /\ hostAddress' = hostAddress + Len(data)
    BY <1>7 DEF WriteSpm
  <2>12. /\ pc' \in PC /\ CurrAddress' \in 0 .. NoAddress
         /\ PageStartAddress' \in 0 .. NoAddress /\ BlockSize' \in 0 .. PageSize
         /\ HighByte' \in {0, 1} /\ LowByte' \in Value /\ NextByte' \in Value
    BY <1>0, <2>10 DEF NoAddress
  <2>13. /\ image' \in [Address -> Value] /\ data' \in Seq(Value)
         /\ hostAddress' \in Base .. NoAddress /\ blocks' \in 0 .. MaxBlocks
    BY <2>4, <2>7, <2>11
  <2> QED
    BY <2>5, <2>6, <2>9, <2>12, <2>13
<1>8. CASE EnableSpm
  <2>1. tmp' \in [0 .. PageSize - 1 -> Value]
    BY <1>0, <1>8 DEF EnableSpm
  <2> QED
    BY <1>8, <2>1 DEF EnableSpm
<1>9. CASE WriteOut
  <2>1. /\ hostAddress \in Address /\ Offset(hostAddress) = 0
        /\ hostAddress <= CurrAddress
        /\ CurrAddress + HighByte + BlockSize <= hostAddress + PageSize
        /\ BlockSize > 0 /\ (BlockSize + HighByte) % 2 = 0
    BY <1>9 DEF WriteOut, Progress
  <2>2. hostAddress + PageSize <= NoAddress
    BY <2>1, PageFacts
  <2>3. CurrAddress + HighByte \in Address
    BY <2>1, <2>2 DEF Address
  <2>4. ReadFlash \in Value
    BY <1>0, <2>3 DEF ReadFlash
  <2>5. CurrAddress + 2 * HighByte \in 0 .. NoAddress
    BY <2>1, <2>2
  <2> QED
    BY <1>9, <2>1, <2>4, <2>5 DEF WriteOut
<1>10. CASE NextCommand
  <2>1. /\ hostAddress \in Address /\ Offset(hostAddress) = 0
        /\ CurrAddress + HighByte + BlockSize <= hostAddress + PageSize
        /\ Len(data) = CurrAddress - hostAddress + HighByte
    BY <1>10 DEF NextCommand, Progress, Reading, Moved
  <2>2. hostAddress + PageSize <= NoAddress
    BY <2>1, PageFacts
  <2>3. hostAddress + Len(data) \in Base .. NoAddress
    BY <2>1, <2>2
  <2> QED
    BY <1>0, <1>10, <2>3 DEF NextCommand, BlockReturns
<1>11. CASE Commit \/ ReadDone \/ Interrupt \/ Detach \/ Attach
  BY <1>11 DEF Commit, ReadDone, Interrupt, Detach, Attach
<1>12. CASE UNCHANGED vars
  BY <1>12 DEF vars
<1>13. ASSUME NEW w \in Base \div 2 .. NoAddress \div 2,
              SetAddress(w) \/ SetAddressCut(w)
       PROVE  Kinds'
  BY <1>1, <1>2, <1>13
<1> HIDE PageSizeType, SizeAssumption DEF Kinds, PC, code, spm, host, history
<1> QED
  BY <1>13, <1>3, <1>4, <1>5, <1>6, <1>7, <1>8, <1>9, <1>10, <1>11, <1>12,
     ZenonT(60) DEF Next

(* The address that the last command left is the host's: see Progress.     *)
LEMMA ProgressStep == Kinds /\ Flags /\ Progress /\ [Next]_vars => Progress'
<1> SUFFICES ASSUME Kinds, Flags, Progress, [Next]_vars PROVE Progress'
  OBVIOUS
<1>0. /\ PageSize \in Nat /\ NoAddress \in Nat /\ Base \in Nat
      /\ CurrAddress \in Nat /\ hostAddress \in Nat /\ BlockSize \in Nat
      /\ HighByte \in {0, 1} /\ Len(data) \in Nat /\ data \in Seq(Value)
  BY PageSizeType DEF Kinds
<1> USE <1>0 DEF Progress, AddressInStep, Moved, Writing, Filling, Reading
<1>1. ASSUME NEW w \in Base \div 2 .. NoAddress \div 2, SetAddress(w)
      PROVE  Progress'
  <2>1. w \in Nat /\ 2 * w \in Address
    BY <1>1 DEF SetAddress
  <2>2. CurrAddress' = 2 * w
    BY <1>1, <2>1, AddressGiven DEF SetAddress
  <2> QED
    BY <1>1, <2>2 DEF SetAddress, history
<1>2. ASSUME NEW w \in Base \div 2 .. NoAddress \div 2, SetAddressCut(w)
      PROVE  Progress'
  BY <1>2 DEF SetAddressCut, host, history
<1>3. ASSUME NEW n \in EvenSizes, WriteBlock(n) \/ ReadBlock(n)
      PROVE  Progress'
  <2>1. PICK k \in 0 .. PageWords : n = 2 * k
    BY <1>3 DEF EvenSizes
  <2>2. n \in 0 .. PageSize /\ n % 2 = 0
    BY <2>1, SizeAssumption DEF PageSize
  <2>3. /\ pc = "idle" /\ ~detached /\ hostAddress \in Address
        /\ Offset(hostAddress) = 0 /\ data' = data /\ standIn' = FALSE
        /\ BlockSize' = n /\ HighByte' = 0
        /\ UNCHANGED <<CurrAddress, hostAddress, detached>>
    BY <1>3 DEF WriteBlock, ReadBlock, HostBegins, BeginBlock
  <2>4. CurrAddress = hostAddress /\ data = <<>> /\ Len(data) = 0
    BY <2>3 DEF Address
  <2>5. CASE WriteBlock(n)
    BY <2>2, <2>3, <2>4, <2>5 DEF WriteBlock
  <2>6. CASE ReadBlock(n)
    BY <2>2, <2>3, <2>4, <2>6 DEF ReadBlock
  <2> QED
    BY <1>3, <2>5, <2>6
<1>4. ASSUME NEW b \in Value, ReadLow(b) \/ ReadHigh(b)
      PROVE  Progress'
  <2>1. /\ ReadByte(b)
        /\ pc = "in" /\ BlockSize > 0
        /\ UNCHANGED <<CurrAddress, hostAddress, PageStartAddress, detached>>
    BY <1>4 DEF ReadLow, ReadHigh
  <2>2. \/ ~standIn /\ data' = Append(data, b) /\ ~standIn'
        \/ (standIn \/ detached) /\ data' = data /\ standIn'
    BY <2>1, ReadsByte, ZenonT(60)
  <2>3. \/ ~standIn /\ Len(data') = Len(data) + 1 /\ ~standIn'
        \/ detached /\ Len(data') = Len(data) /\ standIn'
    BY <2>1, <2>2
  <2>4. CASE ReadLow(b)
    BY <2>1, <2>3, <2>4 DEF ReadLow
  <2>5. CASE ReadHigh(b)
    BY <2>1, <2>3, <2>5 DEF ReadHigh
  <2> QED
    BY <1>4, <2>4, <2>5
<1>5. CASE EraseSpm
  BY <1>5 DEF EraseSpm, code, host, history
<1>6. CASE FillSpm
  BY <1>6 DEF FillSpm, host, history
<1>7. CASE Commit
  BY <1>7 DEF Commit, code, host, history
<1>8. CASE WriteSpm
  <2>1. HighByte = 0
    BY <1>8 DEF WriteSpm
  <2>2. /\ pc' = "idle" /\ data' = <<>> /\ hostAddress' = hostAddress + Len(data)
        /\ UNCHANGED <<CurrAddress, detached>>
    BY <1>8 DEF WriteSpm, BlockReturns
  <2>3. ~detached => Len(data) = CurrAddress - hostAddress
    BY <1>8, <2>1 DEF WriteSpm
  <2> QED
    BY <2>2, <2>3
<1>9. CASE EnableSpm
  BY <1>9 DEF EnableSpm, code, host, history
<1>10. CASE WriteOut
  <2>1. /\ pc = "out" /\ BlockSize > 0 /\ pc' = pc
        /\ CurrAddress' = CurrAddress + 2 * HighByte
        /\ HighByte' = 1 - HighByte /\ BlockSize' = BlockSize - 1
        /\ UNCHANGED hostAddress
        /\ Len(data') = Len(data) + 1
    BY <1>10 DEF WriteOut
  <2> QED
    BY <2>1
<1>11. CASE ReadDone
  BY <1>11 DEF ReadDone, code, host, history
<1>12. CASE NextCommand
  <2>1. HighByte = 0
    BY <1>12 DEF NextCommand
  <2> QED
    BY <1>12, <2>1 DEF NextCommand, BlockReturns
<1>13. CASE Interrupt
  BY <1>13 DEF Interrupt, code, host
<1>14. CASE Detach
  BY <1>14 DEF Detach, code, host, history
<1>15. CASE Attach
  BY <1>15 DEF Attach, code, history
<1>16. CASE UNCHANGED vars
  BY <1>16 DEF vars, code, host, history
<1>17. ASSUME NEW w \in Base \div 2 .. NoAddress \div 2,
              SetAddress(w) \/ SetAddressCut(w)
       PROVE  Progress'
  BY <1>1, <1>2, <1>17
<1> HIDE <1>0 DEF Progress, AddressInStep, Moved, Writing, Filling, Reading
<1> QED
  BY <1>17, <1>3, <1>4, <1>5, <1>6, <1>7, <1>8, <1>9, <1>10, <1>11, <1>12,
     <1>13,
     <1>14, <1>15, <1>16, ZenonT(60) DEF Next

(* Only an interrupt disturbs an SPM operation.                            *)
LEMMA DisturbedStays == [Next]_vars /\ ~disturbed' => ~disturbed /\ ~Interrupt
<1>0. ASSUME ~disturbed' PROVE ~Interrupt
  BY <1>0, ZenonT(60) DEF Interrupt
<1> SUFFICES ASSUME [Next]_vars, ~disturbed' PROVE ~disturbed
  BY <1>0
<1> USE DEF history
<1>1. ASSUME NEW w \in Base \div 2 .. NoAddress \div 2,
             SetAddress(w) \/ SetAddressCut(w)
      PROVE  ~disturbed
  BY <1>1, ZenonT(60) DEF SetAddress, SetAddressCut
<1>2. ASSUME NEW n \in EvenSizes, WriteBlock(n) \/ ReadBlock(n)
      PROVE  ~disturbed
  BY <1>2, ZenonT(60) DEF WriteBlock, ReadBlock, BeginBlock
<1>3. ASSUME NEW b \in Value, ReadLow(b) \/ ReadHigh(b)
      PROVE  ~disturbed
  BY <1>3, ZenonT(60) DEF ReadLow, ReadHigh
<1>4. CASE EraseSpm \/ FillSpm \/ Commit
  BY <1>4, ZenonT(60) DEF EraseSpm, FillSpm, Commit
<1>5. CASE WriteSpm
  BY <1>5, ZenonT(60) DEF WriteSpm
<1>6. CASE EnableSpm \/ WriteOut \/ ReadDone \/ NextCommand
  BY <1>6, ZenonT(60) DEF EnableSpm, WriteOut, ReadDone, NextCommand
<1>7. CASE Detach \/ Attach
  BY <1>7, ZenonT(60) DEF Detach, Attach
<1>8. CASE UNCHANGED vars
  BY <1>8, ZenonT(60) DEF vars
<1> QED
  BY <1>0, <1>1, <1>2, <1>3, <1>4, <1>5, <1>6, <1>7, <1>8, ZenonT(60) DEF Next

(* boot_page_fill puts a word that was erased before into the buffer.      *)
LEMMA FillStep ==
    ASSUME Kinds, Progress, Contents, FillSpm PROVE Contents'
<1> DEFINE d == CurrAddress - hostAddress
<1>0. /\ PageSize \in Nat \ {0} /\ CurrAddress \in Nat /\ hostAddress \in Nat
      /\ BlockSize \in Nat /\ data \in Seq(Value) /\ Len(data) \in Nat
      /\ tmp \in [0 .. PageSize - 1 -> Value] /\ PageSize % 2 = 0
  BY PageSizeType, SizeAssumption DEF Kinds, PageSize
<1>1. /\ pc = "fill" /\ pc' = "in" /\ CurrAddress' = CurrAddress + 2
      /\ HighByte' = 0 /\ HighByte = 1 /\ BlockSize > 0
      /\ hostAddress \in Address /\ Offset(hostAddress) = 0
      /\ UNCHANGED <<LowByte, flash, hostAddress, image, data, standIn, spoiled>>
  BY DEF FillSpm, Progress, host, history
<1>2. /\ d \in Nat /\ d + 1 \in 0 .. PageSize - 1
      /\ ~standIn => Len(data) = d + 2
  BY <1>0, <1>1 DEF Progress, Moved, Writing, Filling
<1>3. Offset(CurrAddress) = d
  <2>1. hostAddress + d = CurrAddress /\ d \in 0 .. PageSize - 1
    BY <1>0, <1>2
  <2>2. Offset(hostAddress + d) = d
    BY <1>1, <2>1, PageFacts
  <2> QED
    BY <2>1, <2>2
<1>4. armed
  BY <1>1 DEF Contents, SpmPC
<1>5. PageFill(CurrAddress, LowByte, NextByte)
  BY <1>4, FillsWord
<1>6. Erased /\ Buffered /\ Loaded
  BY <1>1 DEF Contents, Filling
<1>7. tmp[d] = FF /\ tmp[d + 1] = FF
  BY <1>0, <1>2, <1>6 DEF Buffered
<1>8. tmp' = [tmp EXCEPT ![d] = LowByte, ![d + 1] = NextByte]
  BY <1>3, <1>5, <1>7 DEF PageFill
<1>9. CurrAddress' - hostAddress' = d + 2
  BY <1>0, <1>1
<1>10. ASSUME NEW i \in 0 .. PageSize - 1
      PROVE  IF i < d + 2 THEN ~standIn => tmp'[i] = data[i + 1] ELSE tmp'[i] = FF
  <2>0. /\ i \in Nat
        /\ tmp'[i] = IF i = d + 1 THEN NextByte ELSE IF i = d THEN LowByte ELSE tmp[i]
    BY <1>0, <1>2, <1>8
  <2>1. CASE i < d \/ i > d + 1
    <3>1. IF i < d THEN ~standIn => tmp[i] = data[i + 1] ELSE tmp[i] = FF
      BY <1>6 DEF Buffered
    <3> QED
      BY <1>2, <2>0, <2>1, <3>1
  <2>2. CASE i = d
    <3>1. ~standIn => LowByte = data[d + 1]
      BY <1>0, <1>1, <1>2, <1>6 DEF Loaded
    <3> QED
      BY <1>2, <2>0, <2>2, <3>1
  <2>3. CASE i = d + 1
    <3>1. ~standIn => NextByte = data[d + 2]
      BY <1>0, <1>1, <1>2, <1>6 DEF Loaded
    <3> QED
      BY <1>2, <2>0, <2>3, <3>1
  <2> QED
    BY <1>2, <2>0, <2>1, <2>2, <2>3
<1>11. Erased'
  BY <1>1, <1>6 DEF Erased, Kept
<1> HIDE DEF d
<1>12. Buffered'
  BY <1>1, <1>9, <1>10 DEF Buffered
<1> QED
  BY <1>1, <1>11, <1>12 DEF Contents, Loaded, Filling, SpmPC

(* boot_page_write puts the buffer into the page, which was erased.        *)
LEMMA WriteStep ==
    ASSUME Kinds, Progress, Contents, WriteSpm PROVE Contents'
<1> DEFINE p == PageOf(hostAddress)
<1>0. /\ PageSize \in Nat \ {0} /\ CurrAddress \in Nat /\ hostAddress \in Nat
      /\ data \in Seq(Value) /\ Len(data) \in Nat /\ HighByte \in {0, 1}
  BY PageSizeType DEF Kinds
<1>1. /\ pc = "write" /\ pc' = "idle"
      /\ PageStartAddress = hostAddress
      /\ image' = BlockImage
      /\ spoiled' = IF standIn THEN spoiled \cup {p} ELSE spoiled \ {p}
      /\ ~standIn => Len(data) = CurrAddress - hostAddress + HighByte
      /\ BlockSize = 0 /\ (BlockSize + HighByte) % 2 = 0
  BY DEF WriteSpm, Progress, Moved, Writing, Filling
<1>2. ~standIn => Len(data) = CurrAddress - hostAddress
  BY <1>0, <1>1
<1>3. PageWrite(hostAddress) /\ tmp' = EmptyBuffer
  BY <1>1, WritesPage DEF Contents, SpmPC
<1>4. Erased /\ Buffered
  BY <1>1 DEF Contents, Filling
<1>5. /\ Kept({p})
      /\ \A x \in Address : PageOf(x) = p => flash[x] = FF
      /\ \A i \in 0 .. PageSize - 1 :
            IF i < CurrAddress - hostAddress
            THEN ~standIn => tmp[i] = data[i + 1]
            ELSE tmp[i] = FF
  BY <1>4 DEF Erased, Buffered
<1>6. ASSUME NEW x \in Address, PageOf(x) \notin spoiled'
      PROVE  flash'[x] = image'[x]
  <2>1. CASE PageOf(x) = p
    <3>1. ~standIn /\ flash[x] = FF /\ Offset(x) \in 0 .. PageSize - 1
      BY <1>1, <1>5, <1>6, <2>1, OffsetType
    <3>2. flash'[x] = tmp[Offset(x)]
      BY <1>3, <2>1, <3>1 DEF PageWrite, Program
    <3>3. image'[x] = IF Offset(x) < Len(data) THEN data[Offset(x) + 1] ELSE FF
      BY <1>1, <2>1 DEF BlockImage
    <3> QED
      BY <1>2, <1>5, <3>1, <3>2, <3>3
  <2>2. CASE PageOf(x) # p
    <3>1. flash'[x] = flash[x] /\ image'[x] = image[x]
      BY <1>1, <1>3, <2>2 DEF PageWrite, BlockImage
    <3>2. PageOf(x) \notin spoiled \cup {p}
      BY <1>1, <1>6, <2>2
    <3> QED
      BY <1>5, <3>1, <3>2 DEF Kept
  <2> QED
    BY <2>1, <2>2
<1>7. Kept({})'
  BY <1>6 DEF Kept
<1> QED
  BY <1>1, <1>3, <1>7 DEF Contents, Loaded, Filling, SpmPC

(* Flash and page buffer are left alone while no page is being filled.     *)
LEMMA LeftAlone ==
    ASSUME Contents, pc \notin Filling, UNCHANGED <<flash, tmp, image, spoiled>>
    PROVE  tmp' = EmptyBuffer /\ Kept({})'
<1>1. tmp = EmptyBuffer /\ Kept({})
  BY DEF Contents
<1> QED
  BY <1>1 DEF Kept

(* Every step but an interrupt keeps the contents.                         *)
LEMMA ContentsStep ==
    ASSUME Kinds, Progress, Contents, [Next]_vars, ~Interrupt PROVE Contents'
<1>0. /\ PageSize \in Nat \ {0} /\ CurrAddress \in Nat /\ hostAddress \in Nat
      /\ BlockSize \in Nat /\ data \in Seq(Value) /\ Len(data) \in Nat
      /\ HighByte \in {0, 1}
  BY PageSizeType DEF Kinds
<1>1. ASSUME NEW w \in Base \div 2 .. NoAddress \div 2,
             SetAddress(w) \/ SetAddressCut(w)
      PROVE  Contents'
  <2>1. /\ pc = "idle" /\ pc' = "idle"
        /\ UNCHANGED <<flash, tmp, image, spoiled>>
    BY <1>1 DEF SetAddress, SetAddressCut, spm, host, history
  <2>2. tmp' = EmptyBuffer /\ Kept({})'
    BY <2>1, LeftAlone DEF Filling
  <2> QED
    BY <2>1, <2>2 DEF Contents, Loaded, Filling, SpmPC
<1>2. ASSUME NEW n \in EvenSizes, WriteBlock(n) \/ ReadBlock(n)
      PROVE  Contents'
  <2>1. /\ pc = "idle" /\ pc' \in {"erase", "enable"} /\ armed' = TRUE
        /\ UNCHANGED <<flash, tmp, image, spoiled>>
    BY <1>2 DEF WriteBlock, ReadBlock, HostBegins, BeginBlock, spm
  <2>2. tmp' = EmptyBuffer /\ Kept({})'
    BY <2>1, LeftAlone DEF Filling
  <2> QED
    BY <2>1, <2>2 DEF Contents, Loaded, Filling, SpmPC
<1>3. ASSUME NEW b \in Value, ReadLow(b) \/ ReadHigh(b)
      PROVE  Contents'
  <2>1. /\ ReadByte(b)
        /\ pc = "in"
        /\ UNCHANGED <<CurrAddress, flash, tmp, hostAddress, image, spoiled>>
    BY <1>3 DEF ReadLow, ReadHigh, spm
  <2>2. \/ ~standIn /\ data' = Append(data, b)
        \/ data' = data /\ standIn'
    BY <2>1, ReadsByte, ZenonT(60)
  <2>3. /\ ~standIn' => /\ ~standIn /\ data' = Append(data, b)
                        /\ Len(data') = Len(data) + 1 /\ data'[Len(data) + 1] = b
                        /\ \A i \in 1 .. Len(data) : data'[i] = data[i]
    BY <1>0, <2>2
  <2>4. ~standIn => CurrAddress - hostAddress + HighByte = Len(data)
    BY <2>1 DEF Progress, Moved, Writing, Filling
  <2>5. Erased /\ Buffered /\ Loaded
    BY <2>1 DEF Contents, Filling
  <2>6. Erased'
    BY <2>1, <2>5 DEF Erased, Kept
  <2>7. ASSUME NEW i \in 0 .. PageSize - 1
        PROVE  IF i < CurrAddress' - hostAddress'
               THEN ~standIn' => tmp'[i] = data'[i + 1]
               ELSE tmp'[i] = FF
    <3>1. IF i < CurrAddress - hostAddress
          THEN ~standIn => tmp[i] = data[i + 1]
          ELSE tmp[i] = FF
      BY <2>5 DEF Buffered
    <3>2. CASE i < CurrAddress - hostAddress /\ ~standIn'
      <4>1. i + 1 \in 1 .. Len(data)
        BY <1>0, <2>3, <2>4, <3>2
      <4> QED
        BY <2>1, <2>3, <3>1, <3>2, <4>1
    <3> QED
      BY <2>1, <3>1, <3>2
  <2>8. Buffered'
    BY <2>7 DEF Buffered
  <2>9. CASE ReadLow(b)
    <3>1. pc' = "in" /\ LowByte' = b
      BY <2>1, <2>9 DEF ReadLow
    <3>2. ~standIn' => LowByte' = data'[Len(data')]
      BY <2>3, <3>1
    <3> QED
      BY <2>6, <2>8, <3>1, <3>2 DEF Contents, Loaded, Filling, SpmPC
  <2>10. CASE ReadHigh(b)
    <3>1. /\ pc' = "fill" /\ LowByte' = LowByte /\ NextByte' = b /\ armed' = TRUE
          /\ HighByte = 1
      BY <2>10 DEF ReadHigh
    <3>2. ~standIn' => Len(data) >= 1 /\ LowByte = data[Len(data)]
      <4>1. ~standIn' => ~standIn /\ Len(data) = CurrAddress - hostAddress + 1
        BY <1>0, <2>3, <2>4, <3>1
      <4>2. hostAddress <= CurrAddress
        BY <2>1 DEF Progress
      <4> QED
        BY <1>0, <2>1, <2>5, <3>1, <4>1, <4>2 DEF Loaded
    <3>3. ~standIn' => LowByte' = data'[Len(data') - 1] /\ NextByte' = data'[Len(data')]
      BY <1>0, <2>3, <3>1, <3>2
    <3> QED
      BY <2>6, <2>8, <3>1, <3>3 DEF Contents, Loaded, Filling, SpmPC
  <2> QED
    BY <1>3, <2>9, <2>10
<1>4. CASE EraseSpm
  <2>1. /\ pc = "erase" /\ pc' = "in" /\ armed
        /\ PageStartAddress = hostAddress /\ CurrAddress = hostAddress
        /\ HighByte = 0
        /\ UNCHANGED <<CurrAddress, HighByte, hostAddress, image, data, standIn,
                       spoiled>>
    <3>1. /\ pc = "erase" /\ pc' = "in"
          /\ UNCHANGED <<CurrAddress, HighByte, hostAddress, image, data, standIn,
                         spoiled>>
      BY <1>4 DEF EraseSpm, code, host, history
    <3>2. armed
      BY <3>1 DEF Contents, SpmPC
    <3> QED
      BY <3>1, <3>2 DEF Progress, Writing
  <2>2. tmp = EmptyBuffer /\ Kept({})
    BY <2>1 DEF Contents, Filling
  <2>3. PageErase(hostAddress) /\ tmp' = tmp
    BY <1>4, <2>1, ErasesPage
  <2>4. Erased'
    BY <2>1, <2>3, <2>2 DEF Erased, Kept, PageErase
  <2>5. Buffered'
    BY <1>0, <2>1, <2>3, <2>2 DEF Buffered, EmptyBuffer
  <2> QED
    BY <2>1, <2>4, <2>5 DEF Contents, Loaded, Filling, SpmPC
<1>5. CASE FillSpm
  BY <1>5, FillStep
<1>6. CASE Commit
  <2>1. /\ pc = "in" /\ pc' = "write" /\ armed' = TRUE
        /\ UNCHANGED <<CurrAddress, flash, tmp, hostAddress, image, data, standIn,
                       spoiled>>
    BY <1>6 DEF Commit, code, spm, host, history
  <2>2. Erased /\ Buffered
    BY <2>1 DEF Contents, Filling
  <2>3. Erased' /\ Buffered'
    BY <2>1, <2>2 DEF Erased, Buffered, Kept
  <2> QED
    BY <2>1, <2>3 DEF Contents, Loaded, Filling, SpmPC
<1>7. CASE WriteSpm
  BY <1>7, WriteStep
<1>8. CASE EnableSpm
  <2>1. /\ pc = "enable" /\ pc' = "out"
        /\ UNCHANGED <<flash, hostAddress, image, data, spoiled>>
    BY <1>8 DEF EnableSpm, code, host, history
  <2>2. data = <<>>
    BY <2>1 DEF Progress
  <2>3. armed /\ Kept({})
    BY <2>1 DEF Contents, SpmPC, Filling
  <2>4. rww' = TRUE /\ tmp' = EmptyBuffer
    BY <1>8, <2>3, EnablesSection
  <2>5. Kept({})' /\ Sent'
    BY <2>1, <2>2, <2>3 DEF Kept, Sent
  <2> QED
    BY <2>1, <2>4, <2>5 DEF Contents, Loaded, Filling, SpmPC
<1>9. CASE WriteOut
  <2>1. /\ pc = "out" /\ pc' = "out"
        /\ data' = Append(data, flash[CurrAddress + HighByte])
        /\ UNCHANGED <<flash, tmp, rww, hostAddress, image, spoiled>>
    <3>1. rww /\ pc = "out"
      BY <1>9 DEF WriteOut, Contents
    <3> QED
      BY <1>9, <3>1 DEF WriteOut, ReadFlash, spm, history
  <2>2. rww /\ Sent
    BY <2>1 DEF Contents
  <2>3. Len(data) = CurrAddress - hostAddress + HighByte
    BY <2>1 DEF Progress, Moved, Reading
  <2>4. ASSUME NEW i \in 1 .. Len(data')
        PROVE  data'[i] = flash'[hostAddress' + i - 1]
    <3>1. /\ Len(data') = Len(data) + 1
          /\ data'[i] = IF i \in 1 .. Len(data) THEN data[i]
                        ELSE flash[CurrAddress + HighByte]
      BY <1>0, <2>1
    <3>2. CASE i \in 1 .. Len(data)
      BY <2>1, <2>2, <3>1, <3>2 DEF Sent
    <3>3. CASE i = Len(data) + 1
      <4>1. hostAddress + i - 1 = CurrAddress + HighByte
        BY <1>0, <2>3, <3>3
      <4> QED
        BY <1>0, <2>1, <3>1, <3>3, <4>1
    <3> QED
      BY <1>0, <3>1, <3>2, <3>3
  <2>5. tmp' = EmptyBuffer /\ Kept({})' /\ Sent'
    BY <2>1, <2>4, LeftAlone DEF Filling, Sent
  <2> QED
    BY <2>1, <2>2, <2>5 DEF Contents, Loaded, Filling, SpmPC
<1>10. CASE ReadDone
  <2>1. /\ pc = "out" /\ pc' = "read_done"
        /\ UNCHANGED <<flash, tmp, rww, hostAddress, image, data, spoiled>>
    BY <1>10 DEF ReadDone, spm, host, history
  <2>2. rww /\ Sent
    BY <2>1 DEF Contents
  <2>3. tmp' = EmptyBuffer /\ Kept({})' /\ Sent'
    BY <2>1, <2>2, LeftAlone DEF Filling, Sent
  <2> QED
    BY <2>1, <2>2, <2>3 DEF Contents, Loaded, Filling, SpmPC
<1>11. CASE NextCommand
  <2>1. /\ pc = "read_done" /\ pc' = "idle"
        /\ UNCHANGED <<flash, tmp, image, spoiled>>
    BY <1>11 DEF NextCommand, spm, history
  <2>2. tmp' = EmptyBuffer /\ Kept({})'
    BY <2>1, LeftAlone DEF Filling
  <2> QED
    BY <2>1, <2>2 DEF Contents, Loaded, Filling, SpmPC
<1>12. CASE Attach
  <2>1. /\ pc = "idle" /\ pc' = "idle"
        /\ UNCHANGED <<flash, tmp, image, spoiled>>
    BY <1>12 DEF Attach, spm, history
  <2>2. tmp' = EmptyBuffer /\ Kept({})'
    BY <2>1, LeftAlone DEF Filling
  <2> QED
    BY <2>1, <2>2 DEF Contents, Loaded, Filling, SpmPC
<1>13. CASE Detach \/ UNCHANGED vars
  <2>1. UNCHANGED <<pc, code, spm, armed, host, history>>
    BY <1>13 DEF Detach, vars
  <2>2. (Erased => Erased') /\ (Kept({}) => Kept({})')
    BY <2>1 DEF Erased, Kept, spm, host, history
  <2>3. (Buffered => Buffered') /\ (Loaded => Loaded') /\ (Sent => Sent')
    BY <2>1 DEF Buffered, Loaded, Sent, code, spm, host, history
  <2> QED
    BY <2>1, <2>2, <2>3 DEF Contents, spm
<1> QED
  BY <1>1, <1>2, <1>3, <1>4, <1>5, <1>6, <1>7, <1>8, <1>9, <1>10, <1>11, <1>12,
     <1>13, ZenonT(60) DEF Next

(* The invariant: types, how far the block has come and, while no SPM      *)
(* operation was disturbed, what flash and page buffer hold.               *)
THEOREM Invariance == Spec => []Inv
<1>1. Init => Inv
  <2> SUFFICES ASSUME Init PROVE Inv
    OBVIOUS
  <2>1. PageSize \in Nat \ {0} /\ NoAddress \in Nat /\ Base \in Nat /\ Base <= NoAddress
    BY PageSizeType, SizeAssumption DEF NoAddress
  <2>2. Kinds
    BY <2>1, SizeAssumption
       DEF Init, Kinds, PC, Value, FF, Zero, Junk, EmptyBuffer
  <2>3. Flags
    BY ZenonT(60) DEF Init, Flags
  <2>4. Progress
    BY DEF Init, Progress, AddressInStep, Writing, Filling, Reading
  <2>5. Contents
    BY DEF Init, Contents, Loaded, Filling, SpmPC, Kept
  <2> QED
    BY <2>2, <2>3, <2>4, <2>5 DEF Inv
<1>2. Inv /\ [Next]_vars => Inv'
  <2> SUFFICES ASSUME Inv, [Next]_vars PROVE Inv'
    OBVIOUS
  <2>1. Kinds' /\ Flags' /\ Progress'
    BY KindStep, FlagStep, ProgressStep DEF Inv
  <2>2. ASSUME ~disturbed' PROVE Contents'
    BY <2>2, DisturbedStays, ContentsStep DEF Inv
  <2> QED
    BY <2>1, <2>2 DEF Inv
<1> QED
  BY <1>1, <1>2, PTL DEF Spec

(* ReadWriteMemoryBlock and command 'A' keep every variable in its type:   *)
(* no address leaves the pages, no block counts below zero.                *)
THEOREM TypeCorrect == Spec => []TypeOK
<1>1. Inv => TypeOK
  BY ZenonT(60) DEF Inv, Kinds, Flags, TypeOK
<1> QED
  BY <1>1, Invariance, PTL

(* The automatic increment and command 'A' keep CurrAddress at the address *)
(* the host is at.                                                         *)
THEOREM AddressKept == Spec => []AddressInStep
<1>1. Inv => AddressInStep
  BY DEF Inv, Progress, AddressInStep
<1> QED
  BY <1>1, Invariance, PTL

(* After every block the flash holds what the host sent, unless an SPM     *)
(* operation was disturbed or bytes of the block were missing.             *)
THEOREM FlashHoldsImage == Spec => []FlashIsImage
<1>1. Inv => FlashIsImage
  BY DEF Inv, Contents, Kept, Filling, FlashIsImage
<1> QED
  BY <1>1, Invariance, PTL

(* A block read back is what the flash holds.                              *)
THEOREM ReadsBackFlash == Spec => []ReadBackIsFlash
<1>1. Inv => ReadBackIsFlash
  BY DEF Inv, Contents, Sent, ReadBackIsFlash
<1> QED
  BY <1>1, Invariance, PTL
=============================================================================
