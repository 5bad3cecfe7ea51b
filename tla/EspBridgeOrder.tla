--------------------------- MODULE EspBridgeOrder ---------------------------
(***************************************************************************)
(* For every bank size, ring size, set of END bytes and set of intervals:  *)
(* the bytes between the ESP8266 and the host arrive in order and at most  *)
(* once, in both directions, and every one of the ESP8266 that does not    *)
(* arrive is accounted for.                                                *)
(***************************************************************************)
EXTENDS EspBridgeProofs

(* A leaf that names no prover is given to SMT, with a minute to answer.   *)
USE SMTT(60)

-----------------------------------------------------------------------------
(* Sequences that are in order *)

(* The elements of a concatenation are those of its parts.                 *)
LEMMA ElementsConcat ==
  ASSUME NEW S, NEW s \in Seq(S), NEW t \in Seq(S)
  PROVE  Elements(s \o t) = Elements(s) \cup Elements(t)
<1>1. /\ Len(s) \in Nat /\ DOMAIN s = 1 .. Len(s)
      /\ Len(t) \in Nat /\ DOMAIN t = 1 .. Len(t)
  BY LenProperties
<1>2. /\ s \o t \in Seq(S) /\ DOMAIN (s \o t) = 1 .. Len(s) + Len(t)
      /\ \A i \in 1 .. Len(s) + Len(t) :
           (s \o t)[i] = IF i <= Len(s) THEN s[i] ELSE t[i - Len(s)]
  BY ConcatProperties, LenProperties
<1>3. ASSUME NEW x \in Elements(s \o t) PROVE x \in Elements(s) \cup Elements(t)
  <2>1. PICK i \in 1 .. Len(s) + Len(t) : x = (s \o t)[i]
    BY <1>2, <1>3 DEF Elements
  <2>2. CASE i <= Len(s)
    BY <1>1, <1>2, <2>1, <2>2 DEF Elements
  <2>3. CASE i > Len(s)
    <3>1. i - Len(s) \in 1 .. Len(t)
      BY <1>1, <2>1, <2>3
    <3>2. x = t[i - Len(s)]
      BY <1>1, <1>2, <2>1, <2>3
    <3> QED
      BY <1>1, <3>1, <3>2 DEF Elements
  <2> QED
    BY <1>1, <2>2, <2>3
<1>4. ASSUME NEW x \in Elements(s) PROVE x \in Elements(s \o t)
  <2>1. PICK i \in 1 .. Len(s) : x = s[i]
    BY <1>1, <1>4 DEF Elements
  <2>2. i \in 1 .. Len(s) + Len(t) /\ x = (s \o t)[i]
    BY <1>1, <1>2, <2>1
  <2> QED
    BY <1>2, <2>2 DEF Elements
<1>5. ASSUME NEW x \in Elements(t) PROVE x \in Elements(s \o t)
  <2>1. PICK i \in 1 .. Len(t) : x = t[i]
    BY <1>1, <1>5 DEF Elements
  <2>2. Len(s) + i \in 1 .. Len(s) + Len(t) /\ ~(Len(s) + i <= Len(s))
    BY <1>1, <2>1
  <2>3. Len(s) + i - Len(s) = i
    BY <1>1, <2>1
  <2>4. x = (s \o t)[Len(s) + i]
    BY <1>2, <2>1, <2>2, <2>3
  <2> QED
    BY <1>2, <2>2, <2>4 DEF Elements
<1> QED
  BY <1>3, <1>4, <1>5

\* Every byte of s was sent before every byte of t.
Before(s, t) ==
    \A x \in Elements(s), y \in Elements(t) : x # 0 /\ y # 0 => x < y

(* A concatenation is in order if its parts are, one before the other.     *)
LEMMA IncreasingConcat ==
  ASSUME NEW s \in Seq(Nat), NEW t \in Seq(Nat)
  PROVE  Increasing(s \o t) <=> Increasing(s) /\ Increasing(t) /\ Before(s, t)
<1>1. /\ Len(s) \in Nat /\ DOMAIN s = 1 .. Len(s)
      /\ Len(t) \in Nat /\ DOMAIN t = 1 .. Len(t)
  BY LenProperties
<1>2. /\ DOMAIN (s \o t) = 1 .. Len(s) + Len(t)
      /\ \A i \in 1 .. Len(s) + Len(t) :
           (s \o t)[i] = IF i <= Len(s) THEN s[i] ELSE t[i - Len(s)]
  BY ConcatProperties, LenProperties
<1>3. ASSUME Increasing(s \o t) PROVE Increasing(s)
  <2> SUFFICES ASSUME NEW i \in 1 .. Len(s), NEW j \in 1 .. Len(s),
                      i < j, s[i] # 0, s[j] # 0
               PROVE  s[i] < s[j]
    BY <1>1 DEF Increasing
  <2>1. /\ i \in 1 .. Len(s) + Len(t) /\ j \in 1 .. Len(s) + Len(t)
        /\ i <= Len(s) /\ j <= Len(s)
    BY <1>1
  <2>2. (s \o t)[i] = s[i] /\ (s \o t)[j] = s[j]
    BY <1>2, <2>1
  <2> QED
    BY <1>2, <1>3, <2>1, <2>2, ZenonT(60) DEF Increasing
<1>4. ASSUME Increasing(s \o t) PROVE Increasing(t)
  <2> SUFFICES ASSUME NEW i \in 1 .. Len(t), NEW j \in 1 .. Len(t),
                      i < j, t[i] # 0, t[j] # 0
               PROVE  t[i] < t[j]
    BY <1>1 DEF Increasing
  <2>1. /\ Len(s) + i \in 1 .. Len(s) + Len(t) /\ Len(s) + j \in 1 .. Len(s) + Len(t)
        /\ Len(s) + i < Len(s) + j
        /\ Len(s) + i - Len(s) = i /\ Len(s) + j - Len(s) = j
        /\ ~(Len(s) + i <= Len(s)) /\ ~(Len(s) + j <= Len(s))
    BY <1>1
  <2>2. (s \o t)[Len(s) + i] = t[i] /\ (s \o t)[Len(s) + j] = t[j]
    BY <1>2, <2>1
  <2> QED
    BY <1>2, <1>4, <2>1, <2>2, ZenonT(60) DEF Increasing
<1>5. ASSUME Increasing(s \o t) PROVE Before(s, t)
  <2> SUFFICES ASSUME NEW i \in 1 .. Len(s), NEW j \in 1 .. Len(t), s[i] # 0, t[j] # 0
               PROVE  s[i] < t[j]
    BY <1>1 DEF Before, Elements
  <2>1. /\ i \in 1 .. Len(s) + Len(t) /\ Len(s) + j \in 1 .. Len(s) + Len(t)
        /\ i < Len(s) + j /\ Len(s) + j - Len(s) = j
        /\ i <= Len(s) /\ ~(Len(s) + j <= Len(s))
    BY <1>1
  <2>2. (s \o t)[i] = s[i] /\ (s \o t)[Len(s) + j] = t[j]
    BY <1>2, <2>1
  <2> QED
    BY <1>2, <1>5, <2>1, <2>2, ZenonT(60) DEF Increasing
<1>6. ASSUME Increasing(s), Increasing(t), Before(s, t) PROVE Increasing(s \o t)
  <2> SUFFICES ASSUME NEW i \in 1 .. Len(s) + Len(t), NEW j \in 1 .. Len(s) + Len(t),
                      i < j, (s \o t)[i] # 0, (s \o t)[j] # 0
               PROVE  (s \o t)[i] < (s \o t)[j]
    BY <1>2, ZenonT(60) DEF Increasing
  <2>1. CASE j <= Len(s)
    <3>1. i \in DOMAIN s /\ j \in DOMAIN s
      BY <1>1, <2>1
    <3>2. (s \o t)[i] = s[i] /\ (s \o t)[j] = s[j]
      BY <1>1, <1>2, <2>1
    <3> QED
      BY <1>6, <3>1, <3>2 DEF Increasing
  <2>2. CASE i > Len(s)
    <3>1. /\ i - Len(s) \in 1 .. Len(t) /\ j - Len(s) \in 1 .. Len(t)
          /\ i - Len(s) < j - Len(s)
      BY <1>1, <2>2
    <3>2. (s \o t)[i] = t[i - Len(s)] /\ (s \o t)[j] = t[j - Len(s)]
      BY <1>1, <1>2, <2>2
    <3> QED
      BY <1>1, <1>6, <3>1, <3>2, ZenonT(60) DEF Increasing
  <2>3. CASE i <= Len(s) /\ j > Len(s)
    <3>1. i \in DOMAIN s /\ j - Len(s) \in DOMAIN t
      BY <1>1, <2>3
    <3>2. (s \o t)[i] = s[i] /\ (s \o t)[j] = t[j - Len(s)]
      BY <1>1, <1>2, <2>3
    <3> QED
      BY <1>6, <3>1, <3>2 DEF Before, Elements
  <2> QED
    BY <1>1, <2>1, <2>2, <2>3
<1> QED
  BY <1>3, <1>4, <1>5, <1>6

(* No byte, and one byte, are in order.                                    *)
LEMMA IncreasingShort ==
  /\ Increasing(<<>>) /\ Elements(<<>>) = {}
  /\ \A x : Increasing(<<x>>) /\ Elements(<<x>>) = {x}
BY DEF Increasing, Elements

(* Bytes that go from the middle of a stream leave the rest in order, and  *)
(* are none of the rest.                                                   *)
LEMMA DropMiddle ==
  ASSUME NEW a \in Seq(Nat), NEW b \in Seq(Nat), NEW c \in Seq(Nat),
         Increasing(a \o b \o c)
  PROVE  /\ Increasing(a \o c)
         /\ Elements(a \o b \o c) = Elements(a \o c) \cup Elements(b)
         /\ \A x \in Elements(a \o c) \cap Elements(b) : x = 0
<1>1. a \o b \in Seq(Nat) /\ a \o c \in Seq(Nat)
  BY ConcatProperties
<1>2. Elements(a \o b) = Elements(a) \cup Elements(b)
  BY ElementsConcat
<1>3. Elements(a \o c) = Elements(a) \cup Elements(c)
  BY ElementsConcat
<1>4. Elements(a \o b \o c) = Elements(a \o b) \cup Elements(c)
  <2> DEFINE ab == a \o b
  <2> HIDE DEF ab
  <2>1. ab \in Seq(Nat)
    BY <1>1 DEF ab
  <2>2. Elements(ab \o c) = Elements(ab) \cup Elements(c)
    BY <2>1, ElementsConcat
  <2> QED
    BY <2>2 DEF ab
<1>5. Increasing(a \o b) /\ Increasing(c) /\ Before(a \o b, c)
  BY <1>1, IncreasingConcat, ZenonT(60)
<1>6. Increasing(a) /\ Increasing(b) /\ Before(a, b)
  BY <1>5, IncreasingConcat
<1>7. Before(a, c) /\ Before(b, c)
  BY <1>2, <1>5 DEF Before
<1>8. Increasing(a \o c)
  BY <1>5, <1>6, <1>7, IncreasingConcat
<1>9. \A x \in Elements(b) : x \in Nat
  BY LenProperties, ElementOfSeq DEF Elements
<1>10. \A x \in Elements(a \o c) \cap Elements(b) : x = 0
  BY <1>3, <1>6, <1>7, <1>9 DEF Before
<1> QED
  BY <1>2, <1>3, <1>4, <1>8, <1>10

(* Concatenation of sequences of bytes.                                    *)
LEMMA Joining ==
  /\ \A s, t \in Seq(Nat) :
       s \o t \in Seq(Nat) /\ Elements(s \o t) = Elements(s) \cup Elements(t)
  /\ \A s, t, u \in Seq(Nat) : (s \o t) \o u = s \o (t \o u)
  /\ \A s \in Seq(Nat) : s \o <<>> = s /\ <<>> \o s = s
<1>1. \A s, t \in Seq(Nat) : s \o t \in Seq(Nat)
  BY ConcatProperties
<1>2. \A s, t \in Seq(Nat) : Elements(s \o t) = Elements(s) \cup Elements(t)
  BY ElementsConcat
<1>3. \A s, t, u \in Seq(Nat) : (s \o t) \o u = s \o (t \o u)
  BY ConcatAssociative, SMTT(60)
<1>4. \A s \in Seq(Nat) : s \o <<>> = s /\ <<>> \o s = s
  BY ConcatEmptySeq
<1> QED
  BY <1>1, <1>2, <1>3, <1>4, ZenonT(60)

-----------------------------------------------------------------------------
(* ESP8266 to host *)

\* The bytes on their way to the host, in the order in which it gets them.
Stream == got \o bank \o hold \o queue

(* What is needed beside the order itself: a byte in hand is one byte.     *)
Carried == got \in Seq(1 .. MaxIn) /\ Len(hold) <= 1

\* What a step may do with the stream.
Kept == Stream' = Stream /\ UNCHANGED <<lost, nextIn>>

Dropped ==
    \E a, b, c \in Seq(1 .. MaxIn) :
        /\ Stream = a \o b \o c /\ Stream' = a \o c
        /\ Lose(b) /\ UNCHANGED nextIn

Received ==
    /\ nextIn \in 1 .. MaxIn /\ nextIn' = nextIn + 1
    /\ \/ Stream' = Append(Stream, nextIn) /\ UNCHANGED lost
       \/ Stream' = Stream /\ Lose(<<nextIn>>)

(* It does not matter how the parts of a stream are bracketed.             *)
LEMMA Regroup == \A s, t, u \in Seq(1 .. MaxIn) : (s \o t) \o u = s \o (t \o u)
BY ConcatAssociative, SMTT(60)

(* A sequence that holds one byte at most is empty or that byte.           *)
LEMMA OneByte ==
  ASSUME NEW S, NEW s \in Seq(S), s # <<>>, Len(s) <= 1
  PROVE  s = <<Head(s)>> /\ Head(s) \in S
<1>1. Len(s) \in Nat \ {0}
  BY EmptySeq
<1>2. Len(s) = 1
  BY <1>1
<1>3. Head(s) = s[1] /\ s[1] \in S
  BY <1>2, ElementOfSeq
<1>4. <<s[1]>> \in Seq(S) /\ Len(<<s[1]>>) = 1 /\ <<s[1]>>[1] = s[1]
  BY <1>3
<1>5. s = <<s[1]>>
  BY <1>2, <1>4, SeqEqual
<1> QED
  BY <1>3, <1>5

(* A byte moves on from the ring to the hand, from the hand to the bank,   *)
(* from the bank to the host: the stream is the same.                      *)
LEMMA MovesOn ==
  ASSUME Shape, Carried
  PROVE  /\ Ring!Take /\ UNCHANGED <<got, bank>> => Stream' = Stream
         /\ hold # <<>> /\ bank' = Append(bank, Head(hold)) /\ Ring!PassOn
              /\ UNCHANGED got => Stream' = Stream
         /\ got' = got \o bank /\ bank' = <<>> /\ UNCHANGED <<hold, queue>>
              => Stream' = Stream
<1> DEFINE S == Seq(1 .. MaxIn)
<1>1. got \in S /\ bank \in S /\ hold \in S /\ queue \in S
  BY DEF Shape, Carried
<1>2. got \o bank \in S /\ got \o bank \o hold \in S
  BY <1>1, ConcatProperties
<1>3. ASSUME Ring!Take, UNCHANGED <<got, bank>> PROVE Stream' = Stream
  <2>1. /\ queue # <<>> /\ hold = <<>> /\ hold' = <<Head(queue)>>
        /\ queue' = Tail(queue) /\ got' = got /\ bank' = bank
    BY <1>3 DEF Ring!Take
  <2>2. Head(queue) \in 1 .. MaxIn /\ Tail(queue) \in S /\ <<Head(queue)>> \in S
    <3>1. Head(queue) \in 1 .. MaxIn /\ Tail(queue) \in S
      BY <1>1, <2>1, HeadTailProperties, ZenonT(60)
    <3> QED
      BY <3>1
  <2>3. queue = <<Head(queue)>> \o Tail(queue)
    BY <1>1, <2>1
  <2>4. got \o bank \o hold = got \o bank
    BY <1>2, <2>1, ConcatEmptySeq
  <2>5. (got \o bank \o <<Head(queue)>>) \o Tail(queue)
          = (got \o bank) \o (<<Head(queue)>> \o Tail(queue))
    <3> DEFINE f == got \o bank
               h == <<Head(queue)>>
               t == Tail(queue)
    <3> HIDE DEF f, h, t
    <3>1. f \in S /\ h \in S /\ t \in S
      BY <1>2, <2>2 DEF f, h, t
    <3>2. (f \o h) \o t = f \o (h \o t)
      BY <3>1, Regroup
    <3> QED
      BY <3>2, ZenonT(60) DEF f, h, t
  <2> QED
    BY <2>1, <2>3, <2>4, <2>5 DEF Stream
<1>4. ASSUME hold # <<>>, bank' = Append(bank, Head(hold)), Ring!PassOn, UNCHANGED got
      PROVE  Stream' = Stream
  <2>1. hold' = <<>> /\ queue' = queue /\ got' = got
    BY <1>4 DEF Ring!PassOn
  <2>2. hold = <<Head(hold)>> /\ Head(hold) \in 1 .. MaxIn
    BY <1>1, <1>4, OneByte, ZenonT(60) DEF Carried
  <2>3. bank' = bank \o hold
    BY <1>1, <1>4, <2>2, AppendIsConcat, ZenonT(60)
  <2>4. got \o (bank \o hold) = got \o bank \o hold /\ got \o (bank \o hold) \in S
    <3>1. (got \o bank) \o hold = got \o (bank \o hold)
      BY <1>1, Regroup
    <3> QED
      BY <1>2, <3>1
  <2>5. got' \o bank' \o hold' = got \o bank \o hold
    BY <2>1, <2>3, <2>4, ConcatEmptySeq
  <2> QED
    BY <2>1, <2>5, ZenonT(60) DEF Stream
<1>5. ASSUME got' = got \o bank, bank' = <<>>, UNCHANGED <<hold, queue>>
      PROVE  Stream' = Stream
  <2>1. got' \o bank' = got \o bank
    BY <1>2, <1>5, ConcatEmptySeq
  <2> QED
    BY <1>5, <2>1 DEF Stream
<1> QED
  BY <1>3, <1>4, <1>5

(* Emptying the ring, giving up the byte in hand and configuring the       *)
(* endpoint again each take a part out of the stream.                      *)
LEMMA TakenOut ==
  ASSUME Shape, Carried, UNCHANGED <<got, nextIn>>
  PROVE  /\ queue' = <<>> /\ UNCHANGED <<bank, hold>> /\ Lose(queue) => Dropped
         /\ hold' = <<>> /\ UNCHANGED <<bank, queue>> /\ Lose(hold) => Dropped
         /\ bank' = <<>> /\ UNCHANGED <<hold, queue>> /\ Lose(bank) => Dropped
<1> DEFINE S == Seq(1 .. MaxIn)
<1>1. /\ got \in S /\ bank \in S /\ hold \in S /\ queue \in S
      /\ got' = got /\ nextIn' = nextIn
  BY DEF Shape, Carried
<1>2. <<>> \in S /\ got \o bank \in S /\ got \o bank \o hold \in S
  BY <1>1, ConcatProperties, EmptySeq
<1>3. Stream \in S
  BY <1>1, <1>2, ConcatProperties DEF Stream
<1>4. ASSUME queue' = <<>>, UNCHANGED <<bank, hold>>, Lose(queue) PROVE Dropped
  <2> DEFINE a == got \o bank \o hold
  <2>1. Stream = a \o queue /\ Stream' = a \o <<>> /\ a \in S
    BY <1>1, <1>2, <1>4 DEF Stream
  <2> HIDE DEF a
  <2>2. a \o queue = a \o queue \o <<>>
    BY <1>3, <2>1, ConcatEmptySeq
  <2> QED
    BY <1>1, <1>2, <1>4, <2>1, <2>2, ZenonT(60) DEF Dropped
<1>5. ASSUME hold' = <<>>, UNCHANGED <<bank, queue>>, Lose(hold) PROVE Dropped
  <2> DEFINE a == got \o bank
  <2>1. /\ Stream = a \o hold \o queue /\ Stream' = a \o <<>> \o queue /\ a \in S
    BY <1>1, <1>2, <1>5 DEF Stream
  <2> HIDE DEF a
  <2>2. a \o <<>> = a
    BY <2>1, ConcatEmptySeq
  <2> QED
    BY <1>1, <1>5, <2>1, <2>2, ZenonT(60) DEF Dropped
<1>6. ASSUME bank' = <<>>, UNCHANGED <<hold, queue>>, Lose(bank) PROVE Dropped
  <2> DEFINE c == hold \o queue
  <2>1. c \in S
    BY <1>1, ConcatProperties
  <2>2. Stream = (got \o bank) \o c
    <3> DEFINE a == got \o bank
    <3> HIDE DEF a
    <3>1. a \in S
      BY <1>2 DEF a
    <3>2. (a \o hold) \o queue = a \o (hold \o queue)
      BY <1>1, <3>1, Regroup, ZenonT(60)
    <3> QED
      BY <3>2 DEF Stream, a
  <2>3. Stream' = got \o c
    <3>1. Stream' = (got \o <<>>) \o hold \o queue
      BY <1>1, <1>6 DEF Stream
    <3>2. got \o <<>> = got
      BY <1>1, ConcatEmptySeq
    <3>3. (got \o hold) \o queue = got \o (hold \o queue)
      BY <1>1, Regroup, SMTT(60)
    <3> QED
      BY <3>1, <3>2, <3>3
  <2> HIDE DEF c
  <2> QED
    BY <1>1, <1>6, <2>1, <2>2, <2>3, ZenonT(60) DEF Dropped
<1> QED
  BY <1>4, <1>5, <1>6

(* A byte from the ESP8266 goes to the end of the stream or is lost.       *)
LEMMA Arrives == ASSUME Shape, Carried, EspSends PROVE Received
<1> DEFINE S == Seq(1 .. MaxIn)
<1>1. got \in S /\ bank \in S /\ hold \in S /\ queue \in S
  BY DEF Shape, Carried
<1>2. /\ nextIn \in 1 .. MaxIn /\ nextIn' = nextIn + 1
      /\ got' = got /\ bank' = bank
  BY DEF EspSends, Shape, inEp
<1>3. CASE Ring!Accept(nextIn) /\ UNCHANGED lost
  <2>1. queue' = Append(queue, nextIn) /\ hold' = hold
    BY <1>3 DEF Ring!Accept
  <2> DEFINE a == got \o bank \o hold
  <2>2. a \in S /\ Stream = a \o queue /\ Stream' = a \o queue'
    BY <1>1, <1>2, <2>1, ConcatProperties DEF Stream
  <2> HIDE DEF a
  <2>3. queue' = queue \o <<nextIn>> /\ <<nextIn>> \in S /\ a \o queue \in S
    BY <1>1, <1>2, <2>1, <2>2, AppendIsConcat, ConcatProperties
  <2>4. a \o (queue \o <<nextIn>>) = (a \o queue) \o <<nextIn>>
    <3>1. a \in S /\ queue \in S /\ <<nextIn>> \in S
      BY <1>1, <2>2, <2>3
    <3> QED
      BY <3>1, Regroup
  <2>5. Append(a \o queue, nextIn) = (a \o queue) \o <<nextIn>>
    BY <1>2, <2>3, AppendIsConcat
  <2> QED
    BY <1>2, <1>3, <2>2, <2>3, <2>4, <2>5 DEF Received
<1>4. CASE Lose(<<nextIn>>) /\ UNCHANGED ring
  BY <1>2, <1>4 DEF Received, Stream, ring
<1> QED
  BY <1>3, <1>4, ZenonT(60) DEF EspSends

(* Every step keeps the stream, takes a part out of it, or appends to it.  *)
LEMMA StreamStep ==
  ASSUME Shape, Carried, [Next]_vars
  PROVE  Kept \/ Dropped \/ Received
<1>1. UNCHANGED <<got, bank, hold, queue, lost, nextIn>> => Kept
  BY ZenonT(60) DEF Kept, Stream
<1>2. CASE WriteNow \/ WriteReady
  <2>1. /\ hold # <<>> /\ bank' = Append(bank, Head(hold)) /\ Ring!PassOn
        /\ got' = got /\ lost' = lost /\ nextIn' = nextIn
    BY <1>2, ZenonT(60) DEF WriteNow, WriteReady, AfterWrite, Ring!PassOn, env
  <2> QED
    BY <2>1, MovesOn, ZenonT(60) DEF Kept
<1>3. CASE WriteGivenUp
  <2>1. /\ hold' = <<>> /\ queue' = queue /\ bank' = bank /\ Lose(hold)
        /\ got' = got /\ nextIn' = nextIn
    BY <1>3, ZenonT(60) DEF WriteGivenUp, AfterWrite, Ring!PassOn, inEp, env
  <2> QED
    BY <2>1, TakenOut, ZenonT(60)
<1>4. CASE TaskTake \/ BridgeIterate
  <2>1. /\ got' = got /\ bank' = bank /\ lost' = lost /\ nextIn' = nextIn
        /\ Ring!Take \/ UNCHANGED <<queue, hold>>
    BY <1>4, ZenonT(60) DEF TaskTake, BridgeIterate, ring, inEp, env, history
  <2> QED
    BY <1>1, <2>1, MovesOn, ZenonT(60) DEF Kept
<1>5. CASE EnterProgrammer \/ BootBytes \/ Settled
  <2>1. /\ queue' = <<>> /\ hold' = hold /\ bank' = bank /\ Lose(queue)
        /\ got' = got /\ nextIn' = nextIn
    BY <1>5, ZenonT(60)
    DEF EnterProgrammer, BootBytes, Settled, Ring!BeginClear, Ring!Clear, inEp, env
  <2> QED
    BY <2>1, TakenOut, ZenonT(60)
<1>6. CASE Plug
  <2>1. /\ bank' = <<>> /\ hold' = hold /\ queue' = queue /\ Lose(bank)
        /\ got' = got /\ nextIn' = nextIn
    BY <1>6, ZenonT(60) DEF Plug, ring
  <2> QED
    BY <2>1, TakenOut, ZenonT(60)
<1>7. CASE HostCollects
  <2>1. /\ got' = got \o bank /\ bank' = <<>> /\ hold' = hold /\ queue' = queue
        /\ lost' = lost /\ nextIn' = nextIn
    BY <1>7, ZenonT(60) DEF HostCollects, ring, env, history
  <2> QED
    BY <2>1, MovesOn, ZenonT(60) DEF Kept
<1>8. CASE EspSends
  BY <1>8, Arrives, ZenonT(60)
<1>9. CASE \/ TaskEmpty \/ WriteFull
           \/ FlushEmpty \/ FlushBytes \/ FlushFull \/ FlushDone
  BY <1>1, <1>9, ZenonT(60)
  DEF TaskEmpty, WriteFull, FlushEmpty, FlushBytes, FlushFull, FlushDone, ClearIN,
      ring, inEp, env, history
<1>10. CASE \/ NothingIn \/ BridgeBusy \/ SomethingIn
            \/ ReadAvailable \/ ReadPolls \/ ReadStandIn \/ Putch
  BY <1>1, <1>10, ZenonT(60)
  DEF NothingIn, BridgeBusy, SomethingIn, ReadAvailable, ReadPolls, ReadStandIn,
      Putch, ring, inEp, env, history
<1>11. CASE \/ BootFirst \/ BootDone \/ BridgeExit \/ BackToTask
            \/ RunTasks \/ MainResetsEsp
  BY <1>1, <1>11, ZenonT(60)
  DEF BootFirst, BootDone, BridgeExit, BackToTask, RunTasks, MainResetsEsp,
      Ring!EndClear, ring, inEp, env, history
<1>12. CASE TIMER1_COMPA \/ UartSends \/ HostPulsesRts \/ Unplug
  BY <1>1, <1>12, ZenonT(60)
  DEF TIMER1_COMPA, UartSends, HostPulsesRts, Unplug, ring, inEp, env, history
<1>13. ASSUME NEW n \in 0 .. EpSize, HostSends(n) PROVE Kept
  BY <1>1, <1>13, ZenonT(60) DEF HostSends, ring, inEp, history
<1>14. CASE UNCHANGED vars
  BY <1>1, <1>14, ZenonT(60) DEF vars, ring, inEp, env, history
<1> QED
  BY <1>2, <1>3, <1>4, <1>5, <1>6, <1>7, <1>8, <1>9, <1>10, <1>11, <1>12,
     <1>13,
     <1>14, ZenonT(60)
  DEF Next, Main, Environment

(* The byte in hand stays one byte, and the host gets bytes.               *)
LEMMA CarriedStep == ASSUME Shape, Carried, [Next]_vars PROVE Carried'
<1>1. hold' \in {hold, <<>>, <<Head(queue)>>}
  <2>1. ASSUME NEW n \in 0 .. EpSize, HostSends(n) PROVE hold' = hold
    BY <2>1, ZenonT(60) DEF HostSends, ring
  <2>2. CASE UNCHANGED vars
    BY <2>2, ZenonT(60) DEF vars, ring
  <2>3. CASE Main
    BY <2>3, ZenonT(60)
    DEF Main, TaskTake, TaskEmpty, BridgeIterate, WriteNow, WriteFull, WriteReady,
        WriteGivenUp, FlushEmpty, FlushBytes, FlushFull, FlushDone, NothingIn,
        BridgeBusy, SomethingIn, ReadAvailable, ReadPolls, ReadStandIn, Putch,
        EnterProgrammer, BootFirst, BootBytes, BootDone, BridgeExit, Settled,
        BackToTask, RunTasks, MainResetsEsp, AfterWrite, Ring!Take, Ring!PassOn,
        Ring!BeginClear, Ring!EndClear, Ring!Clear, ring
  <2>4. CASE \/ TIMER1_COMPA \/ UartSends \/ HostCollects
             \/ EspSends \/ HostPulsesRts \/ Unplug \/ Plug
    BY <2>4, ZenonT(60)
    DEF TIMER1_COMPA, UartSends, HostCollects, EspSends, HostPulsesRts, Unplug, Plug,
        Ring!Accept, ring
  <2> QED
    BY <2>1, <2>2, <2>3, <2>4, ZenonT(60) DEF Next, Environment
<1>2. got' \in {got, got \o bank}
  <2>1. ASSUME NEW n \in 0 .. EpSize, HostSends(n) PROVE got' = got
    BY <2>1, ZenonT(60) DEF HostSends, inEp
  <2>2. CASE UNCHANGED vars
    BY <2>2, ZenonT(60) DEF vars, inEp
  <2>3. CASE Main
    BY <2>3, ZenonT(60)
    DEF Main, TaskTake, TaskEmpty, BridgeIterate, WriteNow, WriteFull, WriteReady,
        WriteGivenUp, FlushEmpty, FlushBytes, FlushFull, FlushDone, NothingIn,
        BridgeBusy, SomethingIn, ReadAvailable, ReadPolls, ReadStandIn, Putch,
        EnterProgrammer, BootFirst, BootBytes, BootDone, BridgeExit, Settled,
        BackToTask, RunTasks, MainResetsEsp, ClearIN, inEp
  <2>4. CASE \/ TIMER1_COMPA \/ UartSends \/ HostCollects
             \/ EspSends \/ HostPulsesRts \/ Unplug \/ Plug
    BY <2>4, ZenonT(60)
    DEF TIMER1_COMPA, UartSends, HostCollects, EspSends, HostPulsesRts, Unplug, Plug,
        inEp
  <2> QED
    BY <2>1, <2>2, <2>3, <2>4, ZenonT(60) DEF Next, Environment
<1>3. got \o bank \in Seq(1 .. MaxIn)
  BY ConcatProperties DEF Shape, Carried
<1>4. Len(hold') <= 1
  <2>1. CASE hold' = hold
    BY <2>1 DEF Carried
  <2>2. CASE hold' = <<>>
    BY <2>2
  <2>3. CASE hold' = <<Head(queue)>>
    BY <2>3
  <2> QED
    BY <1>1, <2>1, <2>2, <2>3
<1> QED
  BY <1>2, <1>3, <1>4, ZenonT(60) DEF Carried

(* Bytes that move on, are dropped or are received leave the stream in     *)
(* order and the account complete.                                         *)
LEMMA OrderStep ==
  ASSUME Shape, Carried, HostGetsInOrder, [Next]_vars
  PROVE  HostGetsInOrder'
<1> DEFINE S == Seq(1 .. MaxIn)
<1>1. /\ Increasing(Stream) /\ Elements(Stream) \cap lost = {}
      /\ Elements(Stream) \cup lost = 1 .. nextIn - 1
  BY ZenonT(60) DEF HostGetsInOrder, Stream
<1>2. SUFFICES /\ Increasing(Stream') /\ Elements(Stream') \cap lost' = {}
               /\ Elements(Stream') \cup lost' = 1 .. nextIn' - 1
  BY ZenonT(60) DEF HostGetsInOrder, Stream
<1>3. Stream \in S
  <2>1. got \in S /\ bank \in S /\ hold \in S /\ queue \in S
    BY DEF Shape, Carried
  <2>2. got \o bank \in S
    BY <2>1, ConcatProperties
  <2>3. got \o bank \o hold \in S
    BY <2>1, <2>2, ConcatProperties
  <2> QED
    BY <2>1, <2>3, ConcatProperties DEF Stream
<1>4. 1 .. MaxIn \subseteq Nat /\ nextIn \in Nat
  BY LimitAssumption DEF Shape
<1>5. CASE Kept
  BY <1>1, <1>5 DEF Kept
<1>6. CASE Dropped
  <2>1. PICK a, b, c \in S : /\ Stream = a \o b \o c /\ Stream' = a \o c
                             /\ Lose(b) /\ UNCHANGED nextIn
    BY <1>6, ZenonT(60) DEF Dropped
  <2>2. a \in Seq(Nat) /\ b \in Seq(Nat) /\ c \in Seq(Nat)
    BY <1>4, SeqMonotonic, ZenonT(60)
  <2>3. /\ Increasing(Stream')
        /\ Elements(Stream) = Elements(Stream') \cup Elements(b)
        /\ \A x \in Elements(Stream') \cap Elements(b) : x = 0
    BY <1>1, <2>1, <2>2, DropMiddle
  <2>4. 0 \notin Elements(Stream)
    BY <1>1, <1>4
  <2>5. lost' = lost \cup Elements(b) /\ nextIn' = nextIn
    BY <2>1 DEF Lose
  <2> QED
    BY <1>1, <2>3, <2>4, <2>5
<1>7. CASE Received
  <2>1. nextIn' = nextIn + 1 /\ nextIn \in 1 .. MaxIn
    BY <1>7 DEF Received
  <2>2. 1 .. nextIn' - 1 = (1 .. nextIn - 1) \cup {nextIn}
    BY <1>4, <2>1
  <2>3. nextIn \notin Elements(Stream) \cup lost
    BY <1>1, <1>4
  <2>4. CASE Stream' = Append(Stream, nextIn) /\ UNCHANGED lost
    <3>1. Stream \in Seq(Nat)
      BY <1>3, <1>4, SeqMonotonic, ZenonT(60)
    <3>2. <<nextIn>> \in Seq(Nat)
      BY <1>4
    <3>3. Stream' = Stream \o <<nextIn>>
      BY <1>4, <2>4, <3>1, AppendIsConcat
    <3>4. Elements(Stream') = Elements(Stream) \cup {nextIn}
      <4>1. Elements(Stream \o <<nextIn>>) = Elements(Stream) \cup Elements(<<nextIn>>)
        BY <3>1, <3>2, Joining, ZenonT(60)
      <4> QED
        BY <3>3, <4>1, IncreasingShort
    <3>5. Before(Stream, <<nextIn>>)
      BY <1>1, <1>4, IncreasingShort DEF Before
    <3>6. Increasing(Stream')
      BY <1>1, <3>1, <3>2, <3>3, <3>5, IncreasingConcat, IncreasingShort,
         ZenonT(60)
    <3> QED
      BY <1>1, <2>2, <2>3, <2>4, <3>4, <3>6
  <2>5. CASE Stream' = Stream /\ Lose(<<nextIn>>)
    <3>1. lost' = lost \cup {nextIn}
      BY <2>5, IncreasingShort DEF Lose
    <3> QED
      BY <1>1, <2>2, <2>3, <2>5, <3>1
  <2> QED
    BY <1>7, <2>4, <2>5 DEF Received
<1> QED
  BY <1>5, <1>6, <1>7, StreamStep

(* The bytes of the ESP8266 reach the host in order, none twice, and every *)
(* one that does not is accounted for, whatever waits were abandoned, and  *)
(* however often the mode changed and the cable was pulled.                *)
THEOREM HostOrder == Spec => []HostGetsInOrder
<1>1. Init => Carried /\ HostGetsInOrder
  <2> SUFFICES ASSUME Init PROVE Carried /\ HostGetsInOrder
    OBVIOUS
  <2>1. /\ got = <<>> /\ bank = <<>> /\ hold = <<>> /\ queue = <<>>
        /\ lost = {} /\ nextIn = 1
    BY ZenonT(60) DEF Init, Ring!Init
  <2>2. <<>> \o <<>> \o <<>> \o <<>> = <<>>
    OBVIOUS
  <2>3. 1 .. 1 - 1 = {}
    OBVIOUS
  <2> QED
    BY <2>1, <2>2, <2>3, IncreasingShort DEF Carried, HostGetsInOrder
<1>2. Inv /\ Carried /\ HostGetsInOrder /\ [Next]_vars => (Carried /\ HostGetsInOrder)'
  BY CarriedStep, OrderStep, ZenonT(60) DEF Inv
<1> QED
  BY <1>1, <1>2, Invariance, PTL DEF Spec

-----------------------------------------------------------------------------
(* Host to ESP8266 *)

\* The bytes on their way to the ESP8266, in the order in which it gets them.
OutStream == toEsp \o udr \o ch \o obank

(* What the order rests on: an acknowledged bank is empty, so that a new   *)
(* packet replaces nothing; CDC_Task holds a byte only for putch, and the  *)
(* bridge reads one only when UDR1 is free; a byte that was seen is there  *)
(* when it is read, unless the cable was pulled.                           *)
OutShape ==
    /\ toEsp \in Seq(Nat) /\ udr \in Seq(Nat) /\ ch \in Seq(Nat)
    /\ obank \in Seq(Nat) /\ nextOut \in Nat \ {0}
    /\ ~received => obank = <<>>
    /\ pc # "put" => ch = <<>>
    /\ pc = "read" /\ mode = "bridge" => udr = <<>>
    /\ pc = "read" /\ plugs = 0 => Available

(* Nothing is on its way that the host has not sent.                       *)
OutSent == Elements(OutStream) \subseteq 0 .. nextOut - 1

\* What a step may do with the bytes on their way.
Packet(k, n) == [i \in 1 .. n |-> k + i - 1]

OutKept == OutStream' = OutStream /\ UNCHANGED <<nextOut, plugs>>

OutGrows ==
    \E n \in Nat :
        /\ OutStream' = OutStream \o Packet(nextOut, n)
        /\ nextOut' = nextOut + n /\ UNCHANGED plugs

OutStandIn ==
    OutStream' = OutStream \o <<0>> /\ plugs # 0 /\ UNCHANGED <<nextOut, plugs>>

OutCut ==
    /\ \E b \in Seq(Nat) : OutStream' \in Seq(Nat) /\ OutStream = OutStream' \o b
    /\ plugs' # 0 /\ UNCHANGED nextOut

(* A packet is in order, and continues the bytes sent before it.           *)
LEMMA PacketFacts ==
  ASSUME NEW k \in Nat \ {0}, NEW n \in Nat
  PROVE  /\ Packet(k, n) \in Seq(Nat) /\ Increasing(Packet(k, n))
         /\ Elements(Packet(k, n)) = k .. k + n - 1
         /\ Packet(1, k - 1) \o Packet(k, n) = Packet(1, k + n - 1)
<1>1. \A j \in Nat \ {0}, m \in Nat :
        /\ Packet(j, m) \in Seq(Nat) /\ Len(Packet(j, m)) = m
        /\ \A i \in 1 .. m : Packet(j, m)[i] = j + i - 1
        /\ DOMAIN Packet(j, m) = 1 .. m
  BY DEF Packet
<1>2. Increasing(Packet(k, n))
  BY <1>1 DEF Increasing
<1>3. Elements(Packet(k, n)) = k .. k + n - 1
  <2>1. ASSUME NEW x \in k .. k + n - 1 PROVE x \in Elements(Packet(k, n))
    <3>1. x - k + 1 \in 1 .. n /\ k + (x - k + 1) - 1 = x
      OBVIOUS
    <3>2. Packet(k, n)[x - k + 1] = x
      BY <1>1, <3>1, ZenonT(60)
    <3> QED
      BY <1>1, <3>1, <3>2 DEF Elements
  <2>2. ASSUME NEW x \in Elements(Packet(k, n)) PROVE x \in k .. k + n - 1
    <3>1. PICK i \in 1 .. n : x = Packet(k, n)[i]
      BY <1>1 DEF Elements
    <3>2. x = k + i - 1
      BY <1>1, <3>1
    <3> QED
      BY <3>2
  <2> QED
    BY <2>1, <2>2, ZenonT(60)
<1>4. Packet(1, k - 1) \o Packet(k, n) = Packet(1, k + n - 1)
  <2> DEFINE s == Packet(1, k - 1)
             t == Packet(k, n)
             u == Packet(1, k + n - 1)
  <2>1. /\ s \in Seq(Nat) /\ Len(s) = k - 1 /\ \A i \in 1 .. k - 1 : s[i] = i
        /\ t \in Seq(Nat) /\ Len(t) = n /\ \A i \in 1 .. n : t[i] = k + i - 1
        /\ u \in Seq(Nat) /\ Len(u) = k + n - 1
        /\ \A i \in 1 .. k + n - 1 : u[i] = i
    <3>1. k - 1 \in Nat /\ k + n - 1 \in Nat
      OBVIOUS
    <3>2. \A m \in Nat : \A i \in 1 .. m : Packet(1, m)[i] = i
      BY DEF Packet
    <3>3. \A m \in Nat : Packet(1, m) \in Seq(Nat) /\ Len(Packet(1, m)) = m
      BY <1>1
    <3>4. t \in Seq(Nat) /\ Len(t) = n /\ \A i \in 1 .. n : t[i] = k + i - 1
      BY <1>1
    <3> QED
      BY <3>1, <3>2, <3>3, <3>4, ZenonT(60)
  <2> HIDE DEF s, t, u
  <2>2. /\ s \o t \in Seq(Nat) /\ Len(s \o t) = k + n - 1
        /\ \A i \in 1 .. k + n - 1 :
             (s \o t)[i] = IF i <= k - 1 THEN s[i] ELSE t[i - (k - 1)]
    <3>1. Len(s) + Len(t) = k + n - 1
      BY <2>1
    <3>2. /\ s \o t \in Seq(Nat) /\ Len(s \o t) = Len(s) + Len(t)
          /\ \A i \in 1 .. Len(s) + Len(t) :
               (s \o t)[i] = IF i <= Len(s) THEN s[i] ELSE t[i - Len(s)]
      <4>1. s \in Seq(Nat) /\ t \in Seq(Nat)
        BY <2>1
      <4> QED
        BY <4>1, ConcatProperties
    <3> QED
      BY <2>1, <3>1, <3>2
  <2>3. ASSUME NEW i \in 1 .. k + n - 1 PROVE (s \o t)[i] = u[i]
    <3>1. CASE i <= k - 1
      BY <2>1, <2>2, <3>1
    <3>2. CASE ~(i <= k - 1)
      <4>1. i - (k - 1) \in 1 .. n /\ k + (i - (k - 1)) - 1 = i
        BY <3>2
      <4> QED
        BY <2>1, <2>2, <3>2, <4>1, ZenonT(60)
    <3> QED
      BY <3>1, <3>2, ZenonT(60)
  <2>4. s \o t = u
    BY <2>1, <2>2, <2>3, SeqEqual, ZenonT(60)
  <2> QED
    BY <2>4 DEF s, t, u
<1> QED
  BY <1>1, <1>2, <1>3, <1>4, ZenonT(60)

(* What the loops do to the bytes on their way.                            *)
LEMMA OutStreamStep ==
  ASSUME Shape, OutShape, [Next]_vars
  PROVE  OutKept \/ OutGrows \/ OutStandIn \/ OutCut
<1> DEFINE S == Seq(Nat)
<1>1. /\ toEsp \in S /\ udr \in S /\ ch \in S /\ obank \in S
      /\ toEsp \o udr \in S /\ toEsp \o udr \o ch \in S /\ OutStream \in S
  <2>1. toEsp \in S /\ udr \in S /\ ch \in S /\ obank \in S
    BY DEF OutShape
  <2>2. toEsp \o udr \in S
    BY <2>1, Joining
  <2>3. toEsp \o udr \o ch \in S
    BY <2>1, <2>2, ConcatProperties
  <2> QED
    BY <2>1, <2>2, <2>3, ConcatProperties DEF OutStream
<1>2. UNCHANGED <<toEsp, udr, ch, obank, nextOut, plugs>> => OutKept
  BY ZenonT(60) DEF OutKept, OutStream
<1>3. CASE ReadAvailable
  <2>1. /\ pc = "read" /\ obank # <<>> /\ obank' = Tail(obank) /\ toEsp' = toEsp
        /\ nextOut' = nextOut /\ plugs' = plugs /\ ch = <<>>
        /\ \/ mode = "task" /\ ch' = <<Head(obank)>> /\ udr' = udr
           \/ mode = "bridge" /\ udr' = <<Head(obank)>> /\ ch' = ch
    BY <1>3, ZenonT(60) DEF ReadAvailable, Available, Read, env, OutShape, Shape
  <2> DEFINE h == <<Head(obank)>>
             t == Tail(obank)
  <2>2. h \in S /\ t \in S /\ obank = h \o t
    <3>1. Head(obank) \in Nat /\ Tail(obank) \in S
      BY <1>1, <2>1, HeadTailProperties
    <3> QED
      BY <1>1, <2>1, <3>1
  <2> HIDE DEF h, t
  <2>3. toEsp \o udr \o ch = toEsp \o udr
    BY <1>1, <2>1, ConcatEmptySeq
  <2>4. CASE ch' = h /\ udr' = udr
    <3> DEFINE f == toEsp \o udr
    <3>1. f \in S /\ OutStream = f \o obank /\ OutStream' = f \o h \o t
      BY <1>1, <2>1, <2>3, <2>4 DEF OutStream, t
    <3> HIDE DEF f
    <3>2. (f \o h) \o t = f \o (h \o t)
      <4>1. f \in S /\ h \in S /\ t \in S
        BY <2>2, <3>1
      <4> QED
        BY <4>1, Joining, SMTT(60)
    <3> QED
      BY <2>1, <2>2, <3>1, <3>2 DEF OutKept
  <2>5. CASE mode = "bridge" /\ udr' = h /\ ch' = ch
    <3>1. udr = <<>>
      BY <2>1, <2>5 DEF OutShape
    <3>2. OutStream = toEsp \o obank
      BY <1>1, <2>3, <3>1, ConcatEmptySeq DEF OutStream
    <3>3. toEsp \o h \in S
      BY <1>1, <2>2, Joining
    <3>4. OutStream' = toEsp \o h \o <<>> \o t
      BY <2>1, <2>5 DEF OutStream, t
    <3>5. toEsp \o h \o <<>> = toEsp \o h
      BY <3>3, ConcatEmptySeq
    <3>6. (toEsp \o h) \o t = toEsp \o (h \o t)
      <4>1. toEsp \in S /\ h \in S /\ t \in S
        BY <1>1, <2>2
      <4> QED
        BY <4>1, Joining, SMTT(60)
    <3> QED
      BY <2>1, <2>2, <3>2, <3>4, <3>5, <3>6, ZenonT(60) DEF OutKept
  <2> QED
    BY <2>1, <2>4, <2>5 DEF h
<1>4. CASE ReadStandIn
  <2>1. /\ pc = "read" /\ obank = <<>> /\ obank' = obank /\ toEsp' = toEsp
        /\ nextOut' = nextOut /\ plugs' = plugs /\ plugs # 0 /\ ch = <<>>
        /\ \/ mode = "task" /\ ch' = <<0>> /\ udr' = udr
           \/ mode = "bridge" /\ udr' = <<0>> /\ ch' = ch
    BY <1>4, ZenonT(60) DEF ReadStandIn, Available, Read, env, OutShape, Shape
  <2>2. <<0>> \in S
    OBVIOUS
  <2>3. OutStream = toEsp \o udr
    BY <1>1, <2>1, ConcatEmptySeq DEF OutStream
  <2>4. CASE ch' = <<0>> /\ udr' = udr
    <3>1. OutStream' = toEsp \o udr \o <<0>> \o <<>>
      BY <2>1, <2>4 DEF OutStream
    <3>2. OutStream \o <<0>> \in S
      BY <1>1, <2>2, Joining
    <3>3. OutStream \o <<0>> \o <<>> = OutStream \o <<0>>
      BY <3>2, ConcatEmptySeq
    <3> QED
      BY <2>1, <2>3, <3>1, <3>3 DEF OutStandIn
  <2>5. CASE mode = "bridge" /\ udr' = <<0>> /\ ch' = ch
    <3>1. udr = <<>>
      BY <2>1, <2>5 DEF OutShape
    <3>2. OutStream = toEsp
      BY <1>1, <2>3, <3>1, ConcatEmptySeq
    <3>3. toEsp \o <<0>> \in S
      BY <1>1, <2>2, Joining
    <3>4. OutStream' = toEsp \o <<0>> \o <<>> \o <<>>
      BY <2>1, <2>5 DEF OutStream
    <3>5. toEsp \o <<0>> \o <<>> = toEsp \o <<0>>
      BY <3>3, ConcatEmptySeq
    <3> QED
      BY <2>1, <3>2, <3>4, <3>5 DEF OutStandIn
  <2> QED
    BY <2>1, <2>4, <2>5
<1>5. CASE Putch
  <2>1. /\ udr = <<>> /\ udr' = ch /\ ch' = <<>> /\ toEsp' = toEsp /\ obank' = obank
        /\ nextOut' = nextOut /\ plugs' = plugs
    BY <1>5, ZenonT(60) DEF Putch, env
  <2>2. toEsp \o <<>> = toEsp /\ toEsp \o ch \in S
    BY <1>1, Joining
  <2>3. toEsp \o ch \o <<>> = toEsp \o ch
    BY <2>2, ConcatEmptySeq
  <2> QED
    BY <2>1, <2>2, <2>3 DEF OutKept, OutStream
<1>6. CASE UartSends
  <2>1. /\ toEsp' = toEsp \o udr /\ udr' = <<>> /\ ch' = ch /\ obank' = obank
        /\ nextOut' = nextOut /\ plugs' = plugs
    BY <1>6, ZenonT(60) DEF UartSends, env
  <2>2. toEsp \o udr \o <<>> = toEsp \o udr
    BY <1>1, ConcatEmptySeq
  <2> QED
    BY <2>1, <2>2 DEF OutKept, OutStream
<1>7. ASSUME NEW n \in 0 .. EpSize, HostSends(n) PROVE OutGrows
  <2>1. /\ obank = <<>> /\ obank' = Packet(nextOut, n) /\ nextOut' = nextOut + n
        /\ plugs' = plugs /\ toEsp' = toEsp /\ udr' = udr /\ ch' = ch
    BY <1>7, ZenonT(60) DEF HostSends, OutShape, Packet
  <2>2. n \in Nat
    BY SizeAssumption
  <2>3. OutStream = toEsp \o udr \o ch
    BY <1>1, <2>1, ConcatEmptySeq DEF OutStream
  <2>4. OutStream' = OutStream \o Packet(nextOut, n)
    BY <2>1, <2>3, ZenonT(60) DEF OutStream
  <2> QED
    BY <2>1, <2>2, <2>4, ZenonT(60) DEF OutGrows
<1>8. CASE Plug
  <2>1. /\ obank' = <<>> /\ toEsp' = toEsp /\ udr' = udr /\ ch' = ch
        /\ nextOut' = nextOut /\ plugs' = plugs + 1
    BY <1>8, ZenonT(60) DEF Plug
  <2>2. plugs' # 0
    BY <2>1 DEF Shape
  <2> DEFINE f == toEsp \o udr \o ch
  <2>3. f \in S /\ OutStream = f \o obank /\ OutStream' = f \o <<>>
    BY <1>1, <2>1 DEF OutStream
  <2> HIDE DEF f
  <2>4. OutStream' = f
    BY <2>3, ConcatEmptySeq
  <2> QED
    BY <1>1, <2>1, <2>2, <2>3, <2>4, ZenonT(60) DEF OutCut
<1>9. CASE \/ TaskTake \/ TaskEmpty \/ BridgeIterate
           \/ WriteNow \/ WriteFull \/ WriteReady \/ WriteGivenUp
           \/ FlushEmpty \/ FlushBytes \/ FlushFull \/ FlushDone
  BY <1>2, <1>9, ZenonT(60)
  DEF TaskTake, TaskEmpty, BridgeIterate, WriteNow, WriteFull, WriteReady,
      WriteGivenUp, FlushEmpty, FlushBytes, FlushFull, FlushDone, out, env
<1>10. CASE NothingIn \/ BridgeBusy \/ SomethingIn \/ ReadPolls
  BY <1>2, <1>10, ZenonT(60)
  DEF NothingIn, BridgeBusy, SomethingIn, ReadPolls, ClearEmptyPacket, out, env
<1>11. CASE \/ EnterProgrammer \/ BootFirst \/ BootBytes \/ BootDone
            \/ BridgeExit \/ Settled \/ BackToTask \/ RunTasks \/ MainResetsEsp
  BY <1>2, <1>11, ZenonT(60)
  DEF EnterProgrammer, BootFirst, BootBytes, BootDone, BridgeExit, Settled,
      BackToTask, RunTasks, MainResetsEsp, out, env
<1>12. CASE TIMER1_COMPA \/ HostCollects \/ EspSends \/ HostPulsesRts \/ Unplug
  BY <1>2, <1>12, ZenonT(60)
  DEF TIMER1_COMPA, HostCollects, EspSends, HostPulsesRts, Unplug, out, env
<1>13. CASE UNCHANGED vars
  BY <1>2, <1>13, ZenonT(60) DEF vars, out, env
<1> QED
  BY <1>3, <1>4, <1>5, <1>6, <1>7, <1>8, <1>9, <1>10, <1>11, <1>12, <1>13,
     ZenonT(60)
  DEF Next, Main, Environment

(* The loops keep to the places where a byte may be.                       *)
LEMMA OutShapeStep == ASSUME Shape, OutShape, [Next]_vars PROVE OutShape'
<1>1. /\ toEsp \in Seq(Nat) /\ udr \in Seq(Nat) /\ ch \in Seq(Nat)
      /\ obank \in Seq(Nat) /\ nextOut \in Nat \ {0} /\ plugs \in Nat
  BY DEF OutShape, Shape
<1>2. CASE ReadAvailable \/ ReadStandIn
  <2>1. /\ pc = "read" /\ pc' \in {"put", "loop"} /\ (pc' = "put" <=> mode = "task")
        /\ toEsp' = toEsp /\ nextOut' = nextOut
        /\ obank' \in {obank, Tail(obank)} /\ (obank' # obank => obank # <<>>)
    BY <1>2, ZenonT(60) DEF ReadAvailable, ReadStandIn, Available, Read, Goto,
       env
  <2>2. PICK b \in Nat : Read(b)
    <3>1. obank # <<>> => Head(obank) \in Nat
      BY <1>1, HeadTailProperties
    <3>2. 0 \in Nat
      OBVIOUS
    <3> QED
      BY <1>2, <3>1, <3>2, ZenonT(60) DEF ReadAvailable, ReadStandIn, Available
  <2>3. obank' \in Seq(Nat)
    <3>1. obank # <<>> => Tail(obank) \in Seq(Nat)
      BY <1>1, HeadTailProperties
    <3> QED
      BY <1>1, <2>1, <3>1, ZenonT(60)
  <2>4. udr' \in Seq(Nat) /\ ch' \in Seq(Nat) /\ (pc' # "put" => ch' = <<>>)
    <3>1. <<b>> \in Seq(Nat) /\ ch = <<>>
      BY <2>1 DEF OutShape
    <3> QED
      BY <1>1, <2>1, <2>2, <3>1, ZenonT(60) DEF Read
  <2>5. ~received' => obank' = <<>>
    <3>1. CASE ReadAvailable
      BY <3>1, ZenonT(60) DEF ReadAvailable, Available
    <3>2. CASE ReadStandIn
      <4>1. obank = <<>>
        BY <3>2, ZenonT(60) DEF ReadStandIn, Available, OutShape
      <4> QED
        BY <3>2, <4>1, ZenonT(60) DEF ReadStandIn
    <3> QED
      BY <1>2, <3>1, <3>2
  <2> QED
    BY <1>1, <2>1, <2>3, <2>4, <2>5 DEF OutShape
<1>3. CASE Putch
  BY <1>1, <1>3 DEF Putch, Goto, env, OutShape
<1>4. CASE UartSends
  <2>1. toEsp \o udr \in Seq(Nat) /\ <<>> \in Seq(Nat)
    BY <1>1, Joining
  <2> QED
    BY <1>4, <2>1, ZenonT(60) DEF UartSends, env, flow, OutShape, Available
<1>5. ASSUME NEW n \in 0 .. EpSize, HostSends(n) PROVE OutShape'
  <2>1. /\ ~received /\ received' = TRUE /\ obank' = Packet(nextOut, n)
        /\ nextOut' = nextOut + n /\ UNCHANGED <<plugs, toEsp, udr, ch, pc, mode>>
    BY <1>5, ZenonT(60) DEF HostSends, flow, Packet
  <2>2. n \in Nat /\ nextOut + n \in Nat \ {0}
    BY <1>1, SizeAssumption
  <2>3. Packet(nextOut, n) \in Seq(Nat)
    BY <1>1, <2>2, PacketFacts, ZenonT(60)
  <2> QED
    BY <2>1, <2>2, <2>3, ZenonT(60) DEF OutShape, Available
<1>6. CASE Plug
  <2>1. plugs' # 0 /\ <<>> \in Seq(Nat)
    BY <1>1, <1>6 DEF Plug
  <2> QED
    BY <1>6, <2>1, ZenonT(60) DEF Plug, flow, OutShape
<1>7. CASE SomethingIn
  BY <1>7, ZenonT(60) DEF SomethingIn, Goto, out, env, OutShape, Available
<1>8. CASE NothingIn \/ BridgeBusy
  BY <1>8 DEF NothingIn, BridgeBusy, Available, ClearEmptyPacket, Goto, out,
     env, OutShape
<1>9. CASE ReadPolls
  BY <1>9, ZenonT(60) DEF ReadPolls, ClearEmptyPacket, env, flow, OutShape,
     Available
<1>10. CASE \/ TaskTake \/ TaskEmpty \/ BridgeIterate
            \/ WriteNow \/ WriteFull \/ WriteReady \/ WriteGivenUp
            \/ FlushEmpty \/ FlushBytes \/ FlushFull \/ FlushDone
  <2>1. /\ pc \notin {"read", "put"} /\ pc' \notin {"read", "put"}
        /\ UNCHANGED <<out, env>>
    <3>1. CASE TaskTake \/ TaskEmpty \/ BridgeIterate
      BY <3>1 DEF TaskTake, TaskEmpty, BridgeIterate, Goto, out, env
    <3>2. CASE WriteNow \/ WriteFull
      BY <3>2 DEF WriteNow, WriteFull, AfterWrite, Goto, out, env
    <3>3. CASE WriteReady \/ WriteGivenUp
      BY <3>3 DEF WriteReady, WriteGivenUp, AfterWrite, Goto, out, env
    <3>4. CASE FlushEmpty \/ FlushBytes \/ FlushFull \/ FlushDone
      BY <3>4 DEF FlushEmpty, FlushBytes, FlushFull, FlushDone, Goto, out, env
    <3> QED
      BY <1>10, <3>1, <3>2, <3>3, <3>4, ZenonT(60)
  <2> QED
    BY <2>1, ZenonT(60) DEF out, env, OutShape
<1>11. CASE \/ EnterProgrammer \/ BootFirst \/ BootBytes \/ BootDone
            \/ BridgeExit \/ Settled \/ BackToTask \/ RunTasks \/ MainResetsEsp
  <2>1. /\ pc \notin {"read", "put"} /\ pc' \notin {"read", "put"}
        /\ UNCHANGED <<out, env>>
    <3>1. CASE EnterProgrammer \/ BootFirst \/ BootBytes \/ BootDone
      BY <3>1 DEF EnterProgrammer, BootFirst, BootBytes, BootDone, Goto, out, env
    <3>2. CASE BridgeExit \/ Settled \/ BackToTask
      BY <3>2 DEF BridgeExit, Settled, BackToTask, Goto, out, env
    <3>3. CASE RunTasks \/ MainResetsEsp
      BY <3>3 DEF RunTasks, MainResetsEsp, out, env
    <3> QED
      BY <1>11, <3>1, <3>2, <3>3, ZenonT(60)
  <2> QED
    BY <2>1, ZenonT(60) DEF out, env, OutShape
<1>12. CASE TIMER1_COMPA \/ HostCollects \/ EspSends \/ HostPulsesRts \/ Unplug
  BY <1>12, ZenonT(60)
  DEF TIMER1_COMPA, HostCollects, EspSends, HostPulsesRts, Unplug, out, env, flow,
      OutShape, Available
<1>13. CASE UNCHANGED vars
  BY <1>13, ZenonT(60) DEF vars, out, env, flow, OutShape, Available
<1> QED
  BY <1>2, <1>3, <1>4, <1>5, <1>6, <1>7, <1>8, <1>9, <1>10, <1>11, <1>12,
     <1>13,
     ZenonT(60)
  DEF Next, Main, Environment

(* Whatever a step does with the bytes on their way, they stay in order,   *)
(* and complete while the cable stays in.                                  *)
LEMMA OutOrderStep ==
  ASSUME Shape, OutShape, OutSent, EspGetsInOrder, [Next]_vars
  PROVE  OutSent' /\ EspGetsInOrder'
<1> DEFINE S == Seq(Nat)
<1>1. /\ Increasing(OutStream) /\ (plugs = 0 => OutStream = Packet(1, nextOut - 1))
      /\ Elements(OutStream) \subseteq 0 .. nextOut - 1
  <2>1. nextOut \in Nat
    BY DEF OutShape
  <2>2. Packet(1, nextOut - 1) = [i \in 1 .. nextOut - 1 |-> i]
    BY <2>1 DEF Packet
  <2> QED
    BY <2>2, ZenonT(60) DEF EspGetsInOrder, OutStream, OutSent
<1>2. SUFFICES
        /\ Increasing(OutStream')
        /\ plugs' = 0 => OutStream' = Packet(1, nextOut' - 1)
        /\ Elements(OutStream') \subseteq 0 .. nextOut' - 1
  <2>1. nextOut' \in Nat
    BY OutShapeStep DEF OutShape
  <2>2. Packet(1, nextOut' - 1) = [i \in 1 .. nextOut' - 1 |-> i]
    BY <2>1 DEF Packet
  <2> QED
    BY <2>2, ZenonT(60) DEF EspGetsInOrder, OutStream, OutSent
<1>3. OutStream \in S
  <2>1. toEsp \in S /\ udr \in S /\ ch \in S /\ obank \in S
    BY DEF OutShape
  <2>2. toEsp \o udr \in S
    BY <2>1, Joining
  <2>3. toEsp \o udr \o ch \in S
    BY <2>1, <2>2, ConcatProperties
  <2> QED
    BY <2>1, <2>3, ConcatProperties DEF OutStream
<1>4. nextOut \in Nat \ {0}
  BY DEF OutShape
<1>5. CASE OutKept
  BY <1>1, <1>5, ZenonT(60) DEF OutKept
<1>6. CASE OutGrows
  <2>1. PICK n \in Nat : /\ OutStream' = OutStream \o Packet(nextOut, n)
                         /\ nextOut' = nextOut + n /\ plugs' = plugs
    BY <1>6 DEF OutGrows
  <2> DEFINE t == Packet(nextOut, n)
  <2>2. /\ t \in S /\ Increasing(t) /\ Elements(t) = nextOut .. nextOut + n - 1
        /\ Packet(1, nextOut - 1) \o t = Packet(1, nextOut + n - 1)
    BY <1>4, PacketFacts, ZenonT(60)
  <2> HIDE DEF t
  <2>3. OutStream' = OutStream \o t
    BY <2>1 DEF t
  <2>4. Before(OutStream, t)
    BY <1>1, <1>4, <2>2 DEF Before
  <2>5. Increasing(OutStream \o t)
    BY <1>1, <1>3, <2>2, <2>4, IncreasingConcat
  <2>6. Elements(OutStream \o t) = Elements(OutStream) \cup Elements(t)
    <3>1. t \in S
      BY <2>2
    <3> QED
      BY <1>3, <3>1, Joining
  <2>7. Elements(OutStream') \subseteq 0 .. nextOut' - 1
    BY <1>1, <1>4, <2>1, <2>2, <2>3, <2>6
  <2>8. ASSUME plugs' = 0 PROVE OutStream' = Packet(1, nextOut' - 1)
    <3>1. OutStream = Packet(1, nextOut - 1) /\ nextOut' = nextOut + n
      BY <1>1, <2>1, <2>8
    <3>2. Packet(1, nextOut - 1) \o t = Packet(1, nextOut + n - 1)
      BY <2>2
    <3>3. Packet(1, nextOut' - 1) = Packet(1, nextOut + n - 1)
      BY <1>4, <3>1 DEF Packet
    <3>4. OutStream' = Packet(1, nextOut - 1) \o t
      BY <2>3, <3>1
    <3> QED
      BY <3>2, <3>3, <3>4
  <2> QED
    BY <2>3, <2>5, <2>7, <2>8
<1>7. CASE OutStandIn
  <2>1. /\ OutStream' = OutStream \o <<0>> /\ plugs' # 0 /\ nextOut' = nextOut
    BY <1>7 DEF OutStandIn
  <2>2. <<0>> \in S /\ Increasing(<<0>>) /\ Elements(<<0>>) = {0}
    BY IncreasingShort
  <2>3. Before(OutStream, <<0>>)
    BY <2>2 DEF Before
  <2>4. Increasing(OutStream \o <<0>>)
    BY <1>1, <1>3, <2>2, <2>3, IncreasingConcat, ZenonT(60)
  <2>5. Elements(OutStream \o <<0>>) = Elements(OutStream) \cup Elements(<<0>>)
    BY <1>3, <2>2, Joining, ZenonT(60)
  <2> QED
    BY <1>1, <1>4, <2>1, <2>2, <2>4, <2>5
<1>8. CASE OutCut
  <2>1. PICK b \in S : OutStream' \in S /\ OutStream = OutStream' \o b
    BY <1>8, ZenonT(60) DEF OutCut
  <2>2. plugs' # 0 /\ nextOut' = nextOut
    BY <1>8 DEF OutCut
  <2> DEFINE a == OutStream'
  <2> HIDE DEF a
  <2>3. a \in S /\ Increasing(a \o b) /\ OutStream = a \o b
    BY <1>1, <2>1 DEF a
  <2>4. Increasing(a)
    BY <2>3, IncreasingConcat
  <2>5. Elements(a \o b) = Elements(a) \cup Elements(b)
    BY <2>3, Joining
  <2>6. Elements(a) \subseteq 0 .. nextOut' - 1
    BY <1>1, <2>2, <2>3, <2>5
  <2> QED
    BY <2>2, <2>4, <2>6 DEF a
<1> QED
  BY <1>5, <1>6, <1>7, <1>8, OutStreamStep

(* The bytes of the host reach the ESP8266 in order and none twice, all of *)
(* them and nothing else while the cable stays in: CDC_Task, putch and the *)
(* bridge overwrite no byte that the UART has not sent.                    *)
THEOREM EspOrder == Spec => []EspGetsInOrder
<1> DEFINE OutInv == OutShape /\ OutSent /\ EspGetsInOrder
<1>1. Init => OutInv
  <2> SUFFICES ASSUME Init PROVE OutInv
    OBVIOUS
  <2>1. /\ toEsp = <<>> /\ udr = <<>> /\ ch = <<>> /\ obank = <<>> /\ nextOut = 1
        /\ pc = "main"
    BY ZenonT(60) DEF Init
  <2>2. OutStream = <<>>
    <3>1. <<>> \o <<>> \o <<>> \o <<>> = <<>>
      OBVIOUS
    <3> QED
      BY <2>1, <3>1 DEF OutStream
  <2>3. [i \in 1 .. 1 - 1 |-> i] = <<>>
    OBVIOUS
  <2>4. OutSent
    BY <2>2, IncreasingShort DEF OutSent
  <2>5. EspGetsInOrder
    BY <2>1, <2>2, <2>3, IncreasingShort, ZenonT(60) DEF EspGetsInOrder,
       OutStream
  <2> QED
    BY <2>1, <2>4, <2>5 DEF OutShape
<1>2. Inv /\ OutInv /\ [Next]_vars => OutInv'
  BY OutShapeStep, OutOrderStep, ZenonT(60) DEF Inv
<1>3. OutInv => EspGetsInOrder
  OBVIOUS
<1> QED
  BY <1>1, <1>2, <1>3, Invariance, PTL DEF Spec
=============================================================================
