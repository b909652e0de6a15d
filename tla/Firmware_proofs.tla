--------------------------- MODULE Firmware_proofs ---------------------------
(***************************************************************************)
(* Proofs about parts of the firmware that share no state: the FIFO modes  *)
(* (EcpPort), the boot loader with its host tool (BootLoader), and the     *)
(* packet parser (ProcessInOut), for sizes, packets and images of any      *)
(* kind.                                                                   *)
(***************************************************************************)
EXTENDS MCFirmware, SequenceTheorems, WellFoundedInduction, TLAPS

(***************************************************************************)
(* EcpPort, for a FIFO of any size: the ring and its two flags are the     *)
(* bounded queue WordQueue, and the ECP handshakes transfer each word      *)
(* once.  The first part is about the ring alone, the second about the     *)
(* steps that use it.                                                      *)
(***************************************************************************)
FlagsOK(f) ==
  /\ f.r = f.w <=> f.empty \/ f.full
  /\ ~(f.empty /\ f.full)

\* The word handed out last is in the slot before the read index until the ring
\* is full, and then the ring is not empty.
Keeps(f, l) == l # NoWord /\ ~f.full => f.slot[Before(f.r)] = l

\* The last word after a GetFifo.
LastOf(f, l) == IF f.empty THEN l ELSE Front(f)
-----------------------------------------------------------------------------
(* The ring *)

LEMMA Indices ==
  ASSUME NEW i \in Slots
  PROVE  /\ After(i) \in Slots /\ Before(i) \in Slots
         /\ Before(After(i)) = i /\ After(Before(i)) = i
         /\ After(i) # i
  BY EcpPortAssumption DEF After, Before, Slots

LEMMA PutRing ==
  ASSUME NEW f \in Ring, NEW w \in Word, FlagsOK(f)
  PROVE  Put(f, w) \in Ring /\ FlagsOK(Put(f, w))
  <1>1. CASE f.full
    BY <1>1 DEF Put
  <1>2. CASE ~f.full
    <2>. f.r \in Slots /\ f.w \in Slots /\ f.slot \in [Slots -> Word]
      BY DEF Ring
    <2>1. After(f.w) \in Slots /\ After(f.w) # f.w
      BY Indices
    <2>. QED BY <1>2, <2>1 DEF Put, Ring, FlagsOK
  <1>. QED BY <1>1, <1>2

LEMMA GotRing ==
  ASSUME NEW f \in Ring, FlagsOK(f)
  PROVE  Got(f) \in Ring /\ FlagsOK(Got(f)) /\ Front(f) \in Word
  <1>. f.r \in Slots /\ f.w \in Slots /\ f.slot \in [Slots -> Word]
    BY DEF Ring
  <1>1. After(f.r) \in Slots /\ Before(f.r) \in Slots /\ After(f.r) # f.r
    BY Indices
  <1>2. Front(f) \in Word
    BY <1>1 DEF Front
  <1>3. CASE f.empty
    BY <1>2, <1>3 DEF Got
  <1>4. CASE ~f.empty
    <2>. DEFINE g == [f EXCEPT !.r = After(f.r), !.full = FALSE, !.empty = f.w = After(f.r)]
    <2>1. Got(f) = g
      BY <1>4 DEF Got
    <2>2. g \in Ring
      BY <1>1 DEF Ring
    <2>3. g.r = After(f.r) /\ g.w = f.w /\ g.full = FALSE /\ g.empty = (f.w = After(f.r))
      BY DEF Ring
    <2>. QED BY <1>2, <2>1, <2>2, <2>3 DEF FlagsOK
  <1>. QED BY <1>3, <1>4

LEMMA ClearedRing ==
  ASSUME NEW f \in Ring
  PROVE  Cleared(f) \in Ring /\ FlagsOK(Cleared(f)) /\ Contents(Cleared(f)) = <<>>
  <1>. 0 \in Slots
    BY EcpPortAssumption DEF Slots
  <1>1. /\ Cleared(f).r = 0 /\ Cleared(f).w = 0 /\ Cleared(f).slot = f.slot
        /\ Cleared(f).empty = TRUE /\ Cleared(f).full = FALSE
    BY DEF Cleared, Ring
  <1>2. Cleared(f) \in Ring
    BY DEF Cleared, Ring
  <1>3. Count(Cleared(f)) = 0
    BY <1>1 DEF Count
  <1>. QED BY <1>1, <1>2, <1>3 DEF FlagsOK, Contents

\* The words of a ring are a sequence of as many words as it counts.
LEMMA ContentsSeq ==
  ASSUME NEW f \in Ring, FlagsOK(f)
  PROVE  /\ Count(f) \in 0 .. FifoSize
         /\ Contents(f) \in Seq(Word) /\ Len(Contents(f)) = Count(f)
         /\ Count(f) = 0 <=> f.empty
         /\ Count(f) = FifoSize <=> f.full
         /\ \A i \in 1 .. Count(f) :
              Slot(f, i - 1) \in Slots /\ Contents(f)[i] = f.slot[Slot(f, i - 1)]
  <1>. f.r \in Slots /\ f.w \in Slots /\ f.slot \in [Slots -> Word]
    BY DEF Ring
  <1>1. Count(f) \in 0 .. FifoSize
    BY EcpPortAssumption DEF Count, Slots
  <1>2. (Count(f) = 0 <=> f.empty) /\ (Count(f) = FifoSize <=> f.full)
    BY EcpPortAssumption DEF Count, Slots, FlagsOK
  <1>3. \A i \in 1 .. Count(f) : Slot(f, i - 1) \in Slots
    BY <1>1, EcpPortAssumption DEF Slot, Slots
  <1>4. Contents(f) \in [1 .. Count(f) -> Word]
    BY <1>3 DEF Contents
  <1>5. Contents(f) \in Seq(Word) /\ Len(Contents(f)) = Count(f)
    BY <1>1, <1>4
  <1>. QED BY <1>1, <1>2, <1>3, <1>5 DEF Contents

\* PutFifo appends a word if there is room.
LEMMA PutAppends ==
  ASSUME NEW f \in Ring, NEW w \in Word, FlagsOK(f), ~f.full
  PROVE  Contents(Put(f, w)) = Append(Contents(f), w)
  <1>. DEFINE g == Put(f, w)
              n == Count(f)
  <1>. f.r \in Slots /\ f.w \in Slots /\ f.slot \in [Slots -> Word]
    BY DEF Ring
  <1>1. /\ g.slot = [f.slot EXCEPT ![f.w] = w] /\ g.r = f.r /\ g.w = After(f.w)
        /\ g.empty = FALSE /\ g.full = (After(f.w) = f.r)
    BY DEF Put
  <1>2. g \in Ring /\ FlagsOK(g)
    BY PutRing
  <1>3. n \in 0 .. FifoSize - 1 /\ Slot(f, n) = f.w
    BY EcpPortAssumption DEF Count, Slots, FlagsOK, Slot
  <1>. DEFINE next == After(f.w)
  <1>a. next \in Slots /\ next = (IF f.w = FifoSize - 1 THEN 0 ELSE f.w + 1)
    BY Indices DEF After
  <1>b. n = IF f.r <= f.w THEN f.w - f.r ELSE f.w - f.r + FifoSize
    BY DEF Count
  <1>. HIDE DEF g, n, next
  <1>4. Count(g) = n + 1
    <2>1. CASE next = f.r
      <3>1. g.full
        BY <1>1, <2>1 DEF next
      <3>2. n + 1 = FifoSize
        BY <1>a, <1>b, <2>1, EcpPortAssumption DEF Slots
      <3>. QED BY <3>1, <3>2 DEF Count
    <2>2. CASE next # f.r
      <3>1. ~g.full /\ g.w = next /\ g.r = f.r
        BY <1>1, <2>2 DEF next
      <3>2. Count(g) = IF f.r <= next THEN next - f.r ELSE next - f.r + FifoSize
        BY <3>1 DEF Count
      <3>. QED BY <1>a, <1>b, <2>2, <3>2, EcpPortAssumption DEF Slots
    <2>. QED BY <2>1, <2>2
  <1>. USE DEF g, n
  <1>5. \A i \in 1 .. n : Slot(g, i - 1) = Slot(f, i - 1) /\ Slot(f, i - 1) # f.w
    BY <1>1, <1>3, EcpPortAssumption DEF Slot, Slots
  <1>6. Contents(f) \in Seq(Word) /\ Len(Contents(f)) = n
    BY ContentsSeq
  <1>7. Contents(g) \in Seq(Word) /\ Len(Contents(g)) = n + 1
    BY <1>2, <1>4, ContentsSeq
  <1>8. ASSUME NEW i \in 1 .. n + 1 PROVE Contents(g)[i] = Append(Contents(f), w)[i]
    <2>1. Contents(g)[i] = g.slot[Slot(g, i - 1)] /\ Slot(g, i - 1) \in Slots
      BY <1>2, <1>4, ContentsSeq
    <2>2. CASE i = n + 1
      <3>1. Slot(g, i - 1) = f.w
        BY <1>1, <1>3, <2>2 DEF Slot
      <3>. QED BY <1>1, <1>6, <2>1, <2>2, <3>1
    <2>3. CASE i \in 1 .. n
      <3>1. Contents(f)[i] = f.slot[Slot(f, i - 1)]
        BY <2>3, ContentsSeq
      <3>. QED BY <1>1, <1>5, <1>6, <2>1, <2>3, <3>1
    <2>3a. n \in Nat
      BY <1>3, EcpPortAssumption
    <2>. HIDE DEF n
    <2>4. i = n + 1 \/ i \in 1 .. n
      BY <2>3a
    <2>. QED BY <2>2, <2>3, <2>4
  <1>. QED BY <1>6, <1>7, <1>8, SeqEqual, AppendProperties

\* GetFifo returns the first word and removes it, if there is one.
LEMMA GotRemoves ==
  ASSUME NEW f \in Ring, FlagsOK(f), ~f.empty
  PROVE  /\ Contents(f) # <<>> /\ Front(f) = Head(Contents(f))
         /\ Contents(Got(f)) = Tail(Contents(f))
  <1>. DEFINE g == Got(f)
              n == Count(f)
  <1>. f.r \in Slots /\ f.w \in Slots /\ f.slot \in [Slots -> Word]
    BY DEF Ring
  <1>1. /\ g.slot = f.slot /\ g.r = After(f.r) /\ g.w = f.w
        /\ g.full = FALSE /\ g.empty = (f.w = After(f.r))
    BY DEF Got, Ring
  <1>2. g \in Ring /\ FlagsOK(g)
    BY GotRing
  <1>3. n \in 1 .. FifoSize /\ Count(g) = n - 1
    BY <1>1, EcpPortAssumption DEF Count, Slots, FlagsOK, After
  <1>4. \A i \in 1 .. n - 1 : Slot(g, i - 1) = Slot(f, i)
    BY <1>1, <1>3, EcpPortAssumption DEF Slot, Slots, After
  <1>5. Contents(f) \in Seq(Word) /\ Len(Contents(f)) = n
    BY ContentsSeq
  <1>6. Contents(g) \in Seq(Word) /\ Len(Contents(g)) = n - 1
    BY <1>2, <1>3, ContentsSeq
  <1>7. Contents(f) # <<>> /\ Head(Contents(f)) = Contents(f)[1]
    BY <1>3, <1>5
  <1>8. Contents(f)[1] = Front(f)
    <2>1. Slot(f, 0) = f.r
      BY EcpPortAssumption DEF Slot, Slots
    <2>2. Contents(f)[1] = f.slot[Slot(f, 0)]
      BY <1>3, ContentsSeq
    <2>. QED BY <2>1, <2>2 DEF Front
  <1>9. ASSUME NEW i \in 1 .. n - 1 PROVE Contents(g)[i] = Tail(Contents(f))[i]
    <2>1. Contents(g)[i] = g.slot[Slot(g, i - 1)]
      BY <1>2, <1>3, ContentsSeq
    <2>2. i + 1 \in 1 .. n /\ (i + 1) - 1 = i
      BY <1>3
    <2>3. Contents(f)[i + 1] = f.slot[Slot(f, i)]
      BY <2>2, ContentsSeq
    <2>4. Tail(Contents(f))[i] = Contents(f)[i + 1]
      BY <1>3, <1>5, <1>7
    <2>. QED BY <1>1, <1>4, <2>1, <2>3, <2>4
  <1>10. Tail(Contents(f)) \in Seq(Word) /\ Len(Tail(Contents(f))) = n - 1
    BY <1>5, <1>7, HeadTailProperties
  <1>. QED BY <1>6, <1>7, <1>8, <1>9, <1>10, SeqEqual

LEMMA PutKeeps ==
  ASSUME NEW f \in Ring, NEW w \in Word, NEW l, FlagsOK(f), Keeps(f, l)
  PROVE  Keeps(Put(f, w), l)
  <1>1. CASE f.full
    BY <1>1 DEF Put
  <1>2. CASE ~f.full
    <2>. f.r \in Slots /\ f.w \in Slots /\ f.slot \in [Slots -> Word]
      BY DEF Ring
    <2>1. Before(f.r) \in Slots /\ After(Before(f.r)) = f.r
      BY Indices
    <2>2. CASE After(f.w) = f.r
      BY <1>2, <2>2 DEF Put, Keeps
    <2>3. CASE After(f.w) # f.r
      <3>1. Before(f.r) # f.w
        BY <2>1, <2>3
      <3>. QED BY <1>2, <2>1, <3>1 DEF Put, Keeps
    <2>. QED BY <2>2, <2>3
  <1>. QED BY <1>1, <1>2

LEMMA GotKeeps ==
  ASSUME NEW f \in Ring, NEW l, FlagsOK(f), Keeps(f, l)
  PROVE  Keeps(Got(f), LastOf(f, l))
  <1>1. CASE f.empty
    BY <1>1 DEF Got, LastOf
  <1>2. CASE ~f.empty
    <2>1. f.r \in Slots /\ Before(After(f.r)) = f.r
      BY Indices DEF Ring
    <2>2. Got(f).slot = f.slot /\ Got(f).r = After(f.r)
      BY <1>2 DEF Got, Ring
    <2>3. LastOf(f, l) = f.slot[f.r]
      BY <1>2 DEF LastOf, Front
    <2>. QED BY <2>1, <2>2, <2>3 DEF Keeps
  <1>. QED BY <1>1, <1>2
-----------------------------------------------------------------------------
(* The steps, as far as the ring is concerned *)

PutStep == \E w \in Word : fifo' = Put(fifo, w) /\ UNCHANGED last
BitStep == \E w \in Word : fifo' = Put(Got(fifo), w) /\ last' = LastOf(fifo, last)
ClearStep == fifo' = Cleared(fifo) /\ last' = NoWord

RingInv ==
  /\ fifo \in Ring /\ last \in Word \cup {NoWord}
  /\ FlagsOK(fifo) /\ Keeps(fifo, last)

LEMMA StepsOfRing ==
  ASSUME TypeOK, [Next]_vars
  PROVE  UNCHANGED queue \/ GetFifo \/ PutStep \/ BitStep \/ ClearStep
  <1>1. CASE UNCHANGED vars
    BY <1>1 DEF vars, queue
  <1>2. CASE Loop
    <2>1. CASE NoXfer \/ PollDone
      BY <2>1 DEF NoXfer, PollDone
    <2>2. CASE SppXfer
      BY <2>2 DEF SppXfer
    <2>3. CASE EcpStrobe
      BY <2>3 DEF EcpStrobe
    <2>4. CASE EcpStrobeEnd \/ EcpAccept
      BY <2>4 DEF EcpStrobeEnd, EcpAccept
    <2>5. CASE EcpRead
      <3>1. offer \in Word
        BY DEF TypeOK
      <3>. QED BY <2>5, <3>1 DEF EcpRead, PutStep, queue
    <2>. QED BY <1>2, <2>1, <2>2, <2>3, <2>4, <2>5 DEF Loop
  <1>3. CASE Host
    <2>1. ASSUME NEW b \in Bytes, NEW data \in BOOLEAN, OutFifo(b, data)
          PROVE  UNCHANGED queue \/ PutStep
      <3>1. <<b, data>> \in Word
        BY DEF Word
      <3>. QED BY <2>1, <3>1 DEF OutFifo, PutStep, queue
    <2>2. ASSUME NEW b \in Bytes, NEW data \in BOOLEAN, BitFifo(b, data)
          PROVE  BitStep
      <3>1. <<b, data>> \in Word
        BY DEF Word
      <3>. QED BY <2>2, <3>1 DEF BitFifo, BitStep, LastOf
    <2>3. ASSUME InFifo PROVE UNCHANGED queue \/ GetFifo
      BY <2>3 DEF InFifo
    <2>4. ASSUME NEW c \in Controls, Out2(c) PROVE UNCHANGED queue
      BY <2>4 DEF Out2, queue
    <2>5. ASSUME NEW m \in Modes, Out402(m) PROVE ClearStep
      BY <2>5 DEF Out402, ClearStep
    <2>. QED BY <1>3, <2>1, <2>2, <2>3, <2>4, <2>5 DEF Host
  <1>4. CASE Take \/ Ready \/ (\E w \in Word : Offer(w)) \/ Release
    BY <1>4 DEF Take, Ready, Offer, Release
  <1>. QED BY <1>1, <1>2, <1>3, <1>4 DEF Next

LEMMA StepRingInv ==
  ASSUME RingInv, UNCHANGED queue \/ GetFifo \/ PutStep \/ BitStep \/ ClearStep
  PROVE  RingInv'
  <1>. USE DEF RingInv
  <1>1. CASE UNCHANGED queue
    BY <1>1 DEF queue
  <1>2. CASE GetFifo
    <2>1. fifo' = Got(fifo) /\ last' = LastOf(fifo, last)
      BY <1>2 DEF GetFifo, LastOf
    <2>2. last' \in Word \cup {NoWord}
      BY <2>1, GotRing DEF LastOf
    <2>. QED BY <2>1, <2>2, GotRing, GotKeeps
  <1>3. CASE PutStep
    BY <1>3, PutRing, PutKeeps DEF PutStep
  <1>4. CASE BitStep
    <2>1. PICK w \in Word : fifo' = Put(Got(fifo), w) /\ last' = LastOf(fifo, last)
      BY <1>4 DEF BitStep
    <2>2. Got(fifo) \in Ring /\ FlagsOK(Got(fifo)) /\ Keeps(Got(fifo), last')
      BY <2>1, GotRing, GotKeeps
    <2>3. last' \in Word \cup {NoWord}
      BY <2>1, GotRing DEF LastOf
    <2>. QED BY <2>1, <2>2, <2>3, PutRing, PutKeeps
  <1>5. CASE ClearStep
    BY <1>5, ClearedRing DEF ClearStep, Keeps
  <1>. QED BY <1>1, <1>2, <1>3, <1>4, <1>5

\* Every step of the ring is a step of the queue.
LEMMA StepImplements ==
  ASSUME RingInv, UNCHANGED queue \/ GetFifo \/ PutStep \/ BitStep \/ ClearStep
  PROVE  [Queue!Next]_Queue!vars
  <1>. USE DEF RingInv
  <1>1. CASE UNCHANGED queue
    BY <1>1 DEF queue, Queue!vars, Contents, Count, Slot
  <1>2. CASE GetFifo
    <2>1. CASE fifo.empty
      BY <1>2, <2>1 DEF GetFifo, Got, Queue!vars, Contents, Count, Slot
    <2>2. CASE ~fifo.empty
      <3>1. Queue!Get
        BY <1>2, <2>2, GotRemoves DEF GetFifo, Queue!Get
      <3>. QED BY <3>1 DEF Queue!Next
    <2>. QED BY <2>1, <2>2
  <1>3. CASE PutStep
    <2>1. PICK w \in Word : fifo' = Put(fifo, w) /\ UNCHANGED last
      BY <1>3 DEF PutStep
    <2>2. CASE fifo.full
      BY <2>1, <2>2 DEF Put, Queue!vars, Contents, Count, Slot
    <2>3. CASE ~fifo.full
      <3>1. Len(Contents(fifo)) < FifoSize
        BY <2>3, ContentsSeq, EcpPortAssumption
      <3>2. Queue!Put(w)
        BY <2>1, <2>3, <3>1, PutAppends DEF Queue!Put
      <3>. QED BY <3>2 DEF Queue!Next
    <2>. QED BY <2>2, <2>3
  <1>4. CASE BitStep
    <2>1. PICK w \in Word : fifo' = Put(Got(fifo), w) /\ last' = LastOf(fifo, last)
      BY <1>4 DEF BitStep
    <2>2. CASE fifo.empty
      <3>1. Got(fifo) = fifo /\ last' = last /\ ~fifo.full
        BY <2>1, <2>2 DEF Got, LastOf, FlagsOK
      <3>2. Len(Contents(fifo)) < FifoSize
        BY <3>1, ContentsSeq, EcpPortAssumption
      <3>3. Queue!Put(w)
        BY <2>1, <3>1, <3>2, PutAppends DEF Queue!Put
      <3>. QED BY <3>3 DEF Queue!Next
    <2>3. CASE ~fifo.empty
      <3>1. Got(fifo) \in Ring /\ FlagsOK(Got(fifo)) /\ ~Got(fifo).full
        BY <2>3, GotRing DEF Got, Ring
      <3>2. Contents(fifo') = Append(Tail(Contents(fifo)), w)
        BY <2>1, <2>3, <3>1, GotRemoves, PutAppends
      <3>3. Queue!Change(w)
        BY <2>1, <2>3, <3>2, GotRemoves DEF Queue!Change, LastOf
      <3>. QED BY <3>3 DEF Queue!Next
    <2>. QED BY <2>2, <2>3
  <1>5. CASE ClearStep
    <2>1. Queue!Empty
      BY <1>5, ClearedRing DEF ClearStep, Queue!Empty
    <2>. QED BY <2>1 DEF Queue!Next
  <1>. QED BY <1>1, <1>2, <1>3, <1>4, <1>5
-----------------------------------------------------------------------------
(* The firmware's invariant *)

IInv == TypeOK /\ RingInv

LEMMA InitIInv == Init => IInv
  <1>. SUFFICES ASSUME Init PROVE IInv
    OBVIOUS
  <1>1. 0 \in Slots
    BY EcpPortAssumption DEF Slots
  <1>2. PICK w \in Word : fifo = [slot |-> [i \in Slots |-> w], r |-> 0, w |-> 0,
                                 empty |-> TRUE, full |-> FALSE]
    BY DEF Init
  <1>3. fifo \in Ring /\ FlagsOK(fifo)
    BY <1>1, <1>2 DEF Ring, FlagsOK
  <1>4. TypeOK /\ Keeps(fifo, last)
    BY <1>3 DEF Init, TypeOK, Keeps
  <1>. QED BY <1>3, <1>4 DEF IInv, RingInv, TypeOK

LEMMA StepTypeOK ==
  ASSUME TypeOK, [Next]_vars, fifo' \in Ring, last' \in Word \cup {NoWord},
         Front(fifo) \in Word
  PROVE  TypeOK'
  <1>. USE DEF TypeOK, Goto
  <1>0. Front(fifo)[1] \in Bytes /\ Front(fifo)[2] \in BOOLEAN
    BY DEF Word
  <1>1. CASE UNCHANGED vars
    BY <1>1 DEF vars
  <1>2. CASE Loop
    <2>1. CASE NoXfer \/ PollDone
      BY <2>1 DEF NoXfer, PollDone, queue, port, lines, device
    <2>2. CASE SppXfer
      BY <1>0, <2>2 DEF SppXfer, queue, port, lines, device
    <2>3. CASE EcpStrobe
      BY <1>0, <2>3 DEF EcpStrobe, queue, port, lines, device
    <2>4. CASE EcpStrobeEnd
      BY <2>4 DEF EcpStrobeEnd, queue, port, lines, device
    <2>5. CASE EcpAccept
      BY <2>5 DEF EcpAccept, queue, port, lines, device
    <2>6. CASE EcpRead
      BY <2>6 DEF EcpRead, port, lines, device
    <2>. QED BY <1>2, <2>1, <2>2, <2>3, <2>4, <2>5, <2>6 DEF Loop
  <1>3. CASE Host
    <2>. USE DEF Command, port, lines, device
    <2>1. ASSUME NEW b \in Bytes, NEW data \in BOOLEAN, OutFifo(b, data)
          PROVE  TypeOK'
      BY <2>1 DEF OutFifo
    <2>2. ASSUME NEW b \in Bytes, NEW data \in BOOLEAN, BitFifo(b, data)
          PROVE  TypeOK'
      BY <2>2 DEF BitFifo
    <2>3. CASE InFifo
      BY <2>3 DEF InFifo
    <2>4. ASSUME NEW c \in Controls, Out2(c) PROVE TypeOK'
      <3>1. c \in Control
        BY EcpPortAssumption
      <3>. QED BY <2>4, <3>1 DEF Out2, SetDirection, Control, queue
    <2>5. ASSUME NEW m \in Modes, Out402(m) PROVE TypeOK'
      BY <2>5 DEF Out402, SetDirection
    <2>. QED BY <1>3, <2>1, <2>2, <2>3, <2>4, <2>5 DEF Host
  <1>4. CASE Take \/ Ready \/ Release
    BY <1>4 DEF Take, Ready, Release, queue, port, lines
  <1>5. ASSUME NEW w \in Word, Offer(w) PROVE TypeOK'
    BY <1>5 DEF Offer, queue, port, lines
  <1>. QED BY <1>1, <1>2, <1>3, <1>4, <1>5 DEF Next

LEMMA NextIInv == IInv /\ [Next]_vars => IInv'
  <1>. SUFFICES ASSUME IInv, [Next]_vars PROVE IInv'
    OBVIOUS
  <1>1. RingInv'
    BY StepsOfRing, StepRingInv DEF IInv
  <1>2. Front(fifo) \in Word
    BY GotRing DEF IInv, RingInv
  <1>3. TypeOK'
    BY <1>1, <1>2, StepTypeOK DEF IInv, RingInv
  <1>. QED BY <1>1, <1>3 DEF IInv

LEMMA AlwaysIInv == Spec => []IInv
  <1>1. Init => IInv
    BY InitIInv
  <1>2. IInv /\ [Next]_vars => IInv'
    BY NextIInv
  <1>. QED BY <1>1, <1>2, PTL DEF Spec

\* The registers, lines and the ring have their types: no index leaves the ring.
THEOREM TypeCorrect == Spec => []TypeOK
  <1>1. IInv => TypeOK
    BY DEF IInv
  <1>. QED BY <1>1, AlwaysIInv, PTL

\* The two flags of ECR always tell whether the ring is empty or full.
THEOREM FlagsCorrect == Spec => []FlagsTellFill
  <1>1. IInv => FlagsTellFill
    BY DEF IInv, RingInv, FlagsOK, FlagsTellFill
  <1>. QED BY <1>1, AlwaysIInv, PTL

\* A read of the empty FIFO delivers the word read last (usb2lpt6.c:179).
THEOREM EmptyReadRepeats == Spec => []EmptyRepeatsLast
  <1>1. IInv => EmptyRepeatsLast
    BY DEF IInv, RingInv, FlagsOK, Keeps, Front, EmptyRepeatsLast
  <1>. QED BY <1>1, AlwaysIInv, PTL

\* PutFifo, GetFifo, the bit commands, the transfers and out402 implement a
\* bounded queue of FIFOSIZE words.
THEOREM RingIsQueue == Spec => ActsAsQueue
  <1>1. Init => Queue!Init
    <2>. SUFFICES ASSUME Init PROVE Queue!Init
      OBVIOUS
    <2>1. Contents(fifo) = <<>>
      <3>1. IInv
        BY InitIInv
      <3>2. fifo.empty
        BY DEF Init
      <3>. QED BY <3>1, <3>2, ContentsSeq DEF IInv, RingInv
    <2>. QED BY <2>1 DEF Queue!Init, Init
  <1>2. IInv /\ [Next]_vars => [Queue!Next]_Queue!vars
    BY StepsOfRing, StepImplements DEF IInv
  <1>. QED BY <1>1, <1>2, AlwaysIInv, PTL DEF Spec, ActsAsQueue, Queue!Spec
-----------------------------------------------------------------------------
(* The handshakes *)

\* What the theorems below assume of the host: it changes mode and direction
\* between two words only, leaves /STB high, and turns to input with /AF low.
PoliteHost == Polite /\ \A c \in Controls : c.stb /\ (c.input => ~c.af)

\* Output: a word is under way while /STB is low and the peripheral is not busy.
OutInv ==
  /\ sent \in Seq(Word) /\ received \in Seq(Word)
  /\ stb \/ busy => received = sent
  /\ ~stb /\ ~busy => sent = Append(received, <<out, af>>)
  /\ ~stb => mode = 3 /\ ~input
  /\ at = "second" /\ ~input => ~stb

\* Input: a word is under way from /ACK low until /AF is low again.
InInv ==
  /\ offered \in Seq(Word) /\ fetched \in Seq(Word)
  /\ input /\ (af \/ ~ack) => offered = Append(fetched, offer)
  /\ ~input \/ (~af /\ ack) => offered = fetched
  /\ ~input => ack
  /\ at = "second" /\ input => af

WordInv == IInv /\ OutInv /\ InInv

LEMMA StepOutInv ==
  ASSUME PoliteHost, IInv, OutInv, [Next]_vars
  PROVE  OutInv'
  <1>. USE DEF OutInv, Goto
  <1>0. /\ Front(fifo) \in Word /\ <<Front(fifo)[1], Front(fifo)[2]>> = Front(fifo)
        /\ Front(fifo)[1] \in Bytes
    BY GotRing DEF IInv, RingInv, Word
  <1>t. /\ out \in Bytes /\ af \in BOOLEAN /\ stb \in BOOLEAN /\ busy \in BOOLEAN
        /\ input \in BOOLEAN
    BY DEF IInv, TypeOK
  <1>1. CASE UNCHANGED vars
    BY <1>1 DEF vars
  <1>2. CASE Loop
    <2>1. CASE NoXfer \/ PollDone
      BY <2>1 DEF NoXfer, PollDone, port, lines, device
    <2>2. CASE SppXfer
      <3>1. CASE fifo.empty \/ busy
        BY <2>2, <3>1 DEF SppXfer, port, lines, device
      <3>2. CASE ~(fifo.empty \/ busy)
        <4>1. stb /\ received = sent
          BY <2>2 DEF SppXfer
        <4>2. out' \in Bytes /\ <<out', af>> \in Word
          BY <1>0, <1>t, <2>2, <3>2 DEF SppXfer, Word
        <4>. QED BY <2>2, <3>2, <4>1, <4>2, AppendProperties DEF SppXfer, port
      <3>. QED BY <3>1, <3>2
    <2>3. CASE EcpStrobe
      <3>1. CASE stb /\ ~fifo.empty /\ ~busy
        <4>1. /\ received' = sent /\ sent' = Append(sent, <<out', af'>>)
              /\ stb' = FALSE /\ busy' = FALSE /\ mode' = 3 /\ ~input'
          BY <1>0, <1>t, <2>3, <3>1 DEF EcpStrobe, port, device
        <4>2. <<out', af'>> \in Word
          BY <1>0, <2>3, <3>1 DEF EcpStrobe
        <4>. QED BY <4>1, <4>2, AppendProperties
      <3>2. CASE ~(stb /\ ~fifo.empty /\ ~busy)
        BY <2>3, <3>2 DEF EcpStrobe, port, lines, device
      <3>. QED BY <3>1, <3>2
    <2>4. CASE EcpStrobeEnd
      BY <2>4, <1>t DEF EcpStrobeEnd, port, device
    <2>5. CASE EcpAccept
      BY <2>5 DEF EcpAccept, port, device
    <2>6. CASE EcpRead
      BY <2>6 DEF EcpRead, port, device
    <2>. QED BY <1>2, <2>1, <2>2, <2>3, <2>4, <2>5, <2>6 DEF Loop
  <1>3. CASE Host
    <2>. USE DEF Command, port, lines, device
    <2>1. ASSUME NEW b \in Bytes, NEW data \in BOOLEAN, OutFifo(b, data)
          PROVE  OutInv'
      BY <2>1 DEF OutFifo, FifoModes
    <2>2. ASSUME NEW b \in Bytes, NEW data \in BOOLEAN, BitFifo(b, data)
          PROVE  OutInv'
      BY <2>2 DEF BitFifo
    <2>3. CASE InFifo
      BY <2>3 DEF InFifo
    <2>4. ASSUME NEW c \in Controls, Out2(c) PROVE OutInv'
      BY <2>4, <1>t DEF Out2, Quiet, PoliteHost
    <2>5. ASSUME NEW m \in Modes, Out402(m) PROVE OutInv'
      BY <2>5, <1>t DEF Out402, Quiet, PoliteHost
    <2>. QED BY <1>3, <2>1, <2>2, <2>3, <2>4, <2>5 DEF Host
  <1>4. CASE Take
    <2>1. <<out, af>> \in Word
      BY <1>t DEF Word
    <2>. QED BY <1>4, <2>1, AppendProperties DEF Take, port, lines
  <1>5. CASE Ready \/ Release
    BY <1>5 DEF Ready, Release, port, lines
  <1>6. ASSUME NEW w \in Word, Offer(w) PROVE OutInv'
    BY <1>6 DEF Offer, port, lines
  <1>. QED BY <1>1, <1>2, <1>3, <1>4, <1>5, <1>6 DEF Next

LEMMA StepInInv ==
  ASSUME PoliteHost, IInv, InInv, [Next]_vars
  PROVE  InInv'
  <1>. USE DEF InInv, Goto
  <1>t. offer \in Word /\ af \in BOOLEAN /\ ack \in BOOLEAN /\ input \in BOOLEAN
    BY DEF IInv, TypeOK
  <1>1. CASE UNCHANGED vars
    BY <1>1 DEF vars
  <1>2. CASE Loop
    <2>1. CASE NoXfer \/ PollDone
      BY <2>1 DEF NoXfer, PollDone, port, lines, device
    <2>2. CASE SppXfer
      BY <2>2 DEF SppXfer, port
    <2>3. CASE EcpStrobe
      BY <2>3 DEF EcpStrobe, port, device
    <2>4. CASE EcpStrobeEnd
      BY <2>4 DEF EcpStrobeEnd, port, device
    <2>5. CASE EcpAccept
      BY <2>5, <1>t DEF EcpAccept, port, device
    <2>6. CASE EcpRead
      BY <2>6, <1>t, AppendProperties DEF EcpRead, port, device
    <2>. QED BY <1>2, <2>1, <2>2, <2>3, <2>4, <2>5, <2>6 DEF Loop
  <1>3. CASE Host
    <2>. USE DEF Command, port, lines, device
    <2>1. ASSUME NEW b \in Bytes, NEW data \in BOOLEAN, OutFifo(b, data)
          PROVE  InInv'
      BY <2>1 DEF OutFifo
    <2>2. ASSUME NEW b \in Bytes, NEW data \in BOOLEAN, BitFifo(b, data)
          PROVE  InInv'
      BY <2>2 DEF BitFifo
    <2>3. CASE InFifo
      BY <2>3 DEF InFifo
    <2>4. ASSUME NEW c \in Controls, Out2(c) PROVE InInv'
      BY <2>4, <1>t DEF Out2, Quiet, SetDirection, PoliteHost
    <2>5. ASSUME NEW m \in Modes, Out402(m) PROVE InInv'
      BY <2>5, <1>t DEF Out402, Quiet, SetDirection, PoliteHost
    <2>. QED BY <1>3, <2>1, <2>2, <2>3, <2>4, <2>5 DEF Host
  <1>4. CASE Take \/ Ready \/ Release
    BY <1>4, <1>t DEF Take, Ready, Release, port, lines
  <1>5. ASSUME NEW w \in Word, Offer(w) PROVE InInv'
    BY <1>5, AppendProperties DEF Offer, port, lines
  <1>. QED BY <1>1, <1>2, <1>3, <1>4, <1>5 DEF Next

LEMMA AlwaysWordInv ==
  ASSUME PoliteHost
  PROVE  Spec => []WordInv
  <1>1. Init => WordInv
    <2>. SUFFICES ASSUME Init PROVE WordInv
      OBVIOUS
    <2>1. IInv
      BY InitIInv
    <2>2. OutInv /\ InInv
      BY DEF Init, OutInv, InInv
    <2>. QED BY <2>1, <2>2 DEF WordInv
  <1>2. WordInv /\ [Next]_vars => WordInv'
    BY NextIInv, StepOutInv, StepInInv DEF WordInv
  <1>. QED BY <1>1, <1>2, PTL DEF Spec

\* With a polite host the peripheral takes each word the firmware sends, once and
\* in order, in the SPP FIFO and the ECP mode.
THEOREM WordsTakenOnce ==
  ASSUME PoliteHost
  PROVE  Spec => []EachWordTaken
  <1>1. WordInv => EachWordTaken
    BY DEF WordInv, IInv, TypeOK, OutInv, EachWordTaken
  <1>. QED BY <1>1, AlwaysWordInv, PTL

\* With a polite host the firmware reads each word the peripheral offers, once
\* and in order.
THEOREM WordsReadOnce ==
  ASSUME PoliteHost
  PROVE  Spec => []EachOfferRead
  <1>1. WordInv => EachOfferRead
    <2>. SUFFICES ASSUME WordInv PROVE EachOfferRead
      OBVIOUS
    <2>. offered \in Seq(Word) /\ fetched \in Seq(Word) /\ offer \in Word
      BY DEF WordInv, IInv, TypeOK, InInv
    <2>1. CASE offered = fetched
      BY <2>1, SubSeqFull, LenProperties DEF EachOfferRead
    <2>2. CASE offered = Append(fetched, offer)
      <3>1. Len(offered) = Len(fetched) + 1 /\ Len(fetched) \in Nat
        BY <2>2, AppendProperties, LenProperties
      <3>2. SubSeq(offered, 1, Len(fetched)) = fetched
        BY <2>2, AppendProperties
      <3>. QED BY <3>1, <3>2 DEF EachOfferRead
    <2>. QED BY <2>1, <2>2 DEF WordInv, IInv, TypeOK, InInv
  <1>. QED BY <1>1, AlwaysWordInv, PTL

\* Both directions: each word is handed over once and in order.
THEOREM WordsOnce ==
  ASSUME PoliteHost
  PROVE  Spec => []EachWordOnce
  <1>1. EachWordTaken /\ EachOfferRead => EachWordOnce
    BY DEF EachWordOnce
  <1>. QED BY <1>1, WordsTakenOnce, WordsReadOnce, PTL
-----------------------------------------------------------------------------
(***************************************************************************)
(* BootLoader: what the tool calls a success is one, and what runs is a    *)
(* whole firmware, for any sizes of page, block, flash and image and any   *)
(* number of broken transfers and losses of power.  The difficulty is the  *)
(* page buffer, which survives a broken transfer: the next one finds words *)
(* in it.                                                                  *)
(***************************************************************************)

\* A transfer breaks while the first page of a block is filled, or between two
\* pages.  One that breaks elsewhere leaves words of another page behind (README,
\* Findings).
BreaksHarmless == \A n \in Breaks : n < PageWords \/ B!Place(n) = 0

\* The page of flash that the buffer's words are for begins here.
PageOf(a) == PageWords * B!Page(a)

\* The device is amid the block that starts at `start`.
Amid == todo > 0 \/ (pc = "data" /\ handle /\ given > 0)

\* What the buffer holds belongs to the page that begins at p.
BufferFor(p) == \A w \in 0 .. PageWords - 1 : buffer[w] \in {B!None, B!Image(p + w)}

\* The tool and the device agree on the block, and the packet at work is part of it.
InStep ==
  /\ handle \/ todo > 0 => state = "boot"
  /\ pc = "data" /\ todo > 0 => handle
  /\ todo > 0 => given > 0 /\ pc \in {"open", "info", "setup", "data", "failed"}
  /\ pc = "data" /\ handle => offset = given
  /\ Amid => addr >= start /\ addr + todo = start + given /\ end <= FlashWords
                           /\ start + BlockWords <= B!RoundUp(end)
  /\ todo > 0 /\ pc # "data" => given \in Breaks

\* A block begins here.
OnBlock(a) == a % BlockWords = 0

\* The tool's progress: whole blocks, of an image that fits.
Progress ==
  /\ OnBlock(start) /\ start <= B!RoundUp(end)
  /\ end > FlashWords => start = 0 /\ pc \in {"open", "info", "failed"}
  /\ pc = "data" => start < B!RoundUp(end)
  /\ pc \in {"ask", "ok"} => start = B!RoundUp(end) /\ todo = 0
  /\ pc # "failed" => tries < Tries

\* Words of the block amid which the device is: its full pages are in the flash,
\* the others in the buffer; otherwise the buffer is fit for the begin of a block.
Filled ==
  /\ Amid =>
       /\ BufferFor(PageOf(addr))
       /\ \A w \in 0 .. PageWords - 1 : w < B!Place(addr) => buffer[w] # B!None
       /\ start < PageOf(addr) =>
            \A w \in 0 .. PageWords - 1 : w >= B!Place(addr) => buffer[w] = B!None
       /\ pc = "data" => \A a \in B!Cells : start <= a /\ a < PageOf(addr) => flash[a] = B!Image(a)
  /\ ~Amid => BufferFor(start)

\* The blocks before it are written, and stay so.
Written == \A a \in B!Cells : a < start => flash[a] = B!Image(a)

\* The device leaves the boot loader when all is done, and not before.
LeavesLast ==
  /\ exit => pc = "ok"
  /\ ~magic => pc = "ok"
  /\ state = "app" => ~magic

BootTypes ==
  /\ B!TypeOK /\ end \in Ends
  /\ handle \in BOOLEAN /\ exit \in BOOLEAN /\ magic \in BOOLEAN /\ opened \in BOOLEAN

BootIInv == BootTypes /\ InStep /\ Progress /\ Filled /\ Written /\ LeavesLast
-----------------------------------------------------------------------------
(* Division.  Pages and blocks are aligned ranges of numbers. *)

LEMMA DivMod ==
  ASSUME NEW n \in Nat \ {0}, NEW a \in Nat
  PROVE  /\ a \div n \in Nat /\ a % n \in 0 .. n - 1
         /\ a = n * (a \div n) + (a % n)
  OBVIOUS

LEMMA Multiples ==
  ASSUME NEW n \in Nat \ {0}, NEW x \in Int, NEW y \in Int
  PROVE  /\ n * x \in Int /\ n * (x + 1) = n * x + n
         /\ x < y => n * x + n <= n * y
         /\ x <= y => n * x <= n * y
         /\ x >= 0 => n * x >= 0
  OBVIOUS

\* Quotient and remainder are the only ones.
LEMMA DivUnique ==
  ASSUME NEW n \in Nat \ {0}, NEW a \in Nat, NEW q \in Int, NEW r \in 0 .. n - 1,
         a = n * q + r
  PROVE  a \div n = q /\ a % n = r
  <1>1. a \div n \in Nat /\ a % n \in 0 .. n - 1 /\ a = n * (a \div n) + (a % n)
    BY DivMod
  <1>2. ~(a \div n < q) /\ ~(q < a \div n)
    BY <1>1, Multiples
  <1>3. a \div n = q
    BY <1>1, <1>2
  <1>. QED BY <1>1, <1>3

\* A multiple stays one, and the next one is a whole step away.
LEMMA MultipleSteps ==
  ASSUME NEW n \in Nat \ {0}, NEW a \in Nat, a % n = 0
  PROVE  /\ a = n * (a \div n) /\ (a \div n) * n = a
         /\ (a + n) % n = 0
         /\ \A b \in Nat : b % n = 0 /\ a < b => a + n <= b
         /\ \A b \in Nat : a <= b => a <= n * (b \div n)
  <1>1. a \div n \in Nat /\ a = n * (a \div n)
    BY DivMod
  <1>2. (a + n) % n = 0
    <2>1. a + n = n * ((a \div n) + 1) + 0
      BY <1>1, Multiples
    <2>. QED BY <1>1, <2>1, DivUnique
  <1>3. ASSUME NEW b \in Nat, b % n = 0, a < b PROVE a + n <= b
    <2>1. b \div n \in Nat /\ b = n * (b \div n)
      BY <1>3, DivMod
    <2>2. ~(b \div n <= a \div n)
      BY <1>1, <1>3, <2>1, Multiples
    <2>. QED BY <1>1, <2>1, <2>2, Multiples
  <1>4. ASSUME NEW b \in Nat, a <= b PROVE a <= n * (b \div n)
    <2>1. b \div n \in Nat /\ b % n \in 0 .. n - 1 /\ b = n * (b \div n) + (b % n)
      BY DivMod
    <2>2. ~(b \div n < a \div n)
      BY <1>1, <1>4, <2>1, Multiples
    <2>. QED BY <1>1, <2>1, <2>2, Multiples
  <1>5. (a \div n) * n = n * (a \div n)
    BY <1>1
  <1>. QED BY <1>1, <1>2, <1>3, <1>4, <1>5

LEMMA Sizes ==
  /\ PageWords \in Nat \ {0} /\ BlockWords \in Nat \ {0} /\ FlashWords \in Nat \ {0}
  /\ First \in Nat \ {0} /\ Per \in Nat \ {0} /\ Tries \in Nat \ {0}
  /\ First <= BlockWords /\ BlockWords % PageWords = 0 /\ OnBlock(FlashWords)
  /\ Ends \subseteq Nat \ {0} /\ Breaks \subseteq 0 .. BlockWords /\ MaxFaults \in Nat
  BY FirmwareAssumption DEF B!BootAssumption, OnBlock

\* Pages are told by where they begin.
LEMMA PlaceInPage ==
  ASSUME NEW a \in Nat
  PROVE  /\ B!Page(a) \in Nat /\ B!Place(a) \in 0 .. PageWords - 1
         /\ PageOf(a) \in Nat /\ a = PageOf(a) + B!Place(a)
  <1>1. /\ B!Page(a) \in Nat /\ B!Place(a) \in 0 .. PageWords - 1
        /\ a = PageWords * B!Page(a) + B!Place(a)
    BY DivMod, Sizes DEF B!Page, B!Place
  <1>2. PageWords * B!Page(a) \in Nat
    BY <1>1, Multiples, Sizes
  <1>. QED BY <1>1, <1>2 DEF PageOf

LEMMA OnlyPlace ==
  ASSUME NEW a \in Nat, NEW q \in Int, NEW r \in 0 .. PageWords - 1, a = PageWords * q + r
  PROVE  B!Page(a) = q /\ B!Place(a) = r /\ PageOf(a) = PageWords * q
  BY DivUnique, Sizes DEF B!Page, B!Place, PageOf

\* The words of a page.
LEMMA SamePage ==
  ASSUME NEW a \in Nat, NEW b \in Nat
  PROVE  /\ B!Page(a) = B!Page(b) <=> PageOf(b) <= a /\ a < PageOf(b) + PageWords
         /\ B!Page(a) = B!Page(b) => a = PageOf(b) + B!Place(a)
  <1>1. ASSUME B!Page(a) = B!Page(b)
        PROVE  PageOf(b) <= a /\ a < PageOf(b) + PageWords /\ a = PageOf(b) + B!Place(a)
    <2>1. PageOf(b) = PageOf(a)
      BY <1>1 DEF PageOf
    <2>. QED BY <2>1, PlaceInPage, Sizes
  <1>2. ASSUME PageOf(b) <= a, a < PageOf(b) + PageWords
        PROVE  B!Page(a) = B!Page(b)
    <2>1. PICK r \in 0 .. PageWords - 1 : a = PageOf(b) + r
      <3>1. a - PageOf(b) \in 0 .. PageWords - 1 /\ a = PageOf(b) + (a - PageOf(b))
        BY <1>2, PlaceInPage, Sizes
      <3>. QED BY <3>1
    <2>2. a = PageWords * B!Page(b) + r /\ B!Page(b) \in Int
      BY <2>1, PlaceInPage DEF PageOf
    <2>. QED BY <2>2, OnlyPlace
  <1>. QED BY <1>1, <1>2

\* The word behind a is on the same page, or the first one of the next.
LEMMA NextWord ==
  ASSUME NEW a \in Nat
  PROVE  /\ B!Place(a) = PageWords - 1 =>
              PageOf(a + 1) = a + 1 /\ B!Place(a + 1) = 0 /\ a + 1 = PageOf(a) + PageWords
         /\ B!Place(a) # PageWords - 1 =>
              PageOf(a + 1) = PageOf(a) /\ B!Place(a + 1) = B!Place(a) + 1
  <1>0. /\ B!Page(a) \in Nat /\ B!Place(a) \in 0 .. PageWords - 1
        /\ PageOf(a) \in Nat /\ a = PageOf(a) + B!Place(a) /\ PageWords \in Nat \ {0}
    BY PlaceInPage, Sizes
  <1>1. CASE B!Place(a) = PageWords - 1
    <2>1. a + 1 = PageOf(a) + PageWords
      BY <1>0, <1>1
    <2>2. PICK q \in Nat : a + 1 = PageWords * q + 0
      <3>1. PageWords * (B!Page(a) + 1) = PageOf(a) + PageWords
        BY <1>0, Multiples DEF PageOf
      <3>2. B!Page(a) + 1 \in Nat /\ a + 1 = PageWords * (B!Page(a) + 1) + 0
        BY <1>0, <2>1, <3>1
      <3>. QED BY <3>2
    <2>3. 0 \in 0 .. PageWords - 1
      BY Sizes
    <2>4. B!Place(a + 1) = 0
      BY <2>2, <2>3, OnlyPlace
    <2>5. PageOf(a + 1) \in Nat /\ a + 1 = PageOf(a + 1) + B!Place(a + 1)
      BY PlaceInPage
    <2>. QED BY <1>1, <2>1, <2>4, <2>5
  <1>2. CASE B!Place(a) # PageWords - 1
    <2>1. PICK r \in 0 .. PageWords - 1 : a + 1 = PageOf(a) + r /\ r = B!Place(a) + 1
      <3>1. B!Place(a) + 1 \in 0 .. PageWords - 1 /\ a + 1 = PageOf(a) + (B!Place(a) + 1)
        BY <1>0, <1>2
      <3>. QED BY <3>1
    <2>2. a + 1 = PageWords * B!Page(a) + r /\ B!Page(a) \in Int
      BY <1>0, <2>1 DEF PageOf
    <2>3. B!Place(a + 1) = r /\ PageOf(a + 1) = PageOf(a)
      BY <2>2, OnlyPlace DEF PageOf
    <2>. QED BY <1>2, <2>1, <2>3
  <1>. QED BY <1>1, <1>2

\* A block consists of whole pages.
LEMMA BlockOfPages ==
  ASSUME NEW a \in Nat, OnBlock(a)
  PROVE  B!Place(a) = 0 /\ PageOf(a) = a
  <1>1. PICK k \in Nat : BlockWords = PageWords * k
    <2>1. /\ BlockWords \div PageWords \in Nat
          /\ BlockWords = PageWords * (BlockWords \div PageWords)
      BY Sizes, MultipleSteps, DivMod
    <2>. QED BY <2>1
  <1>2. PICK m \in Nat : a = BlockWords * m
    <2>1. a \div BlockWords \in Nat /\ a = BlockWords * (a \div BlockWords)
      BY Sizes, MultipleSteps, DivMod DEF OnBlock
    <2>. QED BY <2>1
  <1>3. k * m \in Nat /\ a = PageWords * (k * m) + 0 /\ 0 \in 0 .. PageWords - 1
    BY <1>1, <1>2, Sizes
  <1>. QED BY <1>3, OnlyPlace, PlaceInPage

\* What lies in front of an aligned word lies on another page than what does not.
LEMMA PagesApart ==
  ASSUME NEW s \in Nat, NEW a \in Nat, B!Place(s) = 0, s <= a
  PROVE  s <= PageOf(a)
  BY MultipleSteps, PlaceInPage, Sizes DEF PageOf, B!Page, B!Place

\* Blocks follow each other.
LEMMA NextBlock ==
  ASSUME NEW a \in Nat, OnBlock(a)
  PROVE  /\ OnBlock(a + BlockWords) /\ (a \div BlockWords) * BlockWords = a
         /\ \A b \in Nat : OnBlock(b) /\ a < b => a + BlockWords <= b
  BY MultipleSteps, Sizes DEF OnBlock

\* The image's end, rounded up to blocks.
LEMMA Rounded ==
  ASSUME NEW e \in Nat
  PROVE  /\ B!RoundUp(e) \in Nat /\ OnBlock(B!RoundUp(e)) /\ e <= B!RoundUp(e)
         /\ e <= FlashWords => B!RoundUp(e) <= FlashWords
  <1>. DEFINE x == e + BlockWords - 1
  <1>1. x \in Nat
    BY Sizes
  <1>2. PICK q \in Nat, r \in 0 .. BlockWords - 1 :
          x = BlockWords * q + r /\ q = x \div BlockWords
    BY <1>1, DivMod, Sizes
  <1>3. B!RoundUp(e) = BlockWords * q + 0 /\ BlockWords * q \in Nat
    <2>1. B!RoundUp(e) = q * BlockWords
      BY <1>2 DEF B!RoundUp
    <2>. QED BY <1>2, <2>1, Sizes, Multiples
  <1>4. OnBlock(B!RoundUp(e))
    <2>1. B!RoundUp(e) \in Nat /\ q \in Int /\ 0 \in 0 .. BlockWords - 1
      BY <1>3, Sizes
    <2>. QED BY <1>3, <2>1, DivUnique, Sizes DEF OnBlock
  <1>5. e <= B!RoundUp(e) /\ B!RoundUp(e) < e + BlockWords
    BY <1>2, <1>3, Sizes
  <1>6. ASSUME e <= FlashWords PROVE B!RoundUp(e) <= FlashWords
    <2>1. FlashWords < B!RoundUp(e) => FlashWords + BlockWords <= B!RoundUp(e)
      BY <1>3, <1>4, NextBlock, Sizes
    <2>. QED BY <1>3, <1>5, <1>6, <2>1, Sizes
  <1>. QED BY <1>3, <1>4, <1>5, <1>6
-----------------------------------------------------------------------------
(* The device stores a word. *)

\* Where the device is when it has taken all that was sent of a broken block.
LEMMA AfterBreak ==
  ASSUME BreaksHarmless, NEW s \in Nat, OnBlock(s), NEW n \in Breaks, n > 0,
         NEW m \in Nat, m = s + n
  PROVE  \/ B!Place(m) = 0 /\ PageOf(m) > s
         \/ B!Place(m) > 0 /\ PageOf(m) = s
  <1>1. n \in Nat /\ B!Place(s) = 0 /\ PageOf(s) = s /\ PageWords \in Nat \ {0}
    BY BlockOfPages, Sizes
  <1>2. /\ B!Place(m) \in Nat /\ PageOf(m) \in Nat
        /\ m = PageOf(m) + B!Place(m)
    BY PlaceInPage
  <1>3. CASE n < PageWords
    <2>1. B!Page(m) = B!Page(s)
      BY <1>1, <1>3, SamePage
    <2>2. PageOf(m) = s
      BY <1>1, <2>1 DEF PageOf
    <2>. QED BY <1>1, <1>2, <2>2
  <1>4. CASE B!Place(n) = 0
    <2>1. PageOf(s) = PageWords * B!Page(s) /\ PageOf(n) = PageWords * B!Page(n)
      BY DEF PageOf
    <2>2. PageOf(n) = n /\ B!Page(n) \in Nat /\ B!Page(s) \in Nat
      BY <1>1, <1>4, PlaceInPage
    <2>3. m = PageWords * (B!Page(s) + B!Page(n)) + 0 /\ B!Page(s) + B!Page(n) \in Int
      BY <1>1, <2>1, <2>2
    <2>4. 0 \in 0 .. PageWords - 1
      BY <1>1
    <2>5. B!Place(m) = 0
      BY <1>1, <2>3, <2>4, OnlyPlace
    <2>. QED BY <1>1, <1>2, <2>5
  <1>. QED BY <1>3, <1>4 DEF BreaksHarmless

\* What a state that satisfies the invariant says of the numbers in it.
LEMMA Numbers ==
  ASSUME BootIInv
  PROVE  /\ end \in Nat \ {0} /\ start \in Nat /\ start <= FlashWords /\ B!RoundUp(end) \in Nat
         /\ addr \in Nat /\ addr <= FlashWords /\ given \in Nat /\ given <= BlockWords
         /\ offset \in Nat /\ todo \in Nat /\ todo <= BlockWords /\ tries \in Nat
         /\ OnBlock(start) /\ B!Place(start) = 0 /\ PageOf(start) = start
         /\ end <= FlashWords => B!RoundUp(end) <= FlashWords
  <1>1. end \in Nat \ {0} /\ start \in Nat /\ OnBlock(start)
    BY Sizes DEF BootIInv, BootTypes, B!TypeOK, Progress
  <1>. QED BY <1>1, Rounded, BlockOfPages, Sizes DEF BootIInv, BootTypes, B!TypeOK

\* A word that is stored lies in the block, and fits into the flash.
LEMMA StoreInBlock ==
  ASSUME BootIInv, B!Store
  PROVE  /\ Amid /\ state = "boot" /\ todo > 0 /\ given > 0 /\ end <= FlashWords
         /\ start <= addr /\ addr + todo = start + given /\ addr + 1 <= FlashWords
         /\ start <= PageOf(addr) /\ addr \in Nat
  <1>1. todo > 0 /\ state = "boot" /\ Amid
    BY DEF B!Store, Amid
  <1>2. /\ given > 0 /\ end <= FlashWords /\ start <= addr /\ addr + todo = start + given
        /\ start + BlockWords <= B!RoundUp(end)
    BY <1>1 DEF BootIInv, InStep
  <1>3. addr + 1 <= FlashWords
    BY <1>1, <1>2, Numbers, Sizes
  <1>. QED BY <1>1, <1>2, <1>3, Numbers, PagesApart

\* With its last word, a page is in the flash as it is in the image; until then
\* its words are in the buffer.  No other page is touched.
LEMMA StoreResult ==
  ASSUME BootIInv, B!Store
  PROVE  /\ flash' \in [B!Cells -> Int] /\ buffer' \in [0 .. PageWords - 1 -> Int]
         /\ \A a \in B!Cells : ~(PageOf(addr) <= a /\ a < PageOf(addr) + PageWords) => flash'[a] = flash[a]
         /\ B!Place(addr) = PageWords - 1 =>
              /\ buffer' = B!NoBuffer
              /\ \A a \in B!Cells : PageOf(addr) <= a
                   /\ a < PageOf(addr) + PageWords => flash'[a] = B!Image(a)
         /\ B!Place(addr) # PageWords - 1 =>
              \A w \in 0 .. PageWords - 1 :
                 /\ buffer'[w] \in {B!None, B!Image(PageOf(addr) + w)}
                 /\ w <= B!Place(addr) => buffer'[w] # B!None
                 /\ w > B!Place(addr) => buffer'[w] = buffer[w]
  <1>. DEFINE w0 == B!Place(addr)
              filled == B!Fill(w0, B!Image(addr))
              clear == IF w0 = 0 THEN [a \in B!Cells |-> IF B!Page(a) = B!Page(addr) THEN B!Erased ELSE flash[a]]
                                 ELSE flash
  <1>1. /\ addr \in Nat /\ w0 \in 0 .. PageWords - 1 /\ PageOf(addr) \in Nat
        /\ addr = PageOf(addr) + w0 /\ PageWords \in Nat \ {0}
    BY StoreInBlock, PlaceInPage, Sizes
  <1>2. flash \in [B!Cells -> Int] /\ buffer \in [0 .. PageWords - 1 -> Int] /\ end \in Nat
    BY Numbers DEF BootIInv, BootTypes, B!TypeOK
  <1>3. B!Cells \subseteq Nat /\ \A a \in Nat : B!Image(a) \in Int /\ B!Image(a) # B!None
    BY <1>2 DEF B!Cells, B!Image, B!Erased, B!None
  <1>4. /\ \A w \in 0 .. PageWords - 1 : buffer[w] \in {B!None, B!Image(PageOf(addr) + w)}
        /\ \A w \in 0 .. PageWords - 1 : w < w0 => buffer[w] # B!None
    BY StoreInBlock DEF BootIInv, Filled, BufferFor
  <1>5. /\ filled \in [0 .. PageWords - 1 -> Int]
        /\ \A w \in 0 .. PageWords - 1 : /\ filled[w] \in {B!None, B!Image(PageOf(addr) + w)}
                                         /\ w <= w0 => filled[w] # B!None
                                         /\ w > w0 => filled[w] = buffer[w]
    <2>1. filled \in [0 .. PageWords - 1 -> Int]
      BY <1>1, <1>2, <1>3 DEF B!Fill
    <2>2. \A w \in 0 .. PageWords - 1 : w # w0 => filled[w] = buffer[w]
      BY <1>1, <1>2 DEF B!Fill
    <2>3. filled[w0] = B!Image(PageOf(addr) + w0)
      BY <1>1, <1>2, <1>4 DEF B!Fill
    <2>4. filled[w0] # B!None
      BY <1>1, <1>3, <2>3
    <2>. HIDE DEF filled, w0
    <2>. QED BY <1>1, <1>4, <2>1, <2>2, <2>3, <2>4
  <1>6. clear \in [B!Cells -> Int] /\ \A a \in B!Cells : B!Page(a) # B!Page(addr) => clear[a] = flash[a]
    BY <1>2 DEF B!Erased
  <1>7. /\ w0 = PageWords - 1 =>
             /\ flash' = [a \in B!Cells |-> IF B!Page(a) = B!Page(addr) THEN filled[B!Place(a)] ELSE clear[a]]
             /\ buffer' = B!NoBuffer
        /\ w0 # PageWords - 1 => flash' = clear /\ buffer' = filled
    BY DEF B!Store
  <1>8. \A a \in B!Cells : /\ B!Page(a) = B!Page(addr) <=> PageOf(addr) <= a /\ a < PageOf(addr) + PageWords
                           /\ B!Place(a) \in 0 .. PageWords - 1
                           /\ B!Page(a) = B!Page(addr) => a = PageOf(addr) + B!Place(a)
    BY <1>1, <1>3, SamePage, PlaceInPage
  <1>9. B!NoBuffer \in [0 .. PageWords - 1 -> Int]
    BY DEF B!NoBuffer, B!None
  <1>. HIDE DEF filled, clear
  <1>10. CASE w0 = PageWords - 1
    <2>. HIDE DEF w0
    <2>1. \A a \in B!Cells : flash'[a] = IF B!Page(a) = B!Page(addr) THEN filled[B!Place(a)] ELSE clear[a]
      BY <1>7, <1>10
    <2>2. \A a \in B!Cells : B!Page(a) = B!Page(addr) => flash'[a] = B!Image(a)
      BY <1>1, <1>5, <1>8, <1>10, <2>1
    <2>3. flash' \in [B!Cells -> Int]
      BY <1>5, <1>6, <1>7, <1>8, <1>10
    <2>. QED BY <1>6, <1>7, <1>8, <1>9, <1>10, <2>1, <2>2, <2>3 DEF w0
  <1>11. CASE w0 # PageWords - 1
    BY <1>5, <1>6, <1>7, <1>8, <1>11
  <1>. QED BY <1>10, <1>11
LEMMA StoreStep ==
  ASSUME BreaksHarmless, BootIInv, B!Store
  PROVE  BootIInv'
  <1>1. /\ addr' = addr + 1 /\ todo' = todo - 1 /\ UNCHANGED <<state, offset, magic, exit, faults>>
        /\ UNCHANGED <<pc, end, start, given, tries, opened, handle, waits>>
    BY DEF B!Store, B!tool
  <1>2. /\ Amid /\ state = "boot" /\ todo > 0 /\ given > 0 /\ end <= FlashWords
        /\ start <= addr /\ addr + todo = start + given /\ addr + 1 <= FlashWords
        /\ start <= PageOf(addr) /\ addr \in Nat
    BY StoreInBlock
  <1>3. /\ B!Place(addr) \in 0 .. PageWords - 1 /\ PageOf(addr) \in Nat /\ PageWords \in Nat \ {0}
        /\ addr = PageOf(addr) + B!Place(addr)
    BY <1>2, PlaceInPage, Sizes
  <1>4. B!Cells \subseteq Nat /\ \A a : B!Image(a)' = B!Image(a)
    BY <1>1 DEF B!Cells, B!Image
  <1>5. BootTypes'
    <2>1. addr' \in 0 .. FlashWords /\ todo' \in 0 .. BlockWords
      BY <1>1, <1>2, Numbers, Sizes
    <2>. QED BY <1>1, <2>1, StoreResult DEF BootIInv, BootTypes, B!TypeOK
  <1>6. InStep'
    <2>1. B!RoundUp(end)' = B!RoundUp(end)
      BY <1>1 DEF B!RoundUp
    <2>2. start + BlockWords <= B!RoundUp(end)
      BY <1>2 DEF BootIInv, InStep
    <2>3. (addr + todo)' = (start + given)' /\ addr' >= start'
      BY <1>1, <1>2, Numbers
    <2>4. todo' > 0 => todo > 0
      BY <1>2
    <2>. QED BY <1>1, <1>2, <2>1, <2>2, <2>3, <2>4 DEF BootIInv, InStep
  <1>7. Progress'
    <2>1. pc \notin {"ask", "ok"}
      BY <1>2 DEF BootIInv, InStep
    <2>. QED BY <1>1, <2>1 DEF BootIInv, Progress, B!RoundUp
  <1>8. Written'
    <2>1. ASSUME NEW a \in B!Cells, a < start PROVE flash'[a] = flash[a] /\ flash[a] = B!Image(a)
      BY <1>2, <1>3, <1>4, <2>1, StoreResult, Numbers DEF BootIInv, Written
    <2>. QED BY <1>1, <1>4, <2>1 DEF Written
  <1>9. LeavesLast'
    BY <1>1 DEF BootIInv, LeavesLast
  <1>10. Filled'
    <2>1. CASE B!Place(addr) = PageWords - 1
      <3>1. buffer' = B!NoBuffer /\ \A w \in 0 .. PageWords - 1 : buffer'[w] = B!None
        BY <2>1, StoreResult DEF B!NoBuffer
      <3>2. PageOf(addr') = PageOf(addr) + PageWords /\ B!Place(addr') = 0
        BY <1>1, <1>2, <2>1, NextWord
      <3>3. ASSUME pc = "data", NEW a \in B!Cells, start <= a, a < PageOf(addr')
            PROVE  flash'[a] = B!Image(a)
        <4>1. CASE a < PageOf(addr)
          <5>1. flash[a] = B!Image(a)
            BY <1>2, <3>3, <4>1 DEF BootIInv, Filled
          <5>. QED BY <1>3, <1>4, <4>1, <5>1, StoreResult
        <4>2. CASE ~(a < PageOf(addr))
          BY <1>3, <1>4, <2>1, <3>2, <3>3, <4>2, StoreResult
        <4>. QED BY <4>1, <4>2
      <3>4. BufferFor(PageOf(addr))' /\ BufferFor(start)'
        BY <3>1 DEF BufferFor
      <3>. QED BY <1>1, <1>4, <3>1, <3>2, <3>3, <3>4 DEF Filled
    <2>2. CASE B!Place(addr) # PageWords - 1
      <3>1. PageOf(addr') = PageOf(addr) /\ B!Place(addr') = B!Place(addr) + 1
        BY <1>1, <1>2, <2>2, NextWord
      <3>2. \A w \in 0 .. PageWords - 1 :
                 /\ buffer'[w] \in {B!None, B!Image(PageOf(addr) + w)}
                 /\ w < B!Place(addr') => buffer'[w] # B!None
                 /\ w >= B!Place(addr') => buffer'[w] = buffer[w]
        BY <1>3, <2>2, <3>1, StoreResult
      <3>3. BufferFor(PageOf(addr))'
        BY <1>4, <3>1, <3>2 DEF BufferFor
      <3>4. start < PageOf(addr) => \A w \in 0 .. PageWords - 1 : w >= B!Place(addr') => buffer'[w] = B!None
        <4>1. start < PageOf(addr) => \A w \in 0 .. PageWords - 1 : w >= B!Place(addr) => buffer[w] = B!None
          BY <1>2 DEF BootIInv, Filled
        <4>. QED BY <1>3, <3>1, <3>2, <4>1
      <3>5. ASSUME pc = "data", NEW a \in B!Cells, start <= a, a < PageOf(addr')
            PROVE  flash'[a] = B!Image(a)
        <4>1. flash[a] = B!Image(a)
          BY <1>2, <3>1, <3>5 DEF BootIInv, Filled
        <4>. QED BY <1>3, <1>4, <3>1, <3>5, <4>1, StoreResult
      <3>6. ASSUME ~Amid' PROVE BufferFor(start)'
        <4>1. todo' = 0 /\ pc # "data" /\ given \in Breaks
          BY <1>1, <1>2, <3>6, Numbers DEF BootIInv, InStep, Amid
        <4>2. addr' = start + given /\ addr' \in Nat
          BY <1>1, <1>2, <4>1, Numbers
        <4>3. B!Place(addr') > 0
          BY <1>3, <3>1
        <4>4. PageOf(addr') = start
          BY <1>2, <4>1, <4>2, <4>3, AfterBreak, Numbers
        <4>. QED BY <1>1, <3>1, <3>3, <4>4 DEF BufferFor
      <3>. QED BY <1>1, <1>4, <3>1, <3>2, <3>3, <3>4, <3>5, <3>6 DEF Filled
    <2>. QED BY <2>1, <2>2
  <1>. QED BY <1>5, <1>6, <1>7, <1>8, <1>9, <1>10 DEF BootIInv
-----------------------------------------------------------------------------
(* The device leaves the boot loader, and its power fails. *)

LEMMA LeaveStep ==
  ASSUME BootIInv, B!Leave
  PROVE  BootIInv'
  <1>1. pc = "ok" /\ todo = 0 /\ todo' = 0
    BY DEF B!Leave, BootIInv, LeavesLast
  <1>2. UNCHANGED <<flash, buffer, addr, pc, end, start>> /\ ~Amid /\ ~Amid'
    BY <1>1 DEF B!Leave, Amid
  <1>3. BootTypes' /\ InStep' /\ Progress' /\ LeavesLast'
    BY <1>1, <1>2 DEF B!Leave, BootIInv, BootTypes, B!TypeOK, InStep, Progress, LeavesLast,
       B!RoundUp
  <1>4. Filled' /\ Written'
    BY <1>2 DEF BootIInv, Filled, BufferFor, Written, B!Image
  <1>. QED BY <1>3, <1>4 DEF BootIInv

LEMMA PowerFailStep ==
  ASSUME BootIInv, B!PowerFail
  PROVE  BootIInv'
  <1>1. /\ buffer' = B!NoBuffer /\ addr' = 0 /\ offset' = 0 /\ todo' = 0 /\ handle' = FALSE /\ ~Amid'
        /\ UNCHANGED <<flash, pc, end, start, given, tries, opened, waits>>
        /\ exit' = FALSE /\ state' = "off" /\ (magic' = magic \/ (exit /\ magic' \in BOOLEAN))
    BY DEF B!PowerFail, Amid, BootIInv, BootTypes
  <1>2. BootTypes'
    <2>1. B!NoBuffer \in [0 .. PageWords - 1 -> Int]
      BY DEF B!NoBuffer, B!None
    <2>2. faults' \in 0 .. MaxFaults
      BY Sizes DEF B!PowerFail, BootIInv, BootTypes, B!TypeOK
    <2>3. addr' \in 0 .. FlashWords /\ offset' \in 0 .. BlockWords /\ todo' \in 0 .. BlockWords
      BY <1>1, Sizes
    <2>. QED BY <1>1, <2>1, <2>2, <2>3 DEF BootIInv, BootTypes, B!TypeOK
  <1>3. InStep' /\ Progress' /\ LeavesLast'
    BY <1>1 DEF BootIInv, InStep, Progress, LeavesLast, B!RoundUp, BootTypes
  <1>4. Written' /\ Filled'
    BY <1>1 DEF BootIInv, Filled, BufferFor, B!NoBuffer, Written, B!Image
  <1>. QED BY <1>2, <1>3, <1>4 DEF BootIInv

LEMMA PowerUpStep ==
  ASSUME BootIInv, B!PowerUp
  PROVE  BootIInv'
  <1>1. /\ UNCHANGED <<flash, buffer, addr, offset, todo, magic, exit, faults>>
        /\ UNCHANGED <<pc, end, start, given, tries, opened, handle, waits>>
        /\ state = "off" /\ state' \in {"boot", "app"} /\ (state' = "app" => ~magic)
    BY DEF B!PowerUp, B!tool
  <1>2. BootTypes' /\ InStep' /\ Progress' /\ LeavesLast'
    BY <1>1 DEF BootIInv, BootTypes, B!TypeOK, InStep, Progress, LeavesLast, B!RoundUp, Amid
  <1>3. Written' /\ Filled'
    BY <1>1 DEF BootIInv, Filled, BufferFor, Written, B!Image, Amid
  <1>. QED BY <1>2, <1>3 DEF BootIInv
-----------------------------------------------------------------------------
(* The tool. *)

\* A step that leaves device and block alone, and is not part of a transfer.
LEMMA ToolStep ==
  ASSUME BootIInv, UNCHANGED <<state, flash, buffer, addr, todo, magic, end, start>>,
         Amid' <=> Amid, BootTypes', InStep', Progress', LeavesLast',
         Amid /\ pc' = "data" => pc = "data"
  PROVE  BootIInv'
  <1>1. Written' /\ Filled'
    BY DEF BootIInv, Filled, BufferFor, Written, B!Image
  <1>. QED BY <1>1 DEF BootIInv

\* uploadData returns false, however far it came.
LEMMA FailResult ==
  ASSUME BootIInv, B!Fail, pc # "failed"
  PROVE  /\ tries' \in 0 .. Tries /\ waits' = 0 /\ pc' \in {"open", "failed"}
         /\ pc' # "failed" => tries' < Tries
  BY Numbers, Sizes DEF B!Fail, BootIInv, Progress

LEMMA OpenStep ==
  ASSUME BootIInv, B!Open
  PROVE  BootIInv'
  <1>1. /\ pc = "open" /\ UNCHANGED <<state, flash, buffer, addr, offset, todo, magic, exit>>
        /\ UNCHANGED <<end, start, given, faults>>
        /\ (handle' = handle \/ (state = "boot" /\ handle'))
        /\ pc' \in {"open", "info", "failed"} /\ opened' \in BOOLEAN
        /\ waits' \in 0 .. 1 /\ tries' \in 0 .. Tries /\ (pc' # "failed" => tries' < Tries)
    <2>1. B!Fail => /\ tries' \in 0 .. Tries /\ waits' = 0 /\ pc' \in {"open", "failed"}
                    /\ pc' # "failed" => tries' < Tries
      BY FailResult DEF B!Open
    <2>2. /\ opened \in BOOLEAN /\ waits \in 0 .. 1 /\ tries \in 0 .. Tries
          /\ pc # "failed" => tries < Tries
      BY DEF BootIInv, BootTypes, B!TypeOK, Progress
    <2>3. CASE state = "boot"
      BY <2>2, <2>3 DEF B!Open, B!device
    <2>4. CASE state # "boot"
      <3>1. (waits' = 1 /\ UNCHANGED <<pc, tries>>) \/ B!Fail
        BY <2>4 DEF B!Open
      <3>2. /\ pc = "open" /\ UNCHANGED <<opened, handle, end, start, given, faults>>
            /\ UNCHANGED <<state, flash, buffer, addr, offset, todo, magic, exit>>
        BY <2>4 DEF B!Open, B!device
      <3>. QED BY <2>1, <2>2, <3>1, <3>2
    <2>. QED BY <2>3, <2>4
  <1>2. Amid' <=> Amid
    BY <1>1 DEF Amid
  <1>3. end \in Int /\ FlashWords \in Int
    BY Numbers, Sizes
  <1>4. handle' \in BOOLEAN
    BY <1>1 DEF BootIInv, BootTypes, B!TypeOK
  <1>5. BootTypes'
    BY <1>1, <1>4 DEF BootIInv, BootTypes, B!TypeOK, B!RoundUp
  <1>6. InStep'
    BY <1>1, <1>2, <1>3 DEF BootIInv, InStep
  <1>7. Progress'
    BY <1>1, <1>3 DEF BootIInv, Progress, B!RoundUp
  <1>8. LeavesLast'
    BY <1>1, <1>3 DEF BootIInv, LeavesLast
  <1>. QED BY <1>1, <1>2, <1>5, <1>6, <1>7, <1>8, ToolStep

LEMMA InfoStep ==
  ASSUME BootIInv, B!Info
  PROVE  BootIInv'
  <1>1. start' = start
    BY Numbers, NextBlock DEF B!Info
  <1>2. /\ pc = "info" /\ UNCHANGED <<state, flash, buffer, addr, offset, todo, magic, exit>>
        /\ UNCHANGED <<end, given, opened, handle, faults>>
        /\ pc' \in {"open", "setup", "failed"} /\ (pc' = "setup" => end <= FlashWords)
        /\ waits' \in 0 .. 1 /\ tries' \in 0 .. Tries /\ (pc' # "failed" => tries' < Tries)
    <2>1. B!Fail => /\ tries' \in 0 .. Tries /\ waits' = 0 /\ pc' \in {"open", "failed"}
                    /\ pc' # "failed" => tries' < Tries
      BY FailResult DEF B!Info
    <2>2. end \in Int /\ FlashWords \in Int
      BY Numbers, Sizes
    <2>. QED BY <2>1, <2>2, Sizes DEF B!Info, B!device, BootIInv, BootTypes, B!TypeOK, Progress
  <1>3. Amid' <=> Amid
    BY <1>2 DEF Amid
  <1>4. BootTypes' /\ InStep' /\ Progress' /\ LeavesLast'
    <2>1. end \in Int /\ FlashWords \in Int
      BY Numbers, Sizes
    <2>. QED BY <1>1, <1>2, <1>3, <2>1 DEF BootIInv, BootTypes, B!TypeOK, InStep, Progress,
       LeavesLast, B!RoundUp
  <1>. QED BY <1>1, <1>2, <1>3, <1>4, ToolStep

LEMMA SetupStep ==
  ASSUME BootIInv, B!Setup
  PROVE  BootIInv'
  <1>1. /\ pc = "setup" /\ todo = 0 /\ end <= FlashWords
        /\ UNCHANGED <<state, flash, buffer, addr, todo, magic, exit, end, start, opened, handle, faults>>
    BY Numbers, Sizes DEF B!Setup, BootIInv, Progress
  <1>2. /\ pc' \in {"ask", "data", "open", "failed"}
        /\ pc' = "ask" => start >= B!RoundUp(end)
        /\ pc' = "data" => start < B!RoundUp(end) /\ offset' = 0 /\ given' = 0
        /\ offset' \in {0, offset} /\ given' \in {0, given}
        /\ waits' \in 0 .. 1 /\ tries' \in 0 .. Tries /\ (pc' # "failed" => tries' < Tries)
    <2>1. B!Fail => /\ tries' \in 0 .. Tries /\ waits' = 0 /\ pc' \in {"open", "failed"}
                    /\ pc' # "failed" => tries' < Tries
      BY <1>1, FailResult
    <2>2. start \in Int /\ B!RoundUp(end) \in Int
      BY Numbers
    <2>. QED BY <2>1, <2>2, Sizes DEF B!Setup, BootIInv, BootTypes, B!TypeOK, Progress
  <1>3. ~Amid /\ ~Amid'
    BY <1>1, <1>2 DEF Amid
  <1>4. BootTypes'
    <2>1. 0 \in 0 .. BlockWords
      BY Sizes
    <2>. QED BY <1>1, <1>2, <2>1 DEF BootIInv, BootTypes, B!TypeOK
  <1>5. Progress'
    <2>1. start \in Int /\ B!RoundUp(end) \in Int /\ end \in Int /\ FlashWords \in Int
      BY Numbers, Sizes
    <2>. QED BY <1>1, <1>2, <2>1 DEF BootIInv, Progress, B!RoundUp
  <1>6. InStep' /\ LeavesLast'
    BY <1>1, <1>2, <1>3 DEF BootIInv, InStep, LeavesLast
  <1>. QED BY <1>1, <1>3, <1>4, <1>5, <1>6, ToolStep
-----------------------------------------------------------------------------
(* A transfer. *)

LEMMA PacketStep ==
  ASSUME BootIInv, B!Packet
  PROVE  BootIInv'
  <1>. DEFINE n == IF given = 0 THEN First
                   ELSE IF BlockWords - given < Per THEN BlockWords - given ELSE Per
  <1>1. /\ pc = "data" /\ handle /\ todo = 0 /\ given < BlockWords /\ state = "boot" /\ offset = given
        /\ UNCHANGED <<state, flash, buffer, magic, exit, pc, end, start, tries, opened, handle, waits, faults>>
    BY DEF B!Packet, BootIInv, InStep
  <1>2. /\ n \in Nat /\ n > 0 /\ given + n <= BlockWords
        /\ todo' = n /\ offset' = offset + n /\ given' = given + n
        /\ addr' = IF offset = 0 THEN start ELSE addr
    BY <1>1, Numbers, Sizes DEF B!Packet
  <1>. HIDE DEF n
  <1>3. end <= FlashWords /\ start + BlockWords <= B!RoundUp(end)
    <2>1. start < B!RoundUp(end) /\ end \in Nat /\ end <= FlashWords
      BY <1>1, Numbers, Sizes DEF BootIInv, Progress
    <2>. QED BY <2>1, Rounded, NextBlock, Numbers
  <1>4. Amid' /\ addr' = start + given /\ (given = 0 => addr' = start) /\ (given # 0 => Amid /\ addr' = addr)
    <2>1. CASE given = 0
      BY <1>1, <1>2, <2>1, Numbers DEF Amid
    <2>2. CASE given # 0
      BY <1>1, <1>2, <2>2, Numbers DEF Amid, BootIInv, InStep
    <2>. QED BY <2>1, <2>2
  <1>5. BootTypes'
    <2>1. /\ addr' \in 0 .. FlashWords /\ offset' \in 0 .. BlockWords /\ todo' \in 0 .. BlockWords
          /\ given' \in 0 .. BlockWords
      BY <1>1, <1>2, <1>3, <1>4, Numbers, Sizes
    <2>. QED BY <1>1, <2>1 DEF BootIInv, BootTypes, B!TypeOK
  <1>6. InStep'
    <2>1. B!RoundUp(end)' = B!RoundUp(end)
      BY <1>1 DEF B!RoundUp
    <2>. QED BY <1>1, <1>2, <1>3, <1>4, <2>1, Numbers DEF BootIInv, InStep
  <1>7. Progress' /\ LeavesLast'
    BY <1>1 DEF BootIInv, Progress, LeavesLast, B!RoundUp
  <1>8. Written'
    BY <1>1 DEF BootIInv, Written, B!Image
  <1>9. Filled'
    <2>1. CASE given = 0
      <3>1. ~Amid
        BY <1>1, <2>1, Numbers DEF Amid
      <3>2. PageOf(addr') = start /\ B!Place(addr') = 0 /\ start \in Nat
        BY <1>4, <2>1, Numbers
      <3>3. BufferFor(start)'
        BY <1>1, <3>1 DEF BootIInv, Filled, BufferFor, B!Image
      <3>. QED BY <1>1, <1>4, <3>2, <3>3, Sizes DEF Filled, BufferFor, B!Cells
    <2>2. CASE given # 0
      BY <1>1, <1>4, <2>2 DEF BootIInv, Filled, BufferFor, B!Image
    <2>. QED BY <2>1, <2>2
  <1>. QED BY <1>5, <1>6, <1>7, <1>8, <1>9 DEF BootIInv

LEMMA BlockDoneStep ==
  ASSUME BootIInv, B!BlockDone
  PROVE  BootIInv'
  <1>1. /\ pc = "data" /\ handle /\ given = BlockWords /\ todo = 0 /\ state = "boot"
        /\ start' = start + BlockWords /\ pc' = "setup"
        /\ UNCHANGED <<state, flash, buffer, addr, offset, todo, magic, exit>>
        /\ UNCHANGED <<end, given, tries, opened, handle, waits, faults>>
    BY DEF B!BlockDone, B!device, BootIInv, InStep
  <1>2. /\ Amid /\ ~Amid' /\ addr = start' /\ start < addr /\ start' <= B!RoundUp(end)
        /\ end <= FlashWords
    BY <1>1, Numbers, Sizes DEF Amid, BootIInv, InStep
  <1>3. OnBlock(start') /\ B!Place(addr) = 0 /\ PageOf(addr) = addr /\ start' \in Nat
    BY <1>1, <1>2, Numbers, NextBlock, BlockOfPages, Sizes
  <1>4. BootTypes'
    <2>1. start' \in 0 .. FlashWords
      BY <1>1, <1>2, Numbers, Sizes
    <2>. QED BY <1>1, <2>1 DEF BootIInv, BootTypes, B!TypeOK
  <1>5. InStep' /\ LeavesLast'
    BY <1>1, <1>2 DEF BootIInv, InStep, LeavesLast
  <1>6. Progress'
    <2>1. end \in Int /\ FlashWords \in Int
      BY Numbers, Sizes
    <2>. QED BY <1>1, <1>2, <1>3, <2>1 DEF BootIInv, Progress, B!RoundUp
  <1>7. Filled'
    <2>1. \A w \in 0 .. PageWords - 1 : buffer[w] = B!None
      BY <1>2, <1>3, Sizes DEF BootIInv, Filled
    <2>. QED BY <1>1, <1>2, <2>1 DEF Filled, BufferFor
  <1>8. Written'
    <2>1. ASSUME NEW a \in B!Cells, a < start' PROVE flash[a] = B!Image(a)
      <3>1. a \in Nat
        BY DEF B!Cells
      <3>2. CASE a < start
        BY <3>2 DEF BootIInv, Written
      <3>3. CASE start <= a
        BY <1>1, <1>2, <1>3, <2>1, <3>3 DEF BootIInv, Filled
      <3>. QED BY <3>1, <3>2, <3>3, Numbers
    <2>. QED BY <1>1, <2>1 DEF Written, B!Image
  <1>. QED BY <1>4, <1>5, <1>6, <1>7, <1>8 DEF BootIInv

LEMMA BreakStep ==
  ASSUME BreaksHarmless, BootIInv, B!Break
  PROVE  BootIInv'
  <1>1. /\ pc = "data" /\ handle /\ given \in Breaks /\ faults' = faults + 1 /\ faults < MaxFaults
        /\ UNCHANGED <<state, flash, buffer, addr, offset, todo, magic, exit>>
        /\ UNCHANGED <<end, start, given, opened, handle>>
    BY DEF B!Break, B!device
  <1>2. /\ tries' \in 0 .. Tries /\ waits' = 0 /\ pc' \in {"open", "failed"}
        /\ pc' # "failed" => tries' < Tries
    BY <1>1, FailResult DEF B!Break
  <1>3. (Amid' => Amid) /\ (Amid' <=> todo > 0)
    BY <1>1, <1>2 DEF Amid
  <1>4. BootTypes'
    <2>1. faults' \in 0 .. MaxFaults
      BY <1>1, Sizes DEF BootIInv, BootTypes, B!TypeOK
    <2>. QED BY <1>1, <1>2, <2>1 DEF BootIInv, BootTypes, B!TypeOK
  <1>5. InStep' /\ Progress' /\ LeavesLast' /\ Written'
    <2>1. end <= FlashWords /\ end \in Int /\ FlashWords \in Int
      BY <1>1, Numbers, Sizes DEF BootIInv, Progress
    <2>. QED BY <1>1, <1>2, <1>3, <2>1
         DEF BootIInv, InStep, Progress, LeavesLast, Written, B!RoundUp, B!Image
  <1>6. Filled'
    <2>1. ASSUME ~Amid' PROVE BufferFor(start)
      <3>1. todo = 0
        BY <1>3, <2>1, Numbers
      <3>2. CASE given = 0
        BY <3>1, <3>2 DEF BootIInv, Filled, Amid
      <3>3. CASE given > 0
        <4>1. Amid /\ addr = start + given /\ addr \in Nat
          BY <1>1, <3>1, <3>3, Numbers DEF BootIInv, InStep, Amid
        <4>2. CASE B!Place(addr) = 0 /\ PageOf(addr) > start
          <5>1. \A w \in 0 .. PageWords - 1 : buffer[w] = B!None
            BY <4>1, <4>2, Numbers, PlaceInPage, Sizes DEF BootIInv, Filled
          <5>. QED BY <5>1 DEF BufferFor
        <4>3. CASE PageOf(addr) = start
          BY <4>1, <4>3 DEF BootIInv, Filled
        <4>. QED BY <1>1, <3>3, <4>1, <4>2, <4>3, AfterBreak, Numbers
      <3>. QED BY <3>2, <3>3, Numbers
    <2>. QED BY <1>1, <1>2, <1>3, <2>1 DEF BootIInv, Filled, BufferFor, B!Image
  <1>. QED BY <1>4, <1>5, <1>6 DEF BootIInv

LEMMA LostStep ==
  ASSUME BootIInv, B!Lost
  PROVE  BootIInv'
  <1>1. /\ pc = "data" /\ ~handle
        /\ UNCHANGED <<state, flash, buffer, addr, offset, todo, magic, exit>>
        /\ UNCHANGED <<end, start, given, opened, handle, faults>>
    BY DEF B!Lost, B!device
  <1>2. /\ tries' \in 0 .. Tries /\ waits' = 0 /\ pc' \in {"open", "failed"}
        /\ pc' # "failed" => tries' < Tries
    BY <1>1, FailResult DEF B!Lost
  <1>3. ~Amid /\ ~Amid' /\ end <= FlashWords /\ end \in Int /\ FlashWords \in Int /\ ~(todo > 0)
    BY <1>1, <1>2, Numbers, Sizes DEF Amid, BootIInv, InStep, Progress
  <1>4. BootTypes' /\ InStep' /\ Progress' /\ LeavesLast'
    BY <1>1, <1>2, <1>3 DEF BootIInv, BootTypes, B!TypeOK, InStep, Progress, LeavesLast, B!RoundUp
  <1>. QED BY <1>1, <1>3, <1>4, ToolStep

LEMMA RebootStep ==
  ASSUME BootIInv, NEW asked \in BOOLEAN, B!Reboot(asked)
  PROVE  BootIInv'
  <1>1. /\ pc = "ask" /\ pc' = "ok" /\ exit' \in BOOLEAN
        /\ UNCHANGED <<state, flash, buffer, addr, offset, todo, magic, end, start, given>>
        /\ UNCHANGED <<tries, opened, handle, waits, faults>>
    BY DEF B!Reboot, BootIInv, BootTypes
  <1>2. ~Amid /\ ~Amid' /\ end <= FlashWords /\ end \in Int /\ FlashWords \in Int /\ todo = 0
    BY <1>1, Numbers, Sizes DEF Amid, BootIInv, Progress
  <1>3. BootTypes' /\ InStep' /\ Progress' /\ LeavesLast'
    BY <1>1, <1>2 DEF BootIInv, BootTypes, B!TypeOK, InStep, Progress, LeavesLast, B!RoundUp
  <1>. QED BY <1>1, <1>2, <1>3, ToolStep
-----------------------------------------------------------------------------
LEMMA InitBoot == B!Init => BootIInv
  <1>. SUFFICES ASSUME B!Init PROVE BootIInv
    OBVIOUS
  <1>1. end \in Ends /\ end \in Nat \ {0} /\ B!RoundUp(end) \in Nat
    BY Sizes, Rounded DEF B!Init
  <1>2. OnBlock(0)
    <2>1. 0 = BlockWords * 0 + 0 /\ 0 \in 0 .. BlockWords - 1
      BY Sizes
    <2>. QED BY <2>1, DivUnique, Sizes DEF OnBlock
  <1>3. ~Amid
    BY DEF B!Init, Amid
  <1>4. BootTypes
    <2>1. 0 \in 0 .. FlashWords /\ 0 \in 0 .. BlockWords /\ 0 \in 0 .. Tries /\ 0 \in 0 .. 1
      BY Sizes
    <2>2. flash \in [B!Cells -> Int]
      BY DEF B!Init, B!Old
    <2>3. buffer \in [0 .. PageWords - 1 -> Int]
      BY DEF B!Init, B!NoBuffer, B!None
    <2>4. faults \in 0 .. MaxFaults
      BY FirmwareAssumption DEF B!BootAssumption, B!Init
    <2>. QED BY <1>1, <2>1, <2>2, <2>3, <2>4 DEF B!Init, BootTypes, B!TypeOK
  <1>5. InStep /\ Progress /\ LeavesLast
    BY <1>1, <1>2, <1>3, Sizes DEF B!Init, InStep, Progress, LeavesLast
  <1>6. Filled
    BY <1>3 DEF B!Init, Filled, BufferFor, B!NoBuffer
  <1>7. Written
    BY DEF B!Init, Written, B!Cells
  <1>. QED BY <1>4, <1>5, <1>6, <1>7 DEF BootIInv

LEMMA NextBoot ==
  ASSUME BreaksHarmless
  PROVE  BootIInv /\ [B!Next]_(B!vars) => BootIInv'
  <1>. SUFFICES ASSUME BootIInv, [B!Next]_(B!vars) PROVE BootIInv'
    OBVIOUS
  <1>1. CASE B!Store \/ B!Leave \/ B!PowerFail \/ B!PowerUp
    BY <1>1, StoreStep, LeaveStep, PowerFailStep, PowerUpStep
  <1>2. CASE B!Open \/ B!Info \/ B!Setup
    BY <1>2, OpenStep, InfoStep, SetupStep
  <1>3. CASE B!Packet \/ B!BlockDone \/ B!Break \/ B!Lost
    BY <1>3, PacketStep, BlockDoneStep, BreakStep, LostStep
  <1>4. ASSUME NEW asked \in BOOLEAN, B!Reboot(asked) PROVE BootIInv'
    BY <1>4, RebootStep
  <1>5. CASE UNCHANGED B!vars
    BY <1>5 DEF B!vars, B!device, B!tool, BootIInv, BootTypes, B!TypeOK, InStep, Progress,
       LeavesLast, Filled,
       BufferFor, Written, Amid, B!RoundUp, B!Image
  <1>. QED BY <1>1, <1>2, <1>3, <1>4, <1>5 DEF B!Next

THEOREM BootInvariant ==
  ASSUME BreaksHarmless
  PROVE  B!Spec => []BootIInv
  BY InitBoot, NextBoot, PTL DEF B!Spec

\* Addresses and counters stay in their bounds, the device's and the tool's: no word
\* behind the firmware's part of the flash is written (BL.c, usbFunctionWrite).
THEOREM BootTyped ==
  ASSUME BreaksHarmless
  PROVE  B!Spec => []B!TypeOK
  <1>1. BootIInv => B!TypeOK
    BY DEF BootIInv, BootTypes
  <1>. QED BY <1>1, BootInvariant, PTL

\* The tool reports success only for a flash that holds the image, and what runs is
\* never a part of a firmware, whenever transfers break or the power fails (main.cpp,
\* uploadData).
THEOREM UpdatesWholeFirmware ==
  ASSUME BreaksHarmless
  PROVE  B!Spec => []WholeFirmware
  <1>1. ASSUME BootIInv, pc = "ok", NEW a \in 0 .. B!RoundUp(end) - 1
        PROVE  flash[a] = B!Image(a)
    <2>1. start = B!RoundUp(end) /\ end <= FlashWords
      BY <1>1, Numbers, Sizes DEF BootIInv, Progress
    <2>2. a \in B!Cells /\ a < start
      BY <1>1, <2>1, Numbers, Sizes DEF B!Cells
    <2>. QED BY <1>1, <2>2 DEF BootIInv, Written
  <1>2. BootIInv => WholeFirmware
    BY <1>1 DEF WholeFirmware, B!WholeFirmware, BootIInv, LeavesLast
  <1>. QED BY <1>2, BootInvariant, PTL

-----------------------------------------------------------------------------
(***************************************************************************)
(* ProcessInOut: however a host cuts the command stream into packets, the  *)
(* parser does what a machine does that is fed byte by byte                *)
(* (CommandStream).  Feed is a fold, which takes the greatest index off a  *)
(* set of indices.  The first part makes a walk from element to element of *)
(* it, whose steps can be taken one by one; the second is the parser's.    *)
(***************************************************************************)
\* Some number is the least.
LEMMA LeastOf ==
  ASSUME NEW X \in SUBSET Nat, X # {}
  PROVE  \E k \in X : \A m \in X : k <= m
  <1>. DEFINE Less == {p \in Nat \X Nat : p[1] < p[2]}
  <1>1. IsWellFoundedOn(Less, Nat)
    BY NatLessThanWellFounded DEF OpToRel
  <1>. HIDE DEF Less
  <1>2. PICK n \in X : \A m \in X : ~(<<m, n>> \in Less)
    BY <1>1, WFMin
  <1>3. \A m \in X : ~(m < n)
    BY <1>2 DEF Less
  <1>. QED BY <1>3

\* Induction up to N, with a set of numbers in the place of a predicate: a number missing
\* from it would have a least one.
LEMMA UpTo ==
  ASSUME NEW N \in Nat, NEW Good, 0 \in Good, \A n \in 0 .. N - 1 : n \in Good => n + 1 \in Good
  PROVE  0 .. N \subseteq Good
  <1>1. SUFFICES ASSUME (0 .. N) \ Good # {} PROVE FALSE
    OBVIOUS
  <1>2. PICK x \in (0 .. N) \ Good : \A y \in (0 .. N) \ Good : x <= y
    <2>1. (0 .. N) \ Good \in SUBSET Nat
      OBVIOUS
    <2>. QED BY <1>1, <2>1, LeastOf
  <1>3. x # 0
    BY <1>2
  <1>4. x - 1 \in 0 .. N - 1 /\ x - 1 \in Good
    BY <1>2, <1>3
  <1>5. (x - 1) + 1 = x
    BY <1>2
  <1>. QED BY <1>2, <1>4, <1>5

\* The function in FoldLeft's definition, of the sets of indices.
IsFold(b, s, D, g) ==
  g = [X \in SUBSET D |->
         IF X = {} THEN b ELSE P!S!Step(g[X \ {P!S!Max(X)}], s[P!S!Max(X)])]

LEMMA FeedIs ==
  ASSUME NEW b, NEW s
  PROVE  P!S!Feed(b, s) = (CHOOSE g : IsFold(b, s, DOMAIN s, g))[DOMAIN s]
  BY DEF P!S!Feed, P!S!FoldLeft, P!S!MapThenFoldSet, IsFold

\* The greatest of some numbers.
LEMMA MaxIs ==
  ASSUME NEW n \in Nat, NEW X \in SUBSET (1 .. n + 1)
  PROVE  /\ n + 1 \in X => P!S!Max(X) = n + 1
         /\ n + 1 \notin X => X \in SUBSET (1 .. n)
         /\ X \ {n + 1} \in SUBSET (1 .. n)
  <1>1. ASSUME n + 1 \in X PROVE P!S!Max(X) = n + 1
    <2>1. n + 1 \in X /\ \A y \in X : n + 1 >= y
      BY <1>1
    <2>2. \A m \in X : (\A y \in X : m >= y) => m = n + 1
      BY <2>1
    <2>. QED BY <2>1, <2>2 DEF P!S!Max
  <1>. QED BY <1>1

LEMMA FoldExists ==
  ASSUME NEW b, NEW s, NEW N \in Nat
  PROVE  \E g : IsFold(b, s, 1 .. N, g)
  <1>. DEFINE Good == {n \in 0 .. N : \E g : IsFold(b, s, 1 .. n, g)}
  <1>1. 0 \in Good
    <2>1. IsFold(b, s, 1 .. 0, [X \in SUBSET (1 .. 0) |-> b])
      BY DEF IsFold
    <2>. QED BY <2>1
  <1>2. ASSUME NEW n \in 0 .. N - 1, n \in Good PROVE n + 1 \in Good
    <2>1. PICK g : IsFold(b, s, 1 .. n, g)
      BY <1>2
    <2>. DEFINE h == [X \in SUBSET (1 .. n + 1) |->
                        IF n + 1 \in X THEN P!S!Step(g[X \ {n + 1}], s[n + 1]) ELSE g[X]]
    <2>2. \A X \in SUBSET (1 .. n) : h[X] = g[X]
      OBVIOUS
    <2>3. ASSUME NEW X \in SUBSET (1 .. n + 1)
          PROVE  h[X] = IF X = {} THEN b ELSE P!S!Step(h[X \ {P!S!Max(X)}], s[P!S!Max(X)])
      <3>1. CASE n + 1 \in X
        <4>1. P!S!Max(X) = n + 1 /\ X \ {n + 1} \in SUBSET (1 .. n) /\ X # {}
          BY <3>1, MaxIs
        <4>2. h[X] = P!S!Step(g[X \ {n + 1}], s[n + 1])
          BY <3>1
        <4>3. h[X \ {n + 1}] = g[X \ {n + 1}]
          BY <2>2, <4>1
        <4>. HIDE DEF h
        <4>. QED BY <4>1, <4>2, <4>3
      <3>2. CASE n + 1 \notin X
        <4>0. X \in SUBSET (1 .. n)
          BY <3>2, MaxIs
        <4>1. X \in SUBSET (1 .. n) /\ X \ {P!S!Max(X)} \in SUBSET (1 .. n)
          BY <4>0
        <4>2. g[X] = IF X = {} THEN b ELSE P!S!Step(g[X \ {P!S!Max(X)}], s[P!S!Max(X)])
          BY <2>1, <4>1 DEF IsFold
        <4>. QED BY <2>2, <4>1, <4>2
      <3>. QED BY <3>1, <3>2
    <2>4. IsFold(b, s, 1 .. n + 1, h)
      <3>. HIDE DEF h
      <3>. QED BY <2>3 DEF IsFold, h
    <2>. QED BY <2>4
  <1>. HIDE DEF Good
  <1>3. N \in Good
    BY <1>1, <1>2, UpTo
  <1>. QED BY <1>3 DEF Good

\* A fold goes from element to element.
Walk(b, s, p) == p[0] = b /\ \A k \in 1 .. Len(s) : p[k] = P!S!Step(p[k - 1], s[k])

LEMMA FeedWalks ==
  ASSUME NEW b, NEW A, NEW s \in Seq(A)
  PROVE  \E p : Walk(b, s, p) /\ P!S!Feed(b, s) = p[Len(s)]
  <1>. DEFINE n == Len(s)
              g == CHOOSE h : IsFold(b, s, 1 .. n, h)
              p == [k \in 0 .. n |-> g[1 .. k]]
  <1>1. n \in Nat /\ DOMAIN s = 1 .. n
    OBVIOUS
  <1>2. IsFold(b, s, 1 .. n, g)
    BY <1>1, FoldExists
  <1>3. P!S!Feed(b, s) = p[n]
    <2>1. P!S!Feed(b, s) = g[1 .. n]
      BY <1>1, FeedIs
    <2>. QED BY <1>1, <2>1
  <1>. HIDE DEF g
  <1>4. p[0] = b
    <2>1. 1 .. 0 = {} /\ {} \in SUBSET (1 .. n)
      OBVIOUS
    <2>. QED BY <1>1, <1>2, <2>1 DEF IsFold
  <1>5. ASSUME NEW k \in 1 .. n PROVE p[k] = P!S!Step(p[k - 1], s[k])
    <2>0. k \in Nat /\ k >= 1 /\ k <= n /\ n \in Nat
      BY <1>1
    <2>1. 1 .. k \in SUBSET (1 .. n) /\ 1 .. k # {} /\ (1 .. k) \ {k} = 1 .. k - 1
      <3>. HIDE DEF n
      <3>1. 1 .. k \subseteq 1 .. n /\ 1 \in 1 .. k
        BY <2>0
      <3>2. ASSUME NEW i PROVE i \in (1 .. k) \ {k} <=> i \in 1 .. k - 1
        BY <2>0
      <3>3. (1 .. k) \ {k} = 1 .. k - 1
        BY <3>2
      <3>. QED BY <3>1, <3>3
    <2>2. P!S!Max(1 .. k) = k
      <3>1. k - 1 \in Nat /\ (k - 1) + 1 = k /\ k \in 1 .. k
        OBVIOUS
      <3>. QED BY <3>1, MaxIs
    <2>3. k - 1 \in 0 .. n /\ k \in 0 .. n
      OBVIOUS
    <2>. QED BY <1>2, <2>1, <2>2, <2>3 DEF IsFold
  <1>. QED BY <1>3, <1>4, <1>5 DEF Walk

\* Feeding one more byte is one more step.
LEMMA FeedAppend ==
  ASSUME NEW b, NEW A, NEW s \in Seq(A), NEW x \in A
  PROVE  P!S!Feed(b, Append(s, x)) = P!S!Step(P!S!Feed(b, s), x)
  <1>. DEFINE n == Len(s)
              t == Append(s, x)
  <1>1. n \in Nat /\ t \in Seq(A) /\ Len(t) = n + 1 /\ t[n + 1] = x /\ \A k \in 1 .. n : t[k] = s[k]
    OBVIOUS
  <1>2. PICK p : Walk(b, s, p) /\ P!S!Feed(b, s) = p[n]
    BY FeedWalks
  <1>3. PICK q : Walk(b, t, q) /\ P!S!Feed(b, t) = q[n + 1]
    BY <1>1, FeedWalks
  <1>. HIDE DEF n, t
  <1>. DEFINE Good == {k \in 0 .. n : p[k] = q[k]}
  <1>4. 0 \in Good
    BY <1>1, <1>2, <1>3 DEF Walk
  <1>5. ASSUME NEW k \in 0 .. n - 1, k \in Good PROVE k + 1 \in Good
    <2>1. k + 1 \in 1 .. n /\ k + 1 \in 1 .. n + 1 /\ (k + 1) - 1 = k /\ k + 1 \in 0 .. n
      BY <1>1
    <2>2. p[k + 1] = P!S!Step(p[k], s[k + 1])
      BY <1>2, <2>1 DEF Walk, n
    <2>3. q[k + 1] = P!S!Step(q[k], t[k + 1])
      BY <1>1, <1>3, <2>1 DEF Walk
    <2>. QED BY <1>1, <1>5, <2>1, <2>2, <2>3
  <1>. HIDE DEF Good
  <1>6. n \in Good
    <2>1. n \in Nat /\ n \in 0 .. n
      BY <1>1
    <2>2. 0 .. n \subseteq Good
      BY <1>4, <1>5, <2>1, UpTo
    <2>. QED BY <2>1, <2>2
  <1>7. q[n + 1] = P!S!Step(q[n], t[n + 1])
    <2>1. n + 1 \in 1 .. n + 1 /\ (n + 1) - 1 = n
      BY <1>1
    <2>. QED BY <1>1, <1>3, <2>1 DEF Walk
  <1>. QED BY <1>1, <1>2, <1>3, <1>6, <1>7 DEF Good, t

LEMMA FeedNothing ==
  ASSUME NEW b
  PROVE  P!S!Feed(b, <<>>) = b
  <1>1. <<>> \in Seq({}) /\ Len(<<>>) = 0
    OBVIOUS
  <1>. QED BY <1>1, FeedWalks DEF Walk
-----------------------------------------------------------------------------
(* The parser *)

\* What the routines were told, and what the machine was.
Told(h) == [i \in DOMAIN h |-> <<h[i][1], h[i][3]>>]
Handlings == P!S!Byte \X {P!OutRoutine(k) : k \in P!S!Byte} \X P!S!Byte
Machines ==
  [pending : P!S!Byte \cup {P!S!None}, reg : [0 .. 15 -> P!S!Byte \cup {Initial}],
   executed : Seq(P!S!Byte \X P!S!Byte), reply : Seq(P!S!Byte \cup {Initial})]
Agrees(m) ==
  /\ m \in Machines
  /\ Told(handled) = m.executed /\ answered = m.reply /\ reg = m.reg
  /\ IF pendingByte = 0 THEN m.pending = P!S!None
                        ELSE m.pending = P!ClearBit4(pendingByte)
StreamTypes ==
  /\ packet \in Seq(P!S!Byte) /\ len = Len(packet)
  /\ stream \in Seq(P!S!Byte)
  /\ pendingByte \in {0} \cup {b \in P!S!Byte : P!S!IsIn(b)}
  /\ handled \in Seq(Handlings)
  /\ (len = 0 => packet = <<>>)
\* Of the stream, what is not in the packet any more has been fed.
StreamInv ==
  /\ StreamTypes
  /\ \E done \in Seq(P!S!Byte) :
       stream = done \o packet /\ Agrees(P!S!Feed(P!S!Reset, done))

LEMMA Bit4 ==
  ASSUME NEW b \in P!S!Byte
  PROVE  /\ P!ClearBit4(b) \in P!S!Byte /\ ~P!S!IsIn(P!ClearBit4(b))
         /\ P!SetBit4(b) \in P!S!Byte /\ P!S!IsIn(P!SetBit4(b)) /\ P!SetBit4(b) # 0
         /\ ~P!S!IsIn(b) => P!ClearBit4(P!SetBit4(b)) = b
  BY DEF P!S!Byte, P!S!IsIn, P!ClearBit4, P!SetBit4

LEMMA Changed ==
  ASSUME NEW m \in Machines
  PROVE  /\ \A p \in P!S!Byte \cup {P!S!None} : [m EXCEPT !.pending = p] \in Machines
         /\ \A r \in [0 .. 15 -> P!S!Byte \cup {Initial}] : [m EXCEPT !.reg = r] \in Machines
         /\ \A e \in Seq(P!S!Byte \X P!S!Byte) : [m EXCEPT !.executed = e] \in Machines
         /\ \A r \in Seq(P!S!Byte \cup {Initial}) : [m EXCEPT !.reply = r] \in Machines
  BY DEF Machines

\* A machine that waits for data runs the command; else it answers or waits.
LEMMA Executes ==
  ASSUME NEW m \in Machines, NEW c \in P!S!Byte, NEW b \in P!S!Byte
  PROVE  LET e == P!S!Execute(m, c, b)
         IN  /\ e \in Machines
             /\ e.pending = P!S!None /\ e.reply = m.reply
             /\ e.executed = Append(m.executed, <<c, b>>)
             /\ e.reg = IF c \in P!S!Writable THEN [m.reg EXCEPT ![c] = b] ELSE m.reg
  <1>. DEFINE q == IF c \in P!S!Writable THEN [m.reg EXCEPT ![c] = b] ELSE m.reg
              x == Append(m.executed, <<c, b>>)
              e == [m EXCEPT !.pending = P!S!None, !.reg = q, !.executed = x]
  <1>1. P!S!Execute(m, c, b) = e
    BY DEF P!S!Execute, Machines
  <1>2. q \in [0 .. 15 -> P!S!Byte \cup {Initial}]
    <2>1. m.reg \in [0 .. 15 -> P!S!Byte \cup {Initial}] /\ b \in P!S!Byte \cup {Initial}
      BY DEF Machines
    <2>. QED BY <2>1
  <1>3. x \in Seq(P!S!Byte \X P!S!Byte)
    <2>1. m.executed \in Seq(P!S!Byte \X P!S!Byte) /\ <<c, b>> \in P!S!Byte \X P!S!Byte
      BY DEF Machines
    <2>. QED BY <2>1, AppendProperties
  <1>. HIDE DEF q, x
  <1>. DEFINE m1 == [m EXCEPT !.pending = P!S!None]
              m2 == [m1 EXCEPT !.reg = q]
              m3 == [m2 EXCEPT !.executed = x]
  <1>4. e = m3
    BY DEF Machines
  <1>5. m1 \in Machines
    BY Changed
  <1>6. m2 \in Machines
    <2>. HIDE DEF m1
    <2>. QED BY <1>2, <1>5, Changed
  <1>7. m3 \in Machines
    <2>. HIDE DEF m2
    <2>. QED BY <1>3, <1>6, Changed
  <1>8. e.pending = P!S!None /\ e.reply = m.reply /\ e.executed = x /\ e.reg = q
    BY DEF Machines
  <1>. QED BY <1>1, <1>4, <1>7, <1>8 DEF q, x

LEMMA Answers ==
  ASSUME NEW m \in Machines, NEW b \in P!S!Byte, m.pending = P!S!None, P!S!IsIn(b)
  PROVE  LET e == P!S!Step(m, b)
         IN  /\ e \in Machines
             /\ e.pending = P!S!None /\ e.reply = Append(m.reply, P!S!Value(m, b))
             /\ e.executed = m.executed /\ e.reg = m.reg
  <1>1. P!S!Value(m, b) \in P!S!Byte \cup {Initial}
    <2>1. m.reg \in [0 .. 15 -> P!S!Byte \cup {Initial}] /\ 255 \in P!S!Byte
      BY DEF Machines, P!S!Byte
    <2>2. b - 16 \in P!S!Readable => b - 16 \in 0 .. 15
      BY DEF P!S!Readable
    <2>. QED BY <2>1, <2>2 DEF P!S!Value
  <1>. DEFINE r == Append(m.reply, P!S!Value(m, b))
              e == [m EXCEPT !.reply = r]
  <1>2. r \in Seq(P!S!Byte \cup {Initial})
    <2>1. m.reply \in Seq(P!S!Byte \cup {Initial})
      BY DEF Machines
    <2>. QED BY <1>1, <2>1, AppendProperties
  <1>3. P!S!Step(m, b) = e
    BY DEF P!S!Step
  <1>. HIDE DEF r
  <1>4. e \in Machines /\ e.pending = m.pending /\ e.reply = r /\ e.executed = m.executed
        /\ e.reg = m.reg
    BY <1>2 DEF Machines
  <1>. QED BY <1>3, <1>4 DEF r

LEMMA Waits ==
  ASSUME NEW m \in Machines, NEW b \in P!S!Byte, m.pending = P!S!None, ~P!S!IsIn(b)
  PROVE  LET e == P!S!Step(m, b)
         IN  /\ e \in Machines
             /\ e.pending = b /\ e.reply = m.reply /\ e.executed = m.executed /\ e.reg = m.reg
  <1>1. P!S!Step(m, b) = [m EXCEPT !.pending = b]
    BY DEF P!S!Step
  <1>. QED BY <1>1 DEF Machines

LEMMA Handed ==
  ASSUME NEW h \in Seq(Handlings),
         NEW c \in P!S!Byte, NEW r \in {P!OutRoutine(k) : k \in P!S!Byte}, NEW b \in P!S!Byte
  PROVE  /\ Told(Append(h, <<c, r, b>>)) = Append(Told(h), <<c, b>>)
         /\ Append(h, <<c, r, b>>) \in Seq(Handlings)
  <1>1. Told(h) \in Seq(P!S!Byte \X P!S!Byte) /\ Len(Told(h)) = Len(h)
    <2>1. \A i \in 1 .. Len(h) : <<h[i][1], h[i][3]>> \in P!S!Byte \X P!S!Byte
      <3>1. \A i \in 1 .. Len(h) : h[i] \in Handlings
        OBVIOUS
      <3>. QED BY <3>1 DEF Handlings
    <2>2. DOMAIN h = 1 .. Len(h) /\ Len(h) \in Nat
      OBVIOUS
    <2>3. Told(h) = [i \in 1 .. Len(h) |-> <<h[i][1], h[i][3]>>]
      BY <2>2 DEF Told
    <2>4. Told(h) \in [1 .. Len(h) -> P!S!Byte \X P!S!Byte]
      BY <2>1, <2>3
    <2>. QED BY <2>2, <2>4
  <1>. DEFINE e == <<c, r, b>>
              g == Append(h, e)
  <1>2. g \in Seq(Handlings)
    <2>1. e \in Handlings
      BY DEF Handlings
    <2>. HIDE DEF e
    <2>. QED BY <2>1, AppendProperties
  <1>3. Told(g) = Append(Told(h), <<c, b>>)
    <2>1. Len(g) = Len(h) + 1 /\ g[Len(h) + 1] = e /\ \A i \in 1 .. Len(h) : g[i] = h[i]
      <3>. HIDE DEF e
      <3>. QED OBVIOUS
    <2>2. DOMAIN Told(g) = 1 .. Len(h) + 1 /\ DOMAIN Told(h) = 1 .. Len(h)
      BY <1>2, <2>1 DEF Told
    <2>3. Told(g)[Len(h) + 1] = <<c, b>>
      BY <2>1, <2>2 DEF Told
    <2>4. \A i \in 1 .. Len(h) : Told(g)[i] = Told(h)[i]
      BY <2>1, <2>2 DEF Told
    <2>5. Told(g) = [i \in 1 .. Len(h) + 1 |-> Told(g)[i]]
      BY <2>2 DEF Told
    <2>6. Append(Told(h), <<c, b>>) = [i \in 1 .. Len(h) + 1 |-> Append(Told(h), <<c, b>>)[i]]
      BY <1>1
    <2>7. \A i \in 1 .. Len(h) + 1 : Append(Told(h), <<c, b>>)[i] = Told(g)[i]
      <3>1. Append(Told(h), <<c, b>>)[Len(h) + 1] = <<c, b>>
        BY <1>1
      <3>2. \A i \in 1 .. Len(h) : Append(Told(h), <<c, b>>)[i] = Told(h)[i]
        BY <1>1
      <3>3. \A i \in 1 .. Len(h) + 1 : i \in 1 .. Len(h) \/ i = Len(h) + 1
        OBVIOUS
      <3>. QED BY <2>3, <2>4, <3>1, <3>2, <3>3
    <2>. QED BY <2>5, <2>6, <2>7
  <1>. QED BY <1>2, <1>3

LEMMA OneMore ==
  ASSUME NEW A, NEW s \in Seq(A), NEW t \in Seq(A), t # <<>>
  PROVE  s \o t = Append(s, Head(t)) \o Tail(t)
  OBVIOUS

LEMMA CallStreams ==
  ASSUME StreamInv, NEW p \in Packets, P!Call(p)
  PROVE  StreamInv'
  <1>1. PICK done \in Seq(P!S!Byte) :
          stream = done \o packet /\ Agrees(P!S!Feed(P!S!Reset, done))
    BY DEF StreamInv
  <1>2. p \in Seq(P!S!Byte)
    BY FirmwareAssumption DEF P!ProcessInOutAssumption
  <1>3. packet = <<>> /\ stream = done
    BY <1>1 DEF P!Call, StreamInv, StreamTypes
  <1>4. stream' = done \o packet' /\ packet' = p /\ len' = Len(p)
        /\ UNCHANGED <<pendingByte, reg, handled, answered>>
    BY <1>3 DEF P!Call
  <1>5. StreamTypes'
    BY <1>2, <1>3, <1>4 DEF StreamInv, StreamTypes
  <1>6. Agrees(P!S!Feed(P!S!Reset, done))'
    BY <1>1, <1>4 DEF Agrees
  <1>. QED BY <1>4, <1>5, <1>6 DEF StreamInv

LEMMA InStreams ==
  ASSUME StreamInv, P!InCommand
  PROVE  StreamInv'
  <1>1. PICK done \in Seq(P!S!Byte) :
          stream = done \o packet /\ Agrees(P!S!Feed(P!S!Reset, done))
    BY DEF StreamInv
  <1>. PICK c : c = Head(packet)
    OBVIOUS
  <1>. DEFINE m == P!S!Feed(P!S!Reset, done)
              next == Append(done, c)
  <1>2. pendingByte = 0 /\ P!S!IsIn(c) /\ packet # <<>> /\ c \in P!S!Byte
    BY Bit4 DEF P!InCommand, P!Command, P!Continued, StreamInv, StreamTypes
  <1>3. next \in Seq(P!S!Byte) /\ packet' = Tail(packet) /\ len' = Len(packet')
        /\ stream' = next \o packet' /\ packet' \in Seq(P!S!Byte)
    BY <1>1, <1>2 DEF P!InCommand, P!Rest, P!Left, P!Continued, StreamInv, StreamTypes
  <1>4. P!S!Feed(P!S!Reset, next) = P!S!Step(m, c)
    BY <1>2, FeedAppend
  <1>5. m \in Machines /\ m.pending = P!S!None /\ reg = m.reg
    BY <1>1, <1>2 DEF Agrees
  <1>6. P!S!Value(m, c) = P!InValue(c)
    BY <1>2, <1>5 DEF P!S!Value, P!InValue, P!S!Readable, P!S!Byte
  <1>7. /\ P!S!Step(m, c) \in Machines
        /\ P!S!Step(m, c).pending = P!S!None /\ P!S!Step(m, c).executed = m.executed
        /\ P!S!Step(m, c).reply = Append(m.reply, P!InValue(c)) /\ P!S!Step(m, c).reg = m.reg
    BY <1>2, <1>5, <1>6, Answers
  <1>8. pendingByte' = 0 /\ answered' = Append(answered, P!InValue(c)) /\ UNCHANGED <<reg, handled>>
    BY <1>2 DEF P!InCommand, P!Command, P!Continued
  <1>9. Told(handled) = m.executed /\ answered = m.reply
    BY <1>1 DEF Agrees
  <1>10. Agrees(P!S!Feed(P!S!Reset, next))'
    <2>. DEFINE e == P!S!Step(m, c)
    <2>1. /\ e \in Machines /\ e.pending = P!S!None /\ e.executed = Told(handled')
          /\ e.reply = answered' /\ e.reg = reg'
      BY <1>5, <1>7, <1>8, <1>9
    <2>. HIDE DEF e
    <2>2. Agrees(e)'
      BY <1>8, <2>1 DEF Agrees, Told
    <2>. QED BY <1>4, <2>2 DEF e
  <1>11. StreamTypes'
    <2>1. len' = 0 => packet' = <<>>
      BY <1>3, EmptySeq
    <2>2. stream' \in Seq(P!S!Byte) /\ UNCHANGED handled
      BY <1>8 DEF P!InCommand, StreamInv, StreamTypes
    <2>. QED BY <1>3, <1>8, <2>1, <2>2 DEF StreamInv, StreamTypes
  <1>. HIDE DEF next
  <1>. QED BY <1>3, <1>10, <1>11 DEF StreamInv

LEMMA CutStreams ==
  ASSUME StreamInv, P!CutCommand
  PROVE  StreamInv'
  <1>1. PICK done \in Seq(P!S!Byte) :
          stream = done \o packet /\ Agrees(P!S!Feed(P!S!Reset, done))
    BY DEF StreamInv
  <1>. PICK c : c = Head(packet)
    OBVIOUS
  <1>. DEFINE m == P!S!Feed(P!S!Reset, done)
              next == Append(done, c)
  <1>2. pendingByte = 0 /\ ~P!S!IsIn(c) /\ packet = <<c>> /\ c \in P!S!Byte
    BY DEF P!CutCommand, P!Command, P!Continued, P!Left, StreamInv, StreamTypes
  <1>3. next \in Seq(P!S!Byte) /\ packet' = <<>> /\ len' = Len(packet')
        /\ stream' = next \o packet'
    <2>1. packet' = <<>> /\ len' = 0 /\ stream' = stream
      BY <1>2 DEF P!CutCommand, P!Rest, P!Continued
    <2>2. next \in Seq(P!S!Byte) /\ next = done \o <<c>> /\ next \o <<>> = next
      BY <1>2
    <2>3. stream = done \o <<c>>
      BY <1>1, <1>2
    <2>. HIDE DEF next
    <2>. QED BY <2>1, <2>2, <2>3
  <1>4. P!S!Feed(P!S!Reset, next) = P!S!Step(m, c)
    BY <1>2, FeedAppend
  <1>5. m \in Machines /\ m.pending = P!S!None /\ reg = m.reg
    BY <1>1, <1>2 DEF Agrees
  <1>7. /\ P!S!Step(m, c) \in Machines
        /\ P!S!Step(m, c).pending = c /\ P!S!Step(m, c).executed = m.executed
        /\ P!S!Step(m, c).reply = m.reply /\ P!S!Step(m, c).reg = m.reg
    BY <1>2, <1>5, Waits
  <1>8. pendingByte' = P!SetBit4(c) /\ UNCHANGED <<answered, reg, handled>>
    BY <1>2 DEF P!CutCommand, P!Command, P!Continued
  <1>9. Told(handled) = m.executed /\ answered = m.reply
    BY <1>1 DEF Agrees
  <1>10. Agrees(P!S!Feed(P!S!Reset, next))'
    <2>. DEFINE e == P!S!Step(m, c)
    <2>1. /\ e \in Machines /\ e.pending = c /\ e.executed = Told(handled')
          /\ e.reply = answered' /\ e.reg = reg'
      BY <1>5, <1>7, <1>8, <1>9
    <2>2. pendingByte' # 0 /\ P!ClearBit4(pendingByte') = c
      BY <1>2, <1>8, Bit4
    <2>. HIDE DEF e
    <2>3. Agrees(e)'
      BY <2>1, <2>2 DEF Agrees, Told, P!ClearBit4
    <2>. QED BY <1>4, <2>3 DEF e
  <1>11. StreamTypes'
    <2>1. stream' \in Seq(P!S!Byte) /\ UNCHANGED handled
      BY <1>8 DEF P!CutCommand, StreamInv, StreamTypes
    <2>. QED BY <1>2, <1>3, <1>8, <2>1, Bit4 DEF StreamInv, StreamTypes
  <1>. HIDE DEF next
  <1>. QED BY <1>3, <1>10, <1>11 DEF StreamInv

\* A command with its data byte: the machine that waits for it runs it as the parser does.
LEMMA Executed ==
  ASSUME NEW m \in Machines, NEW c \in P!S!Byte, NEW b \in P!S!Byte, ~P!S!IsIn(c),
         m.pending = c, Told(handled) = m.executed, answered = m.reply, reg = m.reg,
         handled \in Seq(Handlings),
         handled' = Append(handled, <<c, P!OutRoutine(c), b>>),
         reg' = (IF c < 16 /\ P!OutRoutine(c) # "none" THEN [reg EXCEPT ![c] = b] ELSE reg),
         answered' = answered, pendingByte' = 0
  PROVE  /\ Agrees(P!S!Step(m, b))'
         /\ handled' \in Seq(Handlings)
  <1>2. c \in P!S!Writable <=> c < 16 /\ P!OutRoutine(c) # "none"
    <2>1. c \in 0 .. 255
      BY DEF P!S!Byte
    <2>2. c < 16 /\ P!OutRoutine(c) # "none" => c \in P!S!Writable
      <3>1. c \in {7, 9, 11} => P!OutRoutine(c) = "none"
        BY DEF P!OutRoutine
      <3>2. c < 16 /\ c \notin {7, 9, 11} => c \in P!S!Writable
        BY <2>1 DEF P!S!Writable
      <3>. QED BY <3>1, <3>2
    <2>3. c \in P!S!Writable => c < 16
      BY <2>1 DEF P!S!Writable
    <2>4. c \in P!S!Writable => P!OutRoutine(c) # "none"
      <3>1. c \in {0, 1, 2, 3, 4, 5, 6, 8, 10, 12, 13, 14, 15} <=> c \in P!S!Writable
        BY <2>1 DEF P!S!Writable
      <3>2. c \in {0, 1, 2, 3, 4, 5, 6} => P!OutRoutine(c) # "none"
        BY DEF P!OutRoutine
      <3>3. c \in {8, 10, 12, 13, 14, 15} => P!OutRoutine(c) # "none"
        BY DEF P!OutRoutine
      <3>. QED BY <3>1, <3>2, <3>3
    <2>. QED BY <2>2, <2>3, <2>4
  <1>3. P!S!Step(m, b) = P!S!Execute(m, c, b)
    <2>1. m.pending # P!S!None
      BY DEF P!S!Byte, P!S!None
    <2>. QED BY <2>1 DEF P!S!Step
  <1>. DEFINE e == P!S!Execute(m, c, b)
  <1>4. /\ e \in Machines /\ e.pending = P!S!None /\ e.reply = m.reply
        /\ e.executed = Append(m.executed, <<c, b>>)
        /\ e.reg = IF c \in P!S!Writable THEN [m.reg EXCEPT ![c] = b] ELSE m.reg
    BY Executes
  <1>6. Told(handled') = e.executed /\ handled' \in Seq(Handlings)
    <2>1. Told(handled') = Append(Told(handled), <<c, b>>) /\ handled' \in Seq(Handlings)
      BY Handed
    <2>. QED BY <1>4, <2>1
  <1>. HIDE DEF e
  <1>7. Agrees(e)'
    BY <1>2, <1>4, <1>6 DEF Agrees, Told
  <1>. QED BY <1>3, <1>6, <1>7 DEF e

LEMMA OutStreams ==
  ASSUME StreamInv, P!OutCommand
  PROVE  StreamInv'
  <1>1. PICK done \in Seq(P!S!Byte) :
          stream = done \o packet /\ Agrees(P!S!Feed(P!S!Reset, done))
    BY DEF StreamInv
  <1>. DEFINE m == P!S!Feed(P!S!Reset, done)
  <1>2. /\ handled' = Append(handled, <<P!Command, P!OutRoutine(P!Command), Head(P!Rest)>>)
        /\ reg' = IF P!Command < 16 /\ P!OutRoutine(P!Command) # "none"
                  THEN [reg EXCEPT ![P!Command] = Head(P!Rest)] ELSE reg
        /\ pendingByte' = 0 /\ packet' = Tail(P!Rest) /\ len' = P!Left - 2
        /\ UNCHANGED <<answered, stream>> /\ len > 0 /\ ~P!S!IsIn(P!Command) /\ P!Left > 1
    BY DEF P!OutCommand
  <1>3. ASSUME NEW c \in P!S!Byte, NEW b \in P!S!Byte, NEW before \in Seq(P!S!Byte),
               c = P!Command, b = Head(P!Rest),
               P!S!Feed(P!S!Reset, before) \in Machines,
               P!S!Feed(P!S!Reset, before).pending = c,
               P!S!Feed(P!S!Reset, before).executed = m.executed,
               P!S!Feed(P!S!Reset, before).reply = m.reply,
               P!S!Feed(P!S!Reset, before).reg = m.reg,
               stream = Append(before, b) \o packet',
               packet' \in Seq(P!S!Byte), len' = Len(packet')
        PROVE  StreamInv'
    <2>1. Append(before, b) \in Seq(P!S!Byte)
      BY <1>3
    <2>2. P!S!Feed(P!S!Reset, Append(before, b)) = P!S!Step(P!S!Feed(P!S!Reset, before), b)
      BY <1>3, FeedAppend
    <2>3. Told(handled) = m.executed /\ answered = m.reply /\ reg = m.reg
      BY <1>1 DEF Agrees
    <2>4. /\ Agrees(P!S!Step(P!S!Feed(P!S!Reset, before), b))'
          /\ handled' \in Seq(Handlings)
      <3>. DEFINE f == P!S!Feed(P!S!Reset, before)
      <3>1. /\ f \in Machines /\ f.pending = c /\ Told(handled) = f.executed /\ answered = f.reply
            /\ reg = f.reg /\ ~P!S!IsIn(c)
            /\ handled \in Seq(Handlings)
            /\ handled' = Append(handled, <<c, P!OutRoutine(c), b>>)
            /\ reg' = (IF c < 16 /\ P!OutRoutine(c) # "none" THEN [reg EXCEPT ![c] = b] ELSE reg)
            /\ answered' = answered /\ pendingByte' = 0
        BY <1>2, <1>3, <2>3 DEF StreamInv, StreamTypes
      <3>. HIDE DEF f
      <3>2. Agrees(P!S!Step(f, b))' /\ handled' \in Seq(Handlings)
        BY <1>3, <3>1, Executed
      <3>. QED BY <3>2 DEF f
    <2>5. StreamTypes'
      BY <1>2, <1>3, <2>4 DEF StreamInv, StreamTypes
    <2>. QED BY <1>2, <1>3, <2>1, <2>2, <2>4, <2>5 DEF StreamInv
  <1>4. CASE pendingByte # 0
    <2>1. /\ P!Command = P!ClearBit4(pendingByte) /\ P!Command \in P!S!Byte /\ P!Rest = packet
          /\ P!Left = len + 1 /\ m.pending = P!Command /\ m \in Machines
      BY <1>1, <1>4, Bit4 DEF P!Command, P!Continued, P!Rest, P!Left, Agrees, StreamInv, StreamTypes
    <2>2. /\ Head(packet) \in P!S!Byte /\ packet' = Tail(packet) /\ len' = Len(packet')
          /\ packet' \in Seq(P!S!Byte) /\ stream = Append(done, Head(packet)) \o packet'
      <3>1. packet \in Seq(P!S!Byte) /\ packet # <<>> /\ stream = done \o packet /\ len = Len(packet)
        BY <1>1, <1>2 DEF StreamInv, StreamTypes
      <3>2. packet' = Tail(packet) /\ len' = len - 1 /\ stream' = stream
        <4>1. len \in Nat /\ (len + 1) - 2 = len - 1
          BY <3>1
        <4>. QED BY <1>2, <2>1, <4>1
      <3>3. Head(packet) \in P!S!Byte /\ Tail(packet) \in Seq(P!S!Byte)
            /\ Len(Tail(packet)) = Len(packet) - 1
        BY <3>1
      <3>4. done \o packet = Append(done, Head(packet)) \o Tail(packet)
        BY <3>1, OneMore
      <3>. QED BY <3>1, <3>2, <3>3, <3>4
    <2>. QED BY <1>3, <2>1, <2>2
  <1>5. CASE pendingByte = 0
    <2>. DEFINE c == Head(packet)
                b == Head(Tail(packet))
    <2>1. P!Command = c /\ P!Rest = Tail(packet) /\ P!Left = len
      BY <1>5 DEF P!Command, P!Continued, P!Rest, P!Left
    <2>2. /\ c \in P!S!Byte /\ b \in P!S!Byte /\ packet' = Tail(Tail(packet)) /\ len' = Len(packet')
          /\ packet' \in Seq(P!S!Byte) /\ stream = Append(Append(done, c), b) \o packet'
      <3>1. packet \in Seq(P!S!Byte) /\ packet # <<>> /\ stream = done \o packet
            /\ len = Len(packet) /\ len >= 2
        BY <1>1, <1>2, <2>1 DEF StreamInv, StreamTypes
      <3>2. packet' = Tail(Tail(packet)) /\ len' = len - 2
        BY <1>2, <2>1
      <3>3. c \in P!S!Byte /\ Tail(packet) \in Seq(P!S!Byte) /\ Len(Tail(packet)) = Len(packet) - 1
        BY <3>1
      <3>4. Tail(packet) # <<>>
        <4>1. Len(Tail(packet)) # 0
          BY <3>1, <3>3
        <4>2. Len(<<>>) = 0
          OBVIOUS
        <4>. QED BY <4>1, <4>2
      <3>5. b \in P!S!Byte /\ Tail(Tail(packet)) \in Seq(P!S!Byte)
            /\ Len(Tail(Tail(packet))) = Len(Tail(packet)) - 1
        BY <3>3, <3>4
      <3>6. done \o packet = Append(done, c) \o Tail(packet) /\ Append(done, c) \in Seq(P!S!Byte)
        BY <3>1, <3>3, OneMore
      <3>7. Append(done, c) \o Tail(packet) = Append(Append(done, c), b) \o Tail(Tail(packet))
        <4>. DEFINE t == Tail(packet)
                    a == Append(done, c)
        <4>1. t \in Seq(P!S!Byte) /\ t # <<>> /\ a \in Seq(P!S!Byte)
          BY <3>3, <3>4, <3>6
        <4>. HIDE DEF t, a
        <4>2. a \o t = Append(a, Head(t)) \o Tail(t)
          BY <4>1, OneMore
        <4>. QED BY <4>2 DEF t, a
      <3>8. len' = Len(Tail(Tail(packet)))
        BY <3>1, <3>2, <3>3, <3>5
      <3>. HIDE DEF c, b
      <3>. QED BY <3>1, <3>2, <3>3, <3>5, <3>6, <3>7, <3>8
    <2>3. P!S!Feed(P!S!Reset, Append(done, c)) = P!S!Step(m, c)
      BY <2>2, FeedAppend
    <2>4. m \in Machines /\ m.pending = P!S!None /\ ~P!S!IsIn(c)
      BY <1>1, <1>2, <1>5, <2>1 DEF Agrees
    <2>7. /\ P!S!Step(m, c) \in Machines
          /\ P!S!Step(m, c).pending = c /\ P!S!Step(m, c).executed = m.executed
          /\ P!S!Step(m, c).reply = m.reply /\ P!S!Step(m, c).reg = m.reg
      BY <2>2, <2>4, Waits
    <2>8. Append(done, c) \in Seq(P!S!Byte)
      BY <2>2
    <2>. HIDE DEF c, b, m
    <2>. QED BY <1>3, <2>1, <2>2, <2>3, <2>7, <2>8 DEF b
  <1>. QED BY <1>4, <1>5

\* However the host cuts the commands into packets, the parser runs and answers what a
\* machine does that takes them byte by byte (usb2lpt6.c, ProcessInOut).
THEOREM ParsedAsStream == P!Spec => []SameAsStream
  <1>1. P!Init => StreamInv
    <2>1. P!S!Feed(P!S!Reset, <<>>) = P!S!Reset
      BY FeedNothing
    <2>2. ASSUME P!Init PROVE Agrees(P!S!Reset)
      <3>1. P!S!Reset \in Machines
        BY DEF P!S!Reset, Machines
      <3>. QED BY <2>2, <3>1 DEF P!Init, Agrees, P!S!Reset, Told
    <2>3. ASSUME P!Init PROVE StreamTypes /\ stream = <<>> \o packet /\ <<>> \in Seq(P!S!Byte)
      BY <2>3 DEF P!Init, StreamTypes
    <2>. QED BY <2>1, <2>2, <2>3 DEF StreamInv
  <1>2. StreamInv /\ [P!Next]_(P!vars) => StreamInv'
    <2>1. ASSUME StreamInv, UNCHANGED P!vars PROVE StreamInv'
      BY <2>1 DEF P!vars, StreamInv, StreamTypes, Agrees
    <2>. QED BY <2>1, CallStreams, InStreams, CutStreams, OutStreams DEF P!Next
  <1>3. StreamInv => SameAsStream
    <2>1. SUFFICES ASSUME StreamInv, len = 0 PROVE
            /\ Told(handled) = P!Reference.executed /\ answered = P!Reference.reply
            /\ IF pendingByte = 0 THEN P!Reference.pending = P!S!None
                                  ELSE P!Reference.pending = P!ClearBit4(pendingByte)
      BY DEF SameAsStream, P!SameAsStream, Told
    <2>2. PICK done \in Seq(P!S!Byte) :
            stream = done \o packet /\ Agrees(P!S!Feed(P!S!Reset, done))
      BY <2>1 DEF StreamInv
    <2>3. stream = done
      BY <2>1, <2>2 DEF StreamInv, StreamTypes
    <2>. QED BY <2>2, <2>3 DEF Agrees, P!Reference
  <1>. QED BY <1>1, <1>2, <1>3, PTL DEF P!Spec

-----------------------------------------------------------------------------
(* The parts together *)

LEMMA FirmwareParts ==
  [MCNext]_<<part, vars, parser, update>> =>
    [Next]_vars /\ [P!Next]_(P!vars) /\ [B!Next]_(B!vars)
  <1>1. parser' = parser => UNCHANGED P!vars
    BY DEF parser, P!vars
  <1>2. update' = update => UNCHANGED B!vars
    BY DEF update, B!vars, B!device, B!tool
  <1>. QED BY <1>1, <1>2 DEF MCNext

\* In the composition that is model-checked the FIFO, the parser and the boot loader do
\* what is said above.
THEOREM FirmwareKept ==
  ASSUME PoliteHost, BreaksHarmless
  PROVE  MCSpec => [](EachWordOnce /\ SameAsStream /\ WholeFirmware) /\ ActsAsQueue
  <1>1. MCInit => Init /\ P!Init /\ B!Init
    BY DEF MCInit
  <1>2. MCSpec => Spec
    BY <1>1, FirmwareParts, PTL DEF MCSpec, Spec
  <1>3. MCSpec => P!Spec
    BY <1>1, FirmwareParts, PTL DEF MCSpec, P!Spec
  <1>4. MCSpec => B!Spec
    BY <1>1, FirmwareParts, PTL DEF MCSpec, B!Spec
  <1>. QED BY <1>2, <1>3, <1>4, WordsOnce, ParsedAsStream, UpdatesWholeFirmware, RingIsQueue, PTL
=============================================================================
