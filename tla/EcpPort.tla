------------------------------ MODULE EcpPort ------------------------------
(***************************************************************************)
(* The firmware's FIFO modes (USB2LPT6/usb2lpt6.c): a ring of 16 words     *)
(* between the host, which writes and reads it with OUT and IN commands,   *)
(* and a peripheral, to which SppXfer and EcpXfer transfer its words, one  *)
(* handshake at a time, in the main loop.  One loop turn is a call of      *)
(* SppXfer or EcpXfer and then usbPoll, which may execute OUT and IN       *)
(* commands.  EcpXfer looks at the peripheral's line twice, and the        *)
(* peripheral may move in between.                                         *)
(*                                                                         *)
(* Levels are those at the plug: inversion, open-collector simulation and  *)
(* the pull-ups of input lines are left out, and so is DirectIO.           *)
(***************************************************************************)
EXTENDS Integers, Sequences

CONSTANTS
  FifoSize,   \* FIFOSIZE, a power of two (16)
  Bytes,      \* the bytes transferred
  NoWord,     \* before the first word has been read
  Modes,      \* modes the host selects (the upper three bits of ECR)
  Controls,   \* values of the control port: see Control
  Polite,     \* the host changes mode and direction only when all is quiet
  MaxOps,     \* bound: commands of the host
  MaxOffers   \* bound: words of the peripheral

\* A data or address byte, with the ninth bit that tells which it is.
Word == Bytes \X BOOLEAN

\* Bits 5, 0 and 1 of DCR: direction, and the levels given to /STB and /AF.
Control == [input : BOOLEAN, stb : BOOLEAN, af : BOOLEAN]

ASSUME EcpPortAssumption ==
  /\ FifoSize \in Nat /\ FifoSize >= 2
  /\ Bytes # {} /\ NoWord \notin Word
  /\ Modes # {} /\ Modes \subseteq 0 .. 7
  /\ Controls \subseteq Control
  /\ Polite \in BOOLEAN
  /\ MaxOps \in Nat /\ MaxOffers \in Nat

VARIABLES
  fifo,      \* Fifo, fifor, fifow and the bits 0 and 1 (empty, full) of ECR
  mode,      \* ECR_Bits, as the number of its bit
  input,     \* DIRECTION_INPUT
  dataByte,  \* data_byte, what out0 wrote outside the FIFO modes
  out,       \* the byte on the data lines while they are outputs (PORTD)
  stb, af,   \* /STB and /AF are high (PORTB)
  at,        \* where the main loop is
  busy, ack, \* the peripheral's lines BSY and /ACK are high
  offer,     \* the word the peripheral drives, its ninth bit on BSY
  last,      \* ghost: the last word read from the FIFO since it was emptied
  sent,      \* ghost: words strobed out
  received,  \* ghost: words the peripheral took
  offered,   \* ghost: words the peripheral gave
  fetched,   \* ghost: words EcpXfer read from the peripheral
  ops        \* commands so far (bounds the model)

queue == <<fifo, last>>
port  == <<mode, input, dataByte>>
lines == <<out, stb, af>>
device == <<busy, ack, offer, received, offered>>
vars == <<fifo, mode, input, dataByte, out, stb, af, at, busy, ack, offer, last, sent,
          received, offered, fetched, ops>>
-----------------------------------------------------------------------------
(* The ring: PutFifo and GetFifo *)

Slots == 0 .. FifoSize - 1

\* (i + 1) & (FIFOSIZE - 1) and (i - 1) & (FIFOSIZE - 1)
After(i)  == IF i = FifoSize - 1 THEN 0 ELSE i + 1
Before(i) == IF i = 0 THEN FifoSize - 1 ELSE i - 1

\* Fault: full only when the indices have met and one more comes.
PutAnyway(f, w) ==
  [slot |-> [f.slot EXCEPT ![f.w] = w], r |-> f.r, w |-> After(f.w),
   empty |-> FALSE, full |-> f.full \/ After(f.w) = f.r]

Put(f, w) ==
  IF f.full THEN f
  ELSE [slot |-> [f.slot EXCEPT ![f.w] = w], r |-> f.r, w |-> After(f.w),
        empty |-> FALSE, full |-> After(f.w) = f.r]

\* The word GetFifo returns: the previous one again when the FIFO is empty.
Front(f) == IF f.empty THEN f.slot[Before(f.r)] ELSE f.slot[f.r]

\* The FIFO after GetFifo.
Got(f) ==
  IF f.empty THEN f
  ELSE [f EXCEPT !.r = After(f.r), !.full = FALSE, !.empty = f.w = After(f.r)]

Cleared(f) == [f EXCEPT !.r = 0, !.w = 0, !.empty = TRUE, !.full = FALSE]

\* GetFifo as a step.
GetFifo ==
  /\ fifo' = Got(fifo)
  /\ last' = IF fifo.empty THEN last ELSE Front(fifo)

FifoModes == {2, 3, 6}
-----------------------------------------------------------------------------
\* .noinit: the slots hold anything.  The mode comes from the EEPROM.
Init ==
  /\ \E w \in Word : fifo = [slot |-> [i \in Slots |-> w], r |-> 0, w |-> 0,
                             empty |-> TRUE, full |-> FALSE]
  /\ mode \in Modes /\ input = FALSE
  /\ dataByte \in Bytes /\ out = dataByte /\ stb = TRUE /\ af = TRUE
  /\ at = "xfer"
  /\ busy = FALSE /\ ack = TRUE /\ offer \in Word
  /\ last = NoWord
  /\ sent = <<>> /\ received = <<>> /\ offered = <<>> /\ fetched = <<>>
  /\ ops = 0

Goto(label) == at' = label
-----------------------------------------------------------------------------
(* Main loop: SppXfer, EcpXfer, usbPoll *)

NoXfer ==
  /\ at = "xfer" /\ mode \notin {2, 3}
  /\ Goto("poll")
  /\ UNCHANGED <<queue, port, lines, device, sent, fetched, ops>>

\* The strobe is a pulse: the peripheral latches the byte and is busy.
SppXfer ==
  /\ at = "xfer" /\ mode = 2
  /\ IF fifo.empty \/ busy
     THEN UNCHANGED <<queue, out, busy, sent, received>>
     ELSE /\ GetFifo
          /\ out' = Front(fifo)[1]
          /\ sent' = Append(sent, <<out', af>>)
          /\ received' = Append(received, <<out', af>>)
          /\ busy' = TRUE
  /\ Goto("poll")
  /\ UNCHANGED <<port, stb, af, ack, offer, offered, fetched, ops>>

\* EcpXfer, output: a word is put on the lines and /STB lowered, if it is high,
\* there is a word and the peripheral is not busy.
EcpStrobe ==
  /\ at = "xfer" /\ mode = 3 /\ ~input
  /\ IF stb /\ ~fifo.empty /\ ~busy
     THEN /\ GetFifo
          /\ out' = Front(fifo)[1] /\ af' = Front(fifo)[2]
          /\ sent' = Append(sent, Front(fifo))
          /\ stb' = FALSE
     ELSE UNCHANGED <<queue, lines, sent>>
  /\ Goto(IF stb' THEN "poll" ELSE "second")
  /\ UNCHANGED <<port, device, fetched, ops>>

\* Fault: /STB goes up whether or not the peripheral has answered.
EcpStrobePulse ==
  /\ at = "second" /\ ~input
  /\ stb' = TRUE
  /\ Goto("poll")
  /\ UNCHANGED <<queue, port, out, af, device, sent, fetched, ops>>

\* Fault: /STB is not raised again.
EcpStrobeStays ==
  /\ at = "second" /\ ~input
  /\ Goto("poll")
  /\ UNCHANGED <<queue, port, lines, device, sent, fetched, ops>>

\* Second phase: BSY raises /STB.
EcpStrobeEnd ==
  /\ at = "second" /\ ~input
  /\ stb' = busy
  /\ Goto("poll")
  /\ UNCHANGED <<queue, port, out, af, device, sent, fetched, ops>>

\* EcpXfer, input: /ACK low raises /AF; a full FIFO does not take part.
EcpAccept ==
  /\ at = "xfer" /\ mode = 3 /\ input
  /\ IF fifo.full \/ (~af /\ ack)
     THEN Goto("poll") /\ UNCHANGED af
     ELSE Goto("second") /\ af' = TRUE
  /\ UNCHANGED <<queue, port, out, stb, device, sent, fetched, ops>>

\* Fault: the second phase does not wait for /ACK.
EcpReadEarly ==
  /\ at = "second" /\ input
  /\ fifo' = Put(fifo, offer)
  /\ fetched' = Append(fetched, offer)
  /\ af' = FALSE
  /\ Goto("poll")
  /\ UNCHANGED <<last, port, out, stb, device, sent, ops>>

\* Second phase: with /ACK high again the word is read and /AF lowered.
EcpRead ==
  /\ at = "second" /\ input
  /\ IF ack
     THEN /\ fifo' = Put(fifo, offer)
          /\ fetched' = Append(fetched, offer)
          /\ af' = FALSE
     ELSE UNCHANGED <<fifo, fetched, af>>
  /\ Goto("poll")
  /\ UNCHANGED <<last, port, out, stb, device, sent, ops>>

PollDone ==
  /\ at = "poll"
  /\ Goto("xfer")
  /\ UNCHANGED <<queue, port, lines, device, sent, fetched, ops>>

Loop == NoXfer \/ SppXfer \/ EcpStrobe \/ EcpStrobeEnd \/ EcpAccept \/ EcpRead \/ PollDone
-----------------------------------------------------------------------------
(* Commands of the host, in usbPoll *)

Command ==
  /\ at = "poll" /\ ops < MaxOps
  /\ ops' = ops + 1
  /\ UNCHANGED <<at, device, sent, fetched>>

\* out0 and out400: the latter with the ninth bit.  Outside the FIFO modes out0
\* writes the port, out400 does nothing.
OutFifo(b, data) ==
  /\ Command
  /\ IF mode \in FifoModes
     THEN fifo' = Put(fifo, <<b, data>>) /\ UNCHANGED <<dataByte, out>>
     ELSE /\ dataByte' = IF data THEN dataByte ELSE b
          /\ out' = IF data \/ input THEN out ELSE b
          /\ UNCHANGED fifo
  /\ UNCHANGED <<last, mode, input, stb, af>>

\* in0 and in400.
InFifo ==
  /\ Command
  /\ IF mode \in FifoModes THEN GetFifo ELSE UNCHANGED queue
  /\ UNCHANGED <<port, lines>>

\* setbit, resbit and cplbit of one of the two: read, change and write.
BitFifo(b, data) ==
  /\ Command /\ mode \in FifoModes
  /\ last' = IF fifo.empty THEN last ELSE Front(fifo)
  /\ fifo' = Put(Got(fifo), <<b, data>>)
  /\ UNCHANGED <<port, lines>>

\* No handshake is under way.
Quiet == stb /\ ~busy /\ ack /\ (input => ~af)

\* LptSetDataDir: the lines become outputs and show data_byte.
SetDirection(in) ==
  /\ input' = in
  /\ out' = IF input /\ ~in THEN dataByte ELSE out

\* out2: in the modes 0 and 2 the direction is output.
Out2(c) ==
  /\ Command /\ (Polite => Quiet)
  /\ SetDirection(c.input /\ mode \notin {0, 2})
  /\ stb' = c.stb /\ af' = c.af
  /\ UNCHANGED <<queue, mode, dataByte>>

\* out402, also through setbit and its like.
Out402(m) ==
  /\ Command /\ (Polite => Quiet)
  /\ fifo' = Cleared(fifo)
  /\ last' = NoWord
  /\ mode' = m
  /\ SetDirection(input /\ m \notin {0, 2})
  /\ UNCHANGED <<dataByte, stb, af>>

Host ==
  \/ \E b \in Bytes, data \in BOOLEAN : OutFifo(b, data) \/ BitFifo(b, data)
  \/ InFifo
  \/ \E c \in Controls : Out2(c)
  \/ \E m \in Modes : Out402(m)
-----------------------------------------------------------------------------
(* The peripheral (IEEE 1284, ECP) *)

Take ==
  /\ ~input /\ ~stb /\ ~busy
  /\ received' = Append(received, <<out, af>>)
  /\ busy' = TRUE
  /\ UNCHANGED <<queue, port, lines, at, ack, offer, offered, sent,
                 fetched, ops>>

Ready ==
  /\ busy /\ stb
  /\ busy' = FALSE
  /\ UNCHANGED <<queue, port, lines, at, ack, offer, offered, received,
                 sent, fetched, ops>>

Offer(w) ==
  /\ input /\ ~af /\ ack /\ Len(offered) < MaxOffers
  /\ offer' = w /\ ack' = FALSE
  /\ offered' = Append(offered, w)
  /\ UNCHANGED <<queue, port, lines, at, busy, received, sent, fetched, ops>>

Release ==
  /\ ~ack /\ af
  /\ ack' = TRUE
  /\ UNCHANGED <<queue, port, lines, at, busy, offer, received, offered,
                 sent, fetched, ops>>

Next == Loop \/ Host \/ Take \/ Ready \/ (\E w \in Word : Offer(w)) \/ Release

Spec == Init /\ [][Next]_vars
-----------------------------------------------------------------------------
Ring == [slot : [Slots -> Word], r : Slots, w : Slots, empty : BOOLEAN, full : BOOLEAN]

TypeOK ==
  /\ fifo \in Ring
  /\ mode \in Modes /\ input \in BOOLEAN
  /\ dataByte \in Bytes /\ out \in Bytes /\ stb \in BOOLEAN /\ af \in BOOLEAN
  /\ at \in {"xfer", "second", "poll"}
  /\ busy \in BOOLEAN /\ ack \in BOOLEAN /\ offer \in Word
  /\ last \in Word \cup {NoWord}

\* The number of words of a ring and the words themselves.
Count(f) ==
  IF f.full THEN FifoSize ELSE IF f.r <= f.w THEN f.w - f.r ELSE f.w - f.r + FifoSize

Slot(f, i) == IF f.r + i < FifoSize THEN f.r + i ELSE f.r + i - FifoSize
Contents(f) == [i \in 1 .. Count(f) |-> f.slot[Slot(f, i - 1)]]

\* The flags the host reads in ECR are those of the ring: equal indices mean
\* empty or full, and which of them is kept in two bits that PutFifo, GetFifo and
\* out402 set one by one.
FlagsTellFill ==
  /\ fifo.r = fifo.w <=> fifo.empty \/ fifo.full
  /\ ~(fifo.empty /\ fifo.full)

\* Whatever host, firmware and peripheral do, the ring is a bounded queue: no
\* word is lost but those written when it was full, none appears twice.
Queue == INSTANCE WordQueue WITH Size <- FifoSize, q <- Contents(fifo)
ActsAsQueue == Queue!Spec

\* "An empty FIFO delivers the last word again" (usb2lpt6.c:179): it has not been
\* overwritten by words that came and went.
EmptyRepeatsLast == fifo.empty /\ last # NoWord => Front(fifo) = last

\* ECP output: the peripheral takes each word once and in order, and at most one
\* is on the lines, until it has been taken.
EachWordTaken ==
  \/ received = sent
  \/ sent = Append(received, <<out, af>>) /\ ~stb /\ ~busy

\* ECP input: the firmware reads each word the peripheral offers once and in
\* order, and none that was not offered.
EachOfferRead ==
  /\ Len(fetched) \in {Len(offered), Len(offered) - 1}
  /\ fetched = SubSeq(offered, 1, Len(fetched))

\* In both directions each word is handed over once, in order.
EachWordOnce == EachWordTaken /\ EachOfferRead

\* The transfers go on: the FIFO is emptied to the peripheral unless the host
\* turns to another mode or direction.
Drained ==
  ~fifo.empty /\ mode \in {2, 3} /\ ~input
    ~> fifo.empty \/ mode \notin {2, 3} \/ input
=============================================================================
