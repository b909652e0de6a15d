------------------------------ MODULE LptQueue ------------------------------
(***************************************************************************)
(* The queues of inpout32's Queue.cpp: LptOpen gives a program an object   *)
(* for a parallel port that may be a true one ("pp"), a USB2LPT device     *)
(* with its driver ("lpt"), one that is a HID ("hid") or a USB printer     *)
(* adapter with a data latch ("prn").  OUTs and INs are collected and sent *)
(* together; a HID takes its command stream cut into reports of a few      *)
(* bytes.  Two mirrors of registers 0 and 2 answer some reads at once.     *)
(* At the far end there is an adapter whose peripheral shows the data      *)
(* register on the status lines, so that a read tells what was executed    *)
(* before it.  Register 0 is read from the pins while bit 5 of the control *)
(* register is set.                                                        *)
(***************************************************************************)
EXTENDS Integers, Sequences, SequencesExt

CONSTANTS
  Kinds,      \* the kinds of port a program may open
  Outs,       \* the OUTs a program makes, <<address, value>>
  Ins,        \* the addresses it reads
  Batches,    \* the command streams it gives to LptInOut
  MaxReport,  \* bytes of a HID report (7 for a low-speed device)
  Packet,     \* bytes of USBPRNQUEUE.outbuf (64)
  InKinds,    \* the kinds of port on which the program uses LptIn
  PpPasses,   \* the passes in which it uses LptInOut on a true port
  Fails,      \* the kinds whose transfers may fail or time out
  ClosesFull, \* programs close a queue without flushing it
  MaxIssued   \* bound on the OUTs of a behaviour

ASSUME QueueAssumption ==
  /\ Kinds \subseteq {"pp", "lpt", "hid", "prn"}
  /\ InKinds \subseteq Kinds /\ Fails \subseteq Kinds
  /\ MaxReport \in Nat \ {0} /\ Packet \in Nat \ {0} /\ ClosesFull \in BOOLEAN

VARIABLES
  kind,      \* the class of the queue object
  pass,      \* QUEUE.pass
  ucode,     \* USB2LPTQUEUE.ucode: commands not sent yet
  inbuf,     \* QUEUE.inbuf: answers not fetched yet
  mirror,    \* o0 and o2, None while v0 or v2 is false
  outbuf,    \* USBPRNQUEUE.outbuf: data bytes not written yet
  job,       \* an inout() that is under way on a USB queue, Idle otherwise
  dev,       \* the adapter: its registers, what it executed and its answers
  issued,    \* every OUT of the program
  asked,     \* what the collected INs must answer
  result,    \* what the last call delivered ...
  due,       \* ... and what it had to deliver
  lost       \* a call has reported, or swallowed, a failed transfer

vars == <<kind, pass, ucode, inbuf, mirror, outbuf, job, dev, issued, asked, result, due, lost>>

None == 256
Idle == [state |-> "idle", rest |-> <<>>, rlen |-> 0, got |-> <<>>]
Closed == [Idle EXCEPT !.state = "closed"]
IsIn(op) == (op \div 16) % 2 = 1
PinInput(control) == (control \div 32) % 2 = 1

-----------------------------------------------------------------------------
(* The adapter takes one byte at a time, as in CommandStream. *)

Fresh == [pending |-> None, reg |-> [a \in 0 .. 15 |-> 0], ran |-> <<>>, reply |-> <<>>]

Value(reg, a) ==
  CASE a = 0 -> IF PinInput(reg[2]) THEN 255 ELSE reg[0]
    [] a = 1 -> reg[0]
    [] OTHER -> reg[a]

Store(d, a, v) == [d EXCEPT !.reg[a] = v, !.ran = Append(@, <<a, v>>)]

\* Commands 21h to 23h: set, reset or change a bit of a register, as it reads.
BitOp(d, a, b) ==
  LET old == Value(d.reg, b \div 16)
      bit == 2 ^ (b % 8)
      off == IF (old \div bit) % 2 = 1 THEN old - bit ELSE old
  IN  Store(d, b \div 16, CASE a = 33 -> off + bit
                             [] a = 34 -> off
                             [] OTHER  -> IF off = old THEN old + bit ELSE off)

Run(d, a, v) ==
  LET done == [d EXCEPT !.pending = None]
  IN  CASE a \in 0 .. 15  -> Store(done, a, v)
        [] a \in 33 .. 35 -> BitOp(done, a, v)
        [] OTHER -> done

Step(d, b) ==
  IF d.pending # None THEN Run(d, d.pending, b)
  ELSE IF IsIn(b) THEN [d EXCEPT !.reply = Append(@, Value(d.reg, b - 16))]
  ELSE [d EXCEPT !.pending = b]

Feed(d, bytes) == FoldLeft(Step, d, bytes)

\* The port as the program knows it: every OUT so far executed.
Known == FoldLeft(LAMBDA d, o : Run(d, o[1], o[2]), Fresh, issued)

\* What a program expects of a batch, and the OUTs it issues with it.
Expected(batch) == Feed(Known, batch).reply
OutsOf(batch) == LET d == Feed(Known, batch) IN d.ran
AnswersIn(batch) == Len(Expected(batch))

-----------------------------------------------------------------------------

Init ==
  /\ kind \in Kinds
  /\ pass = 0 /\ ucode = <<>> /\ inbuf = <<>> /\ outbuf = <<>>
  /\ mirror = [a \in {0, 2} |-> None]
  /\ job = Idle /\ dev = Fresh
  /\ issued = <<>> /\ asked = <<>> /\ result = <<>> /\ due = <<>>
  /\ lost = FALSE

\* QUEUE::out: remember registers 0 and 2.
Mirrored(m, a, v) == IF a \in {0, 2} THEN [m EXCEPT ![a] = v] ELSE m

\* USBPRNQUEUE::flush_out (the padding repeats the last byte, which leaves the
\* latch as it is): with or without success the buffer is empty then.
Written(d, bytes) == FoldLeft(LAMBDA e, b : Run(e, 0, b), d, bytes)

\* Fault: the fill level survives the write.
FlushOutKeeps(buf) ==
  /\ outbuf' = IF Len(buf) < Packet THEN buf ELSE <<>>
  /\ dev' = Written(dev, buf)
  /\ lost' = lost

FlushOut(buf) ==
  /\ outbuf' = <<>>
  /\ \E ok \in IF kind \in Fails /\ buf # <<>> THEN BOOLEAN ELSE {TRUE} :
       /\ dev' = IF ok THEN Written(dev, buf) ELSE dev
       /\ lost' = (lost \/ ~ok)

\* The bit that makes USBPRNQUEUE reset the printer; o2 is not initialised.
InitBit(v) == (v \div 4) % 2
Resets(v) == IF mirror[2] = None THEN BOOLEAN ELSE {InitBit(mirror[2]) # InitBit(v)}

PrnOut(a, v) ==
  /\ mirror' = Mirrored(mirror, a, v)
  /\ CASE a = 0 -> LET b == Append(outbuf, v)
                   IN  IF Len(b) = Packet THEN FlushOut(b)
                       ELSE outbuf' = b /\ UNCHANGED <<dev, lost>>
       [] a = 2 -> \E reset \in Resets(v) :
                     IF reset THEN FlushOut(outbuf) ELSE UNCHANGED <<outbuf, dev, lost>>
       [] OTHER -> UNCHANGED <<outbuf, dev, lost>>

\* A true port takes it at once, a USB2LPT queue collects it.
PpOut(a, v) == dev' = Run(dev, a, v) /\ UNCHANGED <<ucode, mirror, outbuf, lost>>

UsbOut(a, v) ==
  /\ ucode' = ucode \o <<a, v>>
  /\ mirror' = Mirrored(mirror, a, v)
  /\ UNCHANGED <<dev, outbuf, lost>>

LptOut(a, v) ==
  /\ job = Idle /\ Len(issued) < MaxIssued
  /\ issued' = Append(issued, <<a, v>>)
  /\ CASE kind = "pp"  -> PpOut(a, v)
       [] kind = "prn" -> PrnOut(a, v) /\ UNCHANGED ucode
       [] OTHER        -> UsbOut(a, v)
  /\ UNCHANGED <<kind, pass, inbuf, job, asked, result, due>>

\* What USBPRNQUEUE::in answers; ECR reads as automatic strobe.
Unwritten(a) == CASE a = 2 -> 204 [] a = 10 -> 69 [] OTHER -> 255

PrnValue(d, a) ==
  CASE a = 1 -> d.reg[0]
    [] a \in {0, 2} /\ mirror[a] # None -> mirror[a]
    [] OTHER -> Unwritten(a)

\* ... and what the program may take that to mean.
PrnExpected(a) ==
  LET writes == {i \in 1 .. Len(issued) : issued[i][1] = a}
  IN  CASE a = 1 -> Known.reg[0]
        [] a \in {0, 2} /\ writes # {} -> Known.reg[a]
        [] OTHER -> Unwritten(a)

Started(code, rlen, kindOfCall) ==
  job' = [state |-> kindOfCall, rest |-> code, rlen |-> rlen, got |-> <<>>]

\* A true port answers at once in pass 0.
PpIn(a) ==
  /\ IF pass = 1
     THEN /\ inbuf' = Append(inbuf, Value(dev.reg, a))
          /\ asked' = Append(asked, Value(Known.reg, a))
          /\ UNCHANGED <<result, due>>
     ELSE /\ result' = <<Value(dev.reg, a)>>
          /\ due' = <<Value(Known.reg, a)>>
          /\ UNCHANGED <<inbuf, asked>>
  /\ UNCHANGED <<ucode, outbuf, dev, job, lost>>

PrnIn(a) ==
  /\ IF a = 1 THEN FlushOut(outbuf) ELSE UNCHANGED <<outbuf, dev, lost>>
  /\ inbuf' = Append(inbuf, PrnValue(dev', a))
  /\ asked' = Append(asked, PrnExpected(a))
  /\ UNCHANGED <<ucode, job, result, due>>

UsbIn(a) ==
  /\ asked' = Append(asked, Value(Known.reg, a))
  /\ IF pass = 1
     THEN ucode' = Append(ucode, a + 16) /\ UNCHANGED job
     ELSE Started(Append(ucode, a + 16), Len(inbuf), "flush") /\ ucode' = <<>>
  /\ UNCHANGED <<inbuf, outbuf, dev, result, due, lost>>

LptIn(a) ==
  /\ job = Idle /\ kind \in InKinds
  /\ Len(asked) < 2
  /\ CASE kind = "pp"  -> PpIn(a)
       [] kind = "prn" -> PrnIn(a)
       [] OTHER        -> UsbIn(a)
  /\ UNCHANGED <<kind, pass, mirror, issued>>

\* A delay is a command of the USB2LPT queues; the printer's queue writes its data first.
PrnDelay == FlushOut(outbuf) /\ UNCHANGED ucode

UsbDelay ==
  /\ Len(ucode) <= MaxIssued
  /\ ucode' = ucode \o <<32, 255>>
  /\ UNCHANGED <<outbuf, dev, lost>>

LptDelay ==
  /\ job = Idle
  /\ CASE kind = "pp"  -> UNCHANGED <<ucode, outbuf, dev, lost>>
       [] kind = "prn" -> PrnDelay
       [] OTHER        -> UsbDelay
  /\ UNCHANGED <<kind, pass, inbuf, mirror, job, issued, asked, result, due>>

\* The two other queues copy inbuf; USB2LPTQUEUE sends the commands and expects as many
\* answers as inbuf has bytes.
PpFlush == UNCHANGED <<outbuf, dev, lost, job, ucode>>

PrnFlush == FlushOut(outbuf) /\ UNCHANGED <<job, ucode>>

UsbFlush ==
  /\ IF ucode = <<>> THEN UNCHANGED job ELSE Started(ucode, Len(inbuf), "flush")
  /\ ucode' = <<>>
  /\ UNCHANGED <<outbuf, dev, lost>>

LptFlush ==
  /\ job = Idle
  /\ CASE kind = "pp"  -> PpFlush
       [] kind = "prn" -> PrnFlush
       [] OTHER        -> UsbFlush
  /\ result' = inbuf /\ due' = asked
  /\ inbuf' = <<>> /\ asked' = <<>>
  /\ UNCHANGED <<kind, pass, mirror, issued>>

-----------------------------------------------------------------------------
(* LptInOut: a batch of commands past the queue (which the program has flushed). *)

Flushed == ucode = <<>> /\ inbuf = <<>> /\ asked = <<>> /\ (kind = "prn" => outbuf = <<>>)

\* Fault: the direction bit is forgotten.
ShortAnswerAlways(batch) ==
  CASE batch = <<16>> /\ mirror[0] # None -> <<mirror[0]>>
    [] batch = <<18>> /\ mirror[2] # None -> <<mirror[2]>>
    [] OTHER -> <<>>

\* QUEUE::shortcut.
ShortAnswer(batch) ==
  CASE batch = <<16>> /\ mirror[0] # None /\ mirror[2] # None /\ ~PinInput(mirror[2]) -> <<mirror[0]>>
    [] batch = <<18>> /\ mirror[2] # None -> <<mirror[2]>>
    [] OTHER -> <<>>

ShortMirror(batch) ==
  IF Len(batch) = 2 /\ AnswersIn(batch) = 0 THEN Mirrored(mirror, batch[1], batch[2]) ELSE mirror

\* QUEUE::inout, the loop over single operations, on a true port.
PpInOut(batch) ==
  LET d == Feed(dev, batch)
  IN  /\ dev' = [d EXCEPT !.reply = <<>>]
      /\ result' = IF pass = 1 THEN d.reply ELSE <<>>
      /\ UNCHANGED <<job, mirror, outbuf, lost>>

\* The same on a printer's queue, for the batches RedirOut and RedirIn make.
PrnInOut(batch) ==
  /\ IF IsIn(batch[1])
     THEN /\ FlushOut(outbuf)
          /\ result' = <<PrnValue(dev', batch[1] - 16)>>
          /\ UNCHANGED mirror
     ELSE /\ mirror' = Mirrored(mirror, batch[1], batch[2])
          /\ FlushOut(IF batch[1] = 0 THEN Append(outbuf, batch[2]) ELSE outbuf)
          /\ result' = <<>>
  /\ UNCHANGED job

LptInOut(batch) ==
  /\ job = Idle /\ Flushed
  /\ kind = "pp" => pass \in PpPasses
  /\ kind = "prn" => Len(batch) = IF IsIn(batch[1]) THEN 1 ELSE 2
  /\ Len(issued) + Len(OutsOf(batch)) - Len(Known.ran) <= MaxIssued
  /\ issued' = OutsOf(batch)
  /\ due' = IF kind = "prn" /\ IsIn(batch[1]) THEN <<PrnExpected(batch[1] - 16)>> ELSE Expected(batch)
  /\ CASE kind = "pp"  -> PpInOut(batch)
       [] kind = "prn" -> PrnInOut(batch)
       [] OTHER -> /\ mirror' = ShortMirror(batch)
                   /\ result' = ShortAnswer(batch)
                   /\ IF ShortAnswer(batch) # <<>> THEN UNCHANGED job
                      ELSE Started(batch, AnswersIn(batch), "inout")
                   /\ UNCHANGED <<dev, outbuf, lost>>
  /\ UNCHANGED <<kind, pass, ucode, inbuf, asked>>

-----------------------------------------------------------------------------
(* inout() of the two USB2LPT queues. *)

Returned(answers) ==
  /\ result' = IF job.state = "inout" THEN answers ELSE result
  /\ job' = Idle

\* USB2LPTQUEUE: one IOCTL; the driver passes the whole stream, then rlen answers.
Ioctl ==
  /\ kind = "lpt" /\ job \notin {Idle, Closed}
  /\ LET d == Feed(dev, job.rest)
     IN  /\ Returned(SubSeq(d.reply, 1, job.rlen))
         /\ dev' = [d EXCEPT !.reply = SubSeq(@, job.rlen + 1, Len(@))]
  /\ UNCHANGED <<kind, pass, ucode, inbuf, mirror, outbuf, issued, asked, due, lost>>

Min2(a, b) == IF a <= b THEN a ELSE b
Report == Min2(MaxReport, Len(job.rest))
Advance == Report

\* USB2LPTHIDQUEUE: HidD_SetFeature with the next few bytes ...
SetFeature ==
  /\ kind = "hid" /\ job.rest # <<>>
  /\ dev' = Feed(dev, SubSeq(job.rest, 1, Report))
  /\ job' = [job EXCEPT !.rest = SubSeq(@, Advance + 1, Len(@))]
  /\ UNCHANGED <<kind, pass, ucode, inbuf, mirror, outbuf, issued, asked, result, due, lost>>

\* ... then HidD_GetFeature until there are rlen answers.
Wanted == Min2(MaxReport, job.rlen - Len(job.got))
GetFeature ==
  /\ kind = "hid" /\ job \notin {Idle, Closed} /\ job.rest = <<>> /\ Len(job.got) < job.rlen
  /\ LET n == Min2(Wanted, Len(dev.reply))
     IN  /\ job' = [job EXCEPT !.got = @ \o SubSeq(dev.reply, 1, n)]
         /\ dev' = [dev EXCEPT !.reply = SubSeq(@, n + 1, Len(@))]
  /\ UNCHANGED <<kind, pass, ucode, inbuf, mirror, outbuf, issued, asked, result, due, lost>>

HidDone ==
  /\ kind = "hid" /\ job \notin {Idle, Closed} /\ job.rest = <<>> /\ Len(job.got) = job.rlen
  /\ Returned(job.got)
  /\ UNCHANGED <<kind, pass, ucode, inbuf, mirror, outbuf, dev, issued, asked, due, lost>>

\* A timeout or an error: -1.  The driver may have executed the stream all the same;
\* a HID has the reports before this one.
Fail ==
  /\ kind \in Fails /\ job \notin {Idle, Closed}
  /\ lost' = TRUE
  /\ Returned(<<>>)
  /\ IF kind = "lpt"
     THEN \E d \in {dev, Feed(dev, job.rest)} : dev' = [d EXCEPT !.reply = <<>>]
     ELSE UNCHANGED dev
  /\ UNCHANGED <<kind, pass, ucode, inbuf, mirror, outbuf, issued, asked, due>>

\* LptPass: collect (1) or not (0).  In pass 2 the program repeats the calls of pass 1 for
\* their answers; it is not modelled.
LptPass(p) ==
  /\ job = Idle /\ p # pass
  /\ pass' = p
  /\ UNCHANGED <<kind, ucode, inbuf, mirror, outbuf, job, dev, issued, asked, result, due, lost>>

\* ~USBPRNQUEUE writes its data; what a USB2LPT queue has collected goes with it.
LptClose ==
  /\ job = Idle
  /\ ClosesFull \/ ucode = <<>>
  /\ job' = Closed /\ ucode' = <<>>
  /\ IF kind = "prn" THEN FlushOut(outbuf) ELSE UNCHANGED <<outbuf, dev, lost>>
  /\ UNCHANGED <<kind, pass, inbuf, mirror, issued, asked, result, due>>

Next ==
  \/ \E o \in Outs : LptOut(o[1], o[2])
  \/ \E a \in Ins : LptIn(a)
  \/ LptDelay
  \/ LptFlush
  \/ \E b \in Batches : LptInOut(b)
  \/ Ioctl
  \/ SetFeature
  \/ GetFeature
  \/ HidDone
  \/ Fail
  \/ \E p \in {0, 1} : LptPass(p)
  \/ LptClose

Spec == Init /\ [][Next]_vars

-----------------------------------------------------------------------------
(* Properties *)

TypeOK ==
  /\ kind \in Kinds /\ pass \in {0, 1}
  /\ \A b \in {ucode, inbuf, outbuf, asked, result, due} : \A i \in DOMAIN b : b[i] \in 0 .. 255
  /\ mirror \in [{0, 2} -> 0 .. None]
  /\ Len(outbuf) < Packet /\ (outbuf # <<>> => kind = "prn")
  /\ dev.pending \in 0 .. None /\ Len(dev.ran) <= MaxIssued
  /\ lost \in BOOLEAN

\* What is executed once everything collected has been sent.
Finally ==
  IF kind = "prn" THEN Written(dev, outbuf) ELSE Feed(dev, job.rest \o ucode)

\* A printer's queue knows the data register only.
Issued == IF kind = "prn" THEN SelectSeq(issued, LAMBDA o : o[1] = 0) ELSE issued

Subsequence(s, t) ==
  \E at \in [1 .. Len(s) -> 1 .. Len(t)] :
    /\ \A i \in DOMAIN s : s[i] = t[at[i]]
    /\ \A i, j \in DOMAIN s : i < j => at[i] < at[j]

(* The OUTs of LptOut and LptInOut reach the port in their order and once each, through     *)
(* mirrors, collected streams, full packets and streams cut into reports in the middle of a *)
(* command (Queue.cpp:297, 375, 439); where a transfer fails they may be missing, but       *)
(* nothing else is executed in their place.  Between two calls the adapter waits for a new  *)
(* command and owes no answer: else the next stream's first byte is taken for data, and the *)
(* next reads get the answers of earlier ones (Queue.cpp:388).                              *)
RunsWhatWasIssued ==
  /\ IF lost THEN Subsequence(dev.ran, issued) ELSE Finally.ran = Issued
  /\ job \in {Idle, Closed} => dev.pending = None /\ dev.reply = <<>>

(* Every read, of LptInOut or collected until LptFlush, answers what the port shows after   *)
(* the OUTs before it, also where a mirror answers in the device's place (Queue.cpp:157).   *)
ReadsTrue == job = Idle /\ ~lost => result = due
=============================================================================
