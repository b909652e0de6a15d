----------------------------- MODULE UsbDevice -----------------------------
(***************************************************************************)
(* The USB side of the low-speed adapters: the bit-banging USB driver      *)
(* V-USB (firmware/usbdrv/usbdrv.c and the interrupt routine's decisions   *)
(* in asmcommon.inc) with the functions of usb2lpt6.c it calls.            *)
(*                                                                         *)
(* Two actors share the buffers.  The interrupt routine answers a bus      *)
(* transaction at once: it takes a packet into the one receive buffer or   *)
(* refuses it, and sends what stands ready.  The main loop calls usbPoll,  *)
(* which works off the received packet and prepares the next one to send.  *)
(* While a packet lies in the receive buffer the interrupt routine         *)
(* refuses everything, so either half of usbPoll is one step here.         *)
(*                                                                         *)
(* The host is the bus with one control pipe and the pair of endpoints 1,  *)
(* and obeys USB's rules: data toggles, a packet again when no handshake   *)
(* came, the end of a data stage at a short packet.  A refused transaction *)
(* changes nothing and is no step.                                         *)
(***************************************************************************)
EXTENDS Integers, Sequences

CONSTANTS
  Requests,   \* control requests the host makes: [kind, n, len], see Kinds
  Pkt,        \* bytes of a packet: 8
  ReplySize,  \* sizeof ReplyBuf: 128
  Answers1,   \* numbers of answer bytes a packet to endpoint 1 asks for
  MaxOut1,    \* bound: packets the host sends to endpoint 1
  MaxHid,     \* bound: answer bytes asked for by HID reports
  MaxLost     \* bound: acknowledgements of such packets that are lost

\* n is the length of the object a request is about (a descriptor; answers of
\* the commands in a report), len is wLength.
Kinds == {"descriptor", "setConfiguration", "clearHalt", "setHalt",
          "clearHaltOut", "setReport", "getReport", "vendorOut", "vendorIn",
          "read", "write"}
InKinds == {"descriptor", "getReport", "vendorIn", "read"}

ASSUME UsbAssumption ==
  /\ Requests \subseteq [kind : Kinds, n : Nat, len : 0 .. 254]
  /\ Pkt \in Nat \ {0} /\ ReplySize \in Nat /\ Answers1 \subseteq Nat
  /\ MaxOut1 \in Nat /\ MaxHid \in Nat /\ MaxLost \in Nat

\* The lengths of the strings, built in ReplyBuf with two bytes per character.
StringLength == [languages |-> 6, vendor |-> 36, serial |-> 18]

\* The lengths of the objects of usbFunctionDescriptor.
DescriptorLength ==
  [device |-> 18, configuration |-> 57, string |-> StringLength, hid |-> 9,
   hidReport |-> 14 + 7 * 9 + 1]

Free == [tok |-> "none"]
Nak == [pid |-> "nak"]
Stall == [pid |-> "stall"]
NoMsg == -1

VARIABLES
  \* the driver
  main,    \* what usbPoll does next: "rx" or "tx"
  rx,      \* the receive buffer, usbRxLen, usbRxToken, usbCurrentDataToken
  tx,      \* usbTxLen: "nak", "stall", or the packet of endpoint 0 to send
  tog,     \* usbTxBuf[0]: toggle of the last packet of endpoint 0
  msg,     \* usbMsgLen, usbMsgFlags, usbMsgPtr
  tx1,     \* usbTxLen1, likewise of endpoint 1
  tog1,    \* usbTxBuf1[0]
  \* usb2lpt6.c
  g,       \* gbRequest, gAdr and gLen
  expect,  \* ExpectEP1OutToken
  reply,   \* ReplyBuf
  idxR, idxW,  \* ReplyIdxR, ReplyIdxW
  written, \* ghost: bytes the write request at work has written
  done1,   \* ghost: packets of endpoint 1 the parser has been given
  \* the host
  ctl,     \* its control transfer: stage, request, toggle, bytes got or sent
  out1,    \* OUT transfers of endpoint 1: packets made, toggle, at work, and
           \* the answers the last one asks for
  in1,     \* IN transfers: one is at work, toggle, packet last answered
  hid,     \* answers the HID user has got
  made,    \* answers the HID user has asked for
  last,    \* ghost: the request last completed and what came of it
  lost     \* acknowledgements lost

driver == <<main, rx, tx, tog, msg, tx1, tog1>>
app == <<g, expect, reply, idxR, idxW, written, done1>>
host == <<ctl, out1, in1, hid, made, last, lost>>
vars == <<driver, app, host>>

IsPacket(t) == t.pid = "data"

Init ==
  /\ main = "rx" /\ rx = Free
  /\ tx = Nak /\ tog = 0 /\ tx1 = Nak /\ tog1 = 1
  /\ msg = [len |-> NoMsg, user |-> FALSE, buf |-> "other", pos |-> 0]
  /\ g = [kind |-> "none", pos |-> 0, len |-> 0]
  /\ expect = 0 /\ idxR = 0 /\ idxW = 0 /\ written = 0 /\ done1 = <<>>
  /\ reply = [i \in 0 .. ReplySize - 1 |-> 0]
  /\ ctl = [stage |-> "idle"]
  /\ out1 = [n |-> 0, ask |-> 0, tog |-> 0, busy |-> FALSE]
  /\ in1 = [busy |-> FALSE, tog |-> 0, got |-> 0]
  /\ hid = <<>> /\ made = 0 /\ last = [kind |-> "none"] /\ lost = 0
-----------------------------------------------------------------------------
(* usb2lpt6.c: the functions the driver calls *)

Least(a, b) == IF a < b THEN a ELSE b

\* Fault: the answers of every report begin at the front of ReplyBuf.
HidAtFront(ids) ==
  /\ reply' = [i \in DOMAIN reply |->
       IF i \in 2 .. 1 + Len(ids) THEN ids[i - 1] ELSE reply[i]]
  /\ idxW' = idxW + Len(ids)

\* HidProcessInOut: the answers of the commands at the end of those that wait.
Stored(ids) ==
  [i \in DOMAIN reply |->
     IF i - 1 - idxW \in 1 .. Len(ids) THEN ids[i - 1 - idxW] ELSE reply[i]]

HidProcessInOut(ids) == reply' = Stored(ids) /\ idxW' = idxW + Len(ids)

\* The reply of a control request: its length (NoMsg: the user functions
\* deliver or take the data) and where usbMsgPtr points.
Reply(len, user, buf, pos) ==
  msg' = [len |-> len, user |-> user, buf |-> buf, pos |-> pos]

\* usbFunctionSetup, the vendor and class requests; the length of a reply is
\* limited to wLength by usbProcessRx.
FunctionSetup(r, ids) ==
  /\ g' = [kind |-> r.kind, pos |-> 0, len |-> r.len]
  /\ CASE r.kind = "setReport" ->
            /\ Reply(NoMsg, TRUE, "other", 0)
            /\ UNCHANGED <<reply, idxR, idxW>>
       [] r.kind = "getReport" /\ idxW # 0 ->
            /\ reply' = [reply EXCEPT ![idxR + 1] = 0]
            /\ Reply(r.len, FALSE, "ReplyBuf", idxR + 1)
            /\ IF idxR + r.n >= idxW
                 THEN idxR' = 0 /\ idxW' = 0
                 ELSE idxR' = idxR + r.n /\ UNCHANGED idxW
       [] r.kind = "getReport" /\ idxW = 0 ->  \* taken for READ_REG
            /\ Reply(Least(1, r.len), FALSE, "other", 0)
            /\ UNCHANGED <<reply, idxR, idxW>>
       [] r.kind = "vendorOut" ->
            HidProcessInOut(ids) /\ Reply(0, FALSE, "other", 0) /\ UNCHANGED idxR
       [] r.kind = "vendorIn" ->
            /\ reply' = Stored(ids)
            /\ idxR' = 0 /\ idxW' = 0
            /\ Reply(0, FALSE, "other", 0)
       [] r.kind = "read" ->
            Reply(r.len, TRUE, "other", 0) /\ UNCHANGED <<reply, idxR, idxW>>
       [] r.kind = "write" ->
            Reply(NoMsg, TRUE, "other", 0) /\ UNCHANGED <<reply, idxR, idxW>>
  /\ written' = 0
  /\ UNCHANGED <<expect, done1, tx1, tog1>>

\* Fault: the toggle of endpoint 1 is not begun anew.
DriverSetupKeeps(r) ==
  /\ Reply(IF r.kind = "descriptor" THEN Least(r.n, r.len) ELSE 0,
           FALSE, "other", 0)
  /\ tx1' = CASE r.kind \in {"clearHalt", "setConfiguration"} -> Nak
              [] r.kind = "setHalt" -> Stall
              [] OTHER -> tx1
  /\ UNCHANGED <<tog1, g, expect, reply, idxR, idxW, written, done1>>

\* usbDriverSetup, the standard requests.
DriverSetup(r) ==
  /\ Reply(IF r.kind = "descriptor" THEN Least(r.n, r.len) ELSE 0,
           FALSE, "other", 0)
  /\ tx1' = CASE r.kind \in {"clearHalt", "setConfiguration"} -> Nak
              [] r.kind = "setHalt" -> Stall
              [] OTHER -> tx1
  /\ tog1' = IF r.kind \in {"clearHalt", "setHalt"} THEN 1 ELSE tog1
  /\ UNCHANGED <<g, expect, reply, idxR, idxW, written, done1>>

\* Requests that change the state of endpoint 1.
Pausing == {"setConfiguration", "clearHalt", "clearHaltOut"}

Standard == {"descriptor", "setConfiguration", "clearHalt", "setHalt",
             "clearHaltOut"}

\* Fault: a reply of an earlier request that stands ready is not dropped.
SetupKeepsTx(r, ids) ==
  /\ tog' = 0 /\ UNCHANGED tx
  /\ IF r.kind \in Standard THEN DriverSetup(r) ELSE FunctionSetup(r, ids)

\* usbProcessRx for a SETUP packet: toggling begins anew, the reply of an
\* earlier request is dropped.
ProcessSetup(r, ids) ==
  /\ tog' = 0 /\ tx' = Nak
  /\ IF r.kind \in Standard THEN DriverSetup(r) ELSE FunctionSetup(r, ids)

\* Fault: the number of bytes is not taken for an end.
FunctionWriteOpen(n, ids) ==
  LET take == Least(n, g.len)
  IN  /\ g' = [g EXCEPT !.pos = @ + take, !.len = @ - take]
      /\ IF g.kind = "setReport" THEN HidProcessInOut(ids)
                                 ELSE UNCHANGED <<reply, idxW>>
      /\ written' = IF g.kind = "write" THEN written + take ELSE written
      /\ UNCHANGED msg

\* usbFunctionWrite for the data of a control request.  It returns the bytes it
\* took, which usbProcessRx takes for the end of the data: it lets an empty
\* packet be built for the status stage.
FunctionWrite(n, ids) ==
  LET take == Least(n, g.len)
  IN  /\ g' = [g EXCEPT !.pos = @ + take, !.len = @ - take]
      /\ IF g.kind = "setReport" THEN HidProcessInOut(ids)
                                 ELSE UNCHANGED <<reply, idxW>>
      /\ written' = IF g.kind = "write" THEN written + take ELSE written
      /\ msg' = IF take > 0 THEN [msg EXCEPT !.len = 0] ELSE msg

\* usbProcessRx for a packet of a data stage: dropped unless the request said
\* that usbFunctionWrite takes it.
ProcessData(n, ids) ==
  /\ IF msg.user THEN FunctionWrite(n, ids)
                 ELSE UNCHANGED <<g, reply, idxW, written, msg>>
  /\ UNCHANGED <<tx, tog, tx1, tog1, expect, idxR, done1>>

\* usbSetInterrupt: the toggle changes only if the answer before has gone.
SetInterrupt(k, a) ==
  IF tx1 = Stall THEN UNCHANGED <<tx1, tog1>>
  ELSE /\ tog1' = IF tx1 = Nak THEN 1 - tog1 ELSE tog1
       /\ tx1' = [pid |-> "data", tog |-> tog1', k |-> k, n |-> a]

\* Fault: without the test of the toggle.
WriteOutAll(k, a, t) ==
  /\ done1' = Append(done1, k)
  /\ reply' = [i \in DOMAIN reply |-> IF i < a THEN 0 ELSE reply[i]]
  /\ IF a > 0 THEN SetInterrupt(k, a) ELSE UNCHANGED <<tx1, tog1>>
  /\ expect' = 1 - t
  /\ UNCHANGED <<tx, tog, msg, g, idxR, idxW, written>>

\* usbFunctionWriteOut, a packet of endpoint 1 that asks for a answers: they go
\* to the front of ReplyBuf, and from there into the buffer of endpoint 1.
WriteOut(k, a, t) ==
  /\ IF t = expect
       THEN /\ expect' = 1 - t
            /\ done1' = Append(done1, k)
            /\ reply' = [i \in DOMAIN reply |-> IF i < a THEN 0 ELSE reply[i]]
            /\ IF a > 0 THEN SetInterrupt(k, a) ELSE UNCHANGED <<tx1, tog1>>
       ELSE UNCHANGED <<expect, done1, reply, tx1, tog1>>
  /\ UNCHANGED <<tx, tog, msg, g, idxR, idxW, written>>

-----------------------------------------------------------------------------
(* usbPoll, called by the main loop without end *)

\* The received packet, if there is one, is worked off and the buffer freed.
PollRx ==
  /\ main = "rx" /\ main' = "tx"
  /\ IF rx = Free THEN UNCHANGED <<rx, tx, tog, msg, tx1, tog1, app>>
     ELSE /\ rx' = Free
          /\ CASE rx.tok = "setup" -> ProcessSetup(rx.req, rx.ids)
               [] rx.tok = "out0" -> ProcessData(rx.n, rx.ids)
               [] rx.tok = "out1" -> WriteOut(rx.n, rx.ask, rx.tog)
  /\ UNCHANGED host

\* usbDeviceRead: the next n bytes of the reply.  Only those of ReplyBuf are
\* told apart; of other objects byte i is the number i.
DeviceRead(n) ==
  LET from == IF msg.user THEN g.pos ELSE msg.pos
  IN  [i \in 1 .. n |-> IF msg.buf = "ReplyBuf" THEN reply[from + i - 1]
                                              ELSE from + i]

\* usbBuildTxBlock: a packet that is not full ends the message.
BuildTxBlock ==
  LET n == Least(msg.len, Pkt)
  IN  /\ tog' = 1 - tog
      /\ tx' = [pid |-> "data", tog |-> 1 - tog, data |-> DeviceRead(n)]
      /\ g' = IF msg.user THEN [g EXCEPT !.pos = @ + n, !.len = @ - n] ELSE g
      /\ msg' = [msg EXCEPT !.len = IF n < Pkt THEN NoMsg ELSE @ - n,
                            !.pos = @ + n]

\* The next packet is prepared when none waits.
PollTx ==
  /\ main = "tx" /\ main' = "rx"
  /\ IF ~IsPacket(tx) /\ msg.len # NoMsg THEN BuildTxBlock
                                         ELSE UNCHANGED <<tog, tx, g, msg>>
  /\ UNCHANGED <<rx, tx1, tog1, expect, reply, idxR, idxW, written, done1, host>>
-----------------------------------------------------------------------------
(* The host: control transfers, one after the other *)

\* What the HID user obeys: it fetches as many answers as it has asked for.  The
\* endpoints' state is changed while no transfer of endpoint 1 is at work.
Sensible(r) ==
  /\ r.kind = "setReport" => made + r.n <= MaxHid
  /\ r.kind = "getReport" => r.n <= made - Len(hid)
  /\ r.kind \in {"vendorOut", "vendorIn"} => made = Len(hid)
  /\ r.kind \in Pausing => ~out1.busy /\ ~in1.busy

Asked(r) == IF r.kind = "setReport" THEN r.n ELSE 0

SetupStage(r) ==
  /\ ctl.stage = "idle" /\ rx = Free /\ Sensible(r)
  /\ rx' = [tok |-> "setup", req |-> r, ids |-> <<>>]
  /\ made' = made + Asked(r)
  /\ ctl' = [stage |-> IF r.kind \in InKinds THEN "in"
                       ELSE IF r.len > 0 THEN "out" ELSE "statusIn",
             req |-> r, tog |-> 1, got |-> <<>>, sent |-> 0]
  /\ last' = [kind |-> "none"]
  /\ UNCHANGED <<main, tx, tog, msg, tx1, tog1, app, out1, in1, hid, lost>>

DataOut ==
  LET n == Least(Pkt, ctl.req.len - ctl.sent)
  IN  /\ ctl.stage = "out" /\ rx = Free
      /\ rx' = [tok |-> "out0", n |-> n, ids |->
           [i \in 1 .. Asked(ctl.req) |-> made - Asked(ctl.req) + i]]
      /\ ctl' = [ctl EXCEPT !.sent = @ + n,
           !.stage = IF ctl.sent + n = ctl.req.len THEN "statusIn" ELSE "out"]
  /\ UNCHANGED <<main, tx, tog, msg, tx1, tog1, app, out1, in1, hid, made, last, lost>>

\* A packet with the toggle of the one before is taken for its repetition.
DataIn ==
  LET got == ctl.got \o tx.data
      more == Len(tx.data) = Pkt /\ Len(got) < ctl.req.len
  IN  /\ ctl.stage = "in" /\ rx = Free /\ IsPacket(tx)
      /\ tx' = Nak
      /\ ctl' = IF tx.tog # ctl.tog THEN ctl
                ELSE [ctl EXCEPT !.got = got, !.tog = 1 - @,
                                 !.stage = IF more THEN "in" ELSE "statusOut"]
  /\ UNCHANGED <<main, rx, tog, msg, tx1, tog1, app, out1, in1, hid, made, last, lost>>

\* A transfer is complete.  What the host does with it: the answers of a
\* report go to its user; its toggles begin anew as USB wants it.
Complete ==
  /\ ctl' = [stage |-> "idle"]
  /\ last' = [kind |-> ctl.req.kind, n |-> ctl.req.n, len |-> ctl.req.len,
              got |-> ctl.got, written |-> written]
  /\ hid' = IF ctl.req.kind = "getReport" THEN hid \o Tail(ctl.got) ELSE hid
  /\ out1' = IF ctl.req.kind \in {"setConfiguration", "clearHaltOut"}
               THEN [out1 EXCEPT !.tog = 0] ELSE out1
  /\ in1' = IF ctl.req.kind \in {"setConfiguration", "clearHalt"}
              THEN [in1 EXCEPT !.tog = 0] ELSE in1
  /\ UNCHANGED <<main, rx, tog, msg, tx1, tog1, app, made, lost>>

\* The status stage of an IN transfer: an empty OUT packet, which the interrupt
\* routine acknowledges and does not pass on.
StatusOut == ctl.stage = "statusOut" /\ rx = Free /\ Complete /\ UNCHANGED tx

\* The status stage of an OUT transfer.
StatusIn ==
  /\ ctl.stage = "statusIn" /\ rx = Free /\ IsPacket(tx) /\ tx.tog = 1
  /\ tx' = Nak /\ Complete

\* The host gives up a transfer whose result nobody else depends on.
Abort ==
  /\ ctl.stage # "idle" /\ ctl.req.kind \in {"descriptor", "read", "write"}
  /\ ctl' = [stage |-> "idle"] /\ last' = [kind |-> "none"]
  /\ UNCHANGED <<driver, app, out1, in1, hid, made, lost>>
-----------------------------------------------------------------------------
(* The host: endpoint 1, used by the driver, one packet and its answer at a time *)

Out1Start(a) ==
  /\ ~out1.busy /\ ~in1.busy /\ out1.n < MaxOut1
  /\ ctl.stage # "idle" => ctl.req.kind \notin Pausing
  /\ out1' = [out1 EXCEPT !.n = @ + 1, !.busy = TRUE, !.ask = a]
  /\ in1' = [in1 EXCEPT !.busy = a > 0]
  /\ UNCHANGED <<driver, app, ctl, hid, made, last, lost>>

\* The device takes the packet; the host repeats it if the acknowledgement is
\* lost.
Out1Send(acked) ==
  /\ out1.busy /\ rx = Free
  /\ rx' = [tok |-> "out1", n |-> out1.n, ask |-> out1.ask, tog |-> out1.tog]
  /\ IF acked THEN out1' = [out1 EXCEPT !.busy = FALSE, !.tog = 1 - @] /\ UNCHANGED lost
              ELSE lost < MaxLost /\ lost' = lost + 1 /\ UNCHANGED out1
  /\ UNCHANGED <<main, tx, tog, msg, tx1, tog1, app, ctl, in1, hid, made, last>>

In1Receive ==
  /\ in1.busy /\ rx = Free /\ IsPacket(tx1)
  /\ tx1' = Nak
  /\ in1' = IF tx1.tog # in1.tog THEN in1
            ELSE [busy |-> FALSE, tog |-> 1 - in1.tog, got |-> tx1.k]
  /\ UNCHANGED <<main, rx, tx, tog, msg, tog1, app, ctl, out1, hid, made, last, lost>>

\* A halted endpoint: the transfer fails.
In1Stall ==
  /\ in1.busy /\ rx = Free /\ tx1 = Stall
  /\ in1' = [in1 EXCEPT !.busy = FALSE]
  /\ UNCHANGED <<driver, app, ctl, out1, hid, made, last, lost>>
-----------------------------------------------------------------------------
Next ==
  \/ PollRx \/ PollTx
  \/ \E r \in Requests : SetupStage(r)
  \/ DataOut \/ DataIn \/ StatusOut \/ StatusIn \/ Abort
  \/ \E a \in Answers1 : Out1Start(a)
  \/ \E acked \in BOOLEAN : Out1Send(acked)
  \/ In1Receive \/ In1Stall

Spec == Init /\ [][Next]_vars
-----------------------------------------------------------------------------
Upto(n) == [i \in 1 .. n |-> i]

TypeOK ==
  /\ main \in {"rx", "tx"}
  /\ rx.tok \in {"none", "setup", "out0", "out1"}
  /\ tog \in 0 .. 1 /\ tog1 \in 0 .. 1 /\ expect \in 0 .. 1
  /\ IsPacket(tx) => tx.tog = tog /\ Len(tx.data) <= Pkt
  /\ IsPacket(tx1) => tx1.tog = tog1 /\ tx1.n > 0
  /\ msg.len \in NoMsg .. 254 /\ g.len \in 0 .. 254
  /\ idxR \in 0 .. idxW /\ idxW \in 0 .. ReplySize - 2

\* The packets of endpoint 1 are given to the parser each once and in the order
\* they were made, however often the host had to repeat one; one whose
\* acknowledgement the host has got is not lost.  With nothing under way the host
\* and the device agree on the toggles: the next packet is taken for a new one, in
\* both directions.
Out1Once ==
  /\ done1 = Upto(Len(done1))
  /\ ~out1.busy /\ rx = Free => Len(done1) = out1.n
  /\ ~out1.busy /\ ~in1.busy /\ rx = Free /\ ctl.stage = "idle" =>
       /\ expect = out1.tog
       /\ tx1 = Nak => in1.tog = 1 - tog1

\* A control transfer that ends moved what was asked for: the whole object or
\* as much of it as wLength allows, byte by byte; each byte written once.
TransferComplete ==
  /\ last.kind \in {"descriptor", "read"} => last.got = Upto(Least(last.n, last.len))
  /\ last.kind = "write" => last.written = last.len

\* The HID user gets the answers of its commands, in their order, whatever
\* endpoint 1 is used for meanwhile.
HidInOrder == hid = Upto(Len(hid))

\* No transfer is refused for ever: when the main loop has nothing left to do,
\* what the host waits for stands ready, with the toggle the host takes.
NotRefused ==
  rx = Free /\ (IsPacket(tx) \/ msg.len = NoMsg) =>
    /\ ctl.stage \in {"in", "statusIn"} => IsPacket(tx) /\ tx.tog = ctl.tog
    /\ in1.busy /\ ~out1.busy =>
         tx1 = Stall \/ (IsPacket(tx1) /\ tx1.tog = in1.tog /\ tx1.k = out1.n)

\* What the host asks for is done: wholly, in order, and not refused for ever.
TransfersServed == TransferComplete /\ HidInOrder /\ NotRefused
=============================================================================
