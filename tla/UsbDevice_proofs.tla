-------------------------- MODULE UsbDevice_proofs --------------------------
(***************************************************************************)
(* Proofs about UsbDevice, for packets, answers and control requests of    *)
(* any number and size: what goes over endpoint 1 is an alternating-bit    *)
(* protocol in either direction, with a receive buffer between the         *)
(* interrupt routine and the main loop, and requests that reset its        *)
(* toggles in between.  The second half is about endpoint 0: the stages of *)
(* a control transfer, the bytes it moves, and the answers of HID reports  *)
(* in the buffer both endpoints share.                                     *)
(***************************************************************************)
EXTENDS UsbDevice, SequenceTheorems, TLAPS

\* The host does not begin its OUT toggles anew: the firmware has no code that
\* would follow (see the README's findings).
KeepsToggles == \A r \in Requests : r.kind \notin {"setConfiguration", "clearHaltOut"}

\* Transfers of endpoint 0 and what the host has of them.
Begun == DOMAIN ctl = {"stage", "req", "tog", "got", "sent"} /\ ctl.req \in Requests
Clearing == ctl.stage # "idle" /\ ctl.req.kind = "clearHalt"

Types ==
  /\ expect \in 0 .. 1 /\ tog1 \in 0 .. 1 /\ done1 \in Seq(Nat)
  /\ out1 \in [n : Nat, ask : Nat, tog : 0 .. 1, busy : BOOLEAN]
  /\ in1 \in [busy : BOOLEAN, tog : 0 .. 1, got : Nat]
  /\ tx1 \in {Nak, Stall} \cup [pid : {"data"}, tog : 0 .. 1, k : Nat, n : Nat]
  /\ rx.tok \in {"none", "setup", "out0", "out1"} /\ ((rx.tok = "none") <=> (rx = Free))
  /\ rx.tok = "out1" => rx.n \in Nat /\ rx.tog \in 0 .. 1 /\ rx.ask \in Nat
  /\ rx.tok = "setup" => rx.req \in Requests
  /\ ctl.stage # "idle" => Begun

\* A packet in the receive buffer that the parser will get, and what the device
\* has and expects when the buffer is worked off.
New == rx.tok = "out1" /\ rx.tog = expect
Taken == IF New THEN Len(done1) + 1 ELSE Len(done1)
Expected == IF New THEN 1 - expect ELSE expect

\* OUT: what the host has sent and the device taken differ at most by the packet
\* at work, and the toggles tell whether they do.
Out ==
  /\ done1 = Upto(Len(done1))
  /\ New => rx.n = Len(done1) + 1
  /\ ~out1.busy => Taken = out1.n /\ Expected = out1.tog
  /\ out1.busy => \/ Taken = out1.n - 1 /\ Expected = out1.tog
                  \/ Taken = out1.n /\ Expected = 1 - out1.tog

\* CLEAR_FEATURE of the halt: between the device's reset of its toggle and the
\* host's, nothing is at work; before and after they agree.
In ==
  /\ Clearing => ~out1.busy /\ ~in1.busy /\ rx.tok # "out1"
  /\ rx.tok = "setup" => ((rx.req.kind = "clearHalt") <=> Clearing)
  /\ IF Clearing /\ rx.tok # "setup"
       THEN tx1 = Nak /\ tog1 = 1
       ELSE /\ tx1 = Nak => in1.tog = 1 - tog1
            /\ IsPacket(tx1) => tx1.tog = tog1 /\ in1.tog = tog1

IInv == Types /\ Out /\ In
-----------------------------------------------------------------------------
(* The records a step may find. *)

LEMMA Kind ==
  ASSUME KeepsToggles, NEW r \in Requests
  PROVE  r.kind \in Kinds \ {"setConfiguration", "clearHaltOut"} /\ r.n \in Nat /\ r.len \in Nat
  BY UsbAssumption DEF KeepsToggles, UsbAssumption

LEMMA Packets1 ==
  ASSUME Types
  PROVE  /\ Nak # Stall /\ ~IsPacket(Nak) /\ ~IsPacket(Stall)
         /\ tx1 = Nak \/ tx1 = Stall \/ (IsPacket(tx1) /\ tx1 # Nak /\ tx1 # Stall)
         /\ IsPacket(tx1) => tx1.tog \in 0 .. 1 /\ tx1.k \in Nat /\ tx1.n \in Nat
  <1>1. Nak.pid = "nak" /\ Stall.pid = "stall"
    BY DEF Nak, Stall
  <1>. QED BY <1>1 DEF Types, IsPacket

LEMMA FreeBuffer == Free.tok = "none"
  BY DEF Free

LEMMA UptoAppend ==
  ASSUME NEW s \in Seq(Nat), s = Upto(Len(s))
  PROVE  /\ Len(s) \in Nat /\ Append(s, Len(s) + 1) \in Seq(Nat)
         /\ Len(Append(s, Len(s) + 1)) = Len(s) + 1
         /\ Append(s, Len(s) + 1) = Upto(Len(s) + 1)
  <1>1. Len(s) \in Nat
    OBVIOUS
  <1>2. Append(s, Len(s) + 1) \in Seq(Nat) /\ Len(Append(s, Len(s) + 1)) = Len(s) + 1
    BY <1>1
  <1>3. \A i \in 1 .. Len(s) + 1 : Append(s, Len(s) + 1)[i] = i
    <2>1. TAKE i \in 1 .. Len(s) + 1
    <2>2. CASE i = Len(s) + 1
      BY <1>1, <2>2
    <2>3. CASE i \in 1 .. Len(s)
      <3>1. s[i] = i
        BY <2>3 DEF Upto
      <3>. QED BY <2>3, <3>1
    <2>. QED BY <1>1, <2>2, <2>3
  <1>. QED BY <1>1, <1>2, <1>3 DEF Upto

\* A step that takes no part in endpoint 1.
LEMMA OutKept ==
  ASSUME Types, Out, UNCHANGED <<expect, done1, out1>>,
         rx' = rx \/ (rx.tok # "out1" /\ rx'.tok # "out1")
  PROVE  Out'
  BY DEF Out, New, Taken, Expected

\* A control transfer that is no CLEAR_FEATURE, or does not end.
LEMMA InKept ==
  ASSUME Types, In, UNCHANGED <<tx1, tog1, out1, in1>>, Clearing' <=> Clearing,
         rx' = rx \/ (rx = Free /\ rx'.tok = "out0")
  PROVE  In'
  BY FreeBuffer DEF In
-----------------------------------------------------------------------------
(* usbPoll *)

\* SETUP: the reply dropped; for endpoint 1 its toggle begun anew, or a stall.
LEMMA SetupWorkedOff ==
  ASSUME KeepsToggles, IInv, rx.tok = "setup", rx' = Free, ProcessSetup(rx.req, rx.ids),
         UNCHANGED host
  PROVE  IInv'
  <1>. DEFINE k == rx.req.kind
  <1>1. /\ UNCHANGED <<expect, done1, out1, in1, ctl>> /\ rx.req \in Requests
        /\ k \in Kinds \ {"setConfiguration", "clearHaltOut"}
    BY Kind DEF ProcessSetup, DriverSetup, FunctionSetup, host, IInv, Types
  <1>2. /\ k = "clearHalt" => tx1' = Nak /\ tog1' = 1
        /\ k = "setHalt" => tx1' = Stall /\ tog1' = 1
        /\ k \notin {"clearHalt", "setHalt"} => UNCHANGED <<tx1, tog1>>
    BY <1>1 DEF ProcessSetup, DriverSetup, FunctionSetup, Standard
  <1>. HIDE DEF k
  <1>3. (k = "clearHalt") <=> Clearing
    BY DEF IInv, In, k
  <1>4. tx1' \in {Nak, Stall, tx1} /\ tog1' \in 0 .. 1
    BY <1>2 DEF IInv, Types
  <1>5. Types'
    BY <1>1, <1>4, FreeBuffer DEF IInv, Types, Begun
  <1>6. Out'
    BY <1>1, FreeBuffer, OutKept DEF IInv
  <1>7. Clearing' <=> Clearing
    BY <1>1 DEF Clearing
  <1>8. In'
    BY <1>1, <1>2, <1>3, <1>7, FreeBuffer, Packets1, <1>5 DEF IInv, In
  <1>. QED BY <1>5, <1>6, <1>8 DEF IInv

\* A packet of endpoint 1: new or a repetition.  A new answer goes where none
\* is, with the other toggle, or takes the place of one that has not gone.
LEMMA OutWorkedOff ==
  ASSUME IInv, rx.tok = "out1", rx' = Free, WriteOut(rx.n, rx.ask, rx.tog), UNCHANGED host
  PROVE  IInv'
  <1>1. /\ rx.n \in Nat /\ rx.tog \in 0 .. 1 /\ rx.ask \in Nat /\ expect \in 0 .. 1 /\ tog1 \in 0 .. 1
        /\ UNCHANGED <<out1, in1, ctl>> /\ Free.tok # "out1" /\ Free.tok # "setup"
        /\ ~Clearing /\ (Clearing' <=> Clearing)
    BY FreeBuffer DEF IInv, Types, In, host, Clearing
  <1>2. CASE rx.tog = expect
    <2>1. /\ expect' = 1 - expect /\ done1' = Append(done1, rx.n) /\ New /\ ~New'
          /\ IF rx.ask > 0 THEN SetInterrupt(rx.n, rx.ask) ELSE UNCHANGED <<tx1, tog1>>
      BY <1>1, <1>2 DEF WriteOut, New
    <2>2. /\ done1' \in Seq(Nat) /\ Len(done1') = Len(done1) + 1 /\ Len(done1) \in Nat
          /\ done1' = Upto(Len(done1'))
      BY <2>1, UptoAppend DEF IInv, Types, Out
    <2>3. Out'
      BY <1>1, <2>1, <2>2 DEF IInv, Out, Taken, Expected
    <2>4. \/ UNCHANGED <<tx1, tog1>>
          \/ /\ tx1 # Stall /\ tog1' = IF tx1 = Nak THEN 1 - tog1 ELSE tog1
             /\ tx1' = [pid |-> "data", tog |-> tog1', k |-> rx.n, n |-> rx.ask]
      BY <2>1 DEF SetInterrupt
    <2>5. tog1' \in 0 .. 1 /\ tx1' \in {Nak, Stall} \cup [pid : {"data"}, tog : 0 .. 1, k : Nat, n : Nat]
      BY <1>1, <2>4 DEF IInv, Types
    <2>6. Types'
      BY <1>1, <2>1, <2>2, <2>5, FreeBuffer DEF IInv, Types, Begun
    <2>7. In'
      <3>1. CASE UNCHANGED <<tx1, tog1>>
        BY <1>1, <3>1 DEF IInv, In
      <3>2. CASE ~UNCHANGED <<tx1, tog1>>
        <4>1. tx1'.tog = tog1' /\ IsPacket(tx1)' /\ tx1' # Nak /\ tx1 # Stall
          BY <2>4, <3>2 DEF IsPacket, Nak
        <4>2. in1.tog = tog1'
          BY <1>1, <2>4, <3>2, Packets1 DEF IInv, In
        <4>. QED BY <1>1, <4>1, <4>2 DEF In
      <3>. QED BY <3>1, <3>2
    <2>. QED BY <2>3, <2>6, <2>7 DEF IInv
  <1>3. CASE rx.tog # expect
    <2>1. UNCHANGED <<expect, done1, tx1, tog1>> /\ ~New /\ ~New'
      BY <1>1, <1>3 DEF WriteOut, New
    <2>2. Types'
      BY <1>1, <2>1, FreeBuffer DEF IInv, Types, Begun
    <2>3. Out'
      BY <1>1, <2>1 DEF IInv, Out, Taken, Expected
    <2>4. In'
      BY <1>1, <2>1 DEF IInv, In
    <2>. QED BY <2>2, <2>3, <2>4 DEF IInv
  <1>. QED BY <1>2, <1>3

LEMMA PollRxStep ==
  ASSUME KeepsToggles, IInv, PollRx
  PROVE  IInv'
  <1>1. CASE rx = Free
    <2>1. UNCHANGED <<rx, expect, done1, tx1, tog1, out1, in1, ctl>>
      BY <1>1 DEF PollRx, app, host
    <2>. QED BY <2>1 DEF IInv, Types, Begun, Out, New, Taken, Expected, In, Clearing
  <1>2. CASE rx.tok = "setup"
    BY <1>2, FreeBuffer, SetupWorkedOff DEF PollRx
  <1>3. CASE rx.tok = "out0"
    <2>1. rx' = Free /\ UNCHANGED <<expect, done1, tx1, tog1, out1, in1, ctl>>
      BY <1>3, FreeBuffer DEF PollRx, ProcessData, host
    <2>2. Types'
      BY <2>1, FreeBuffer DEF IInv, Types, Begun
    <2>3. Out'
      BY <1>3, <2>1, FreeBuffer, OutKept DEF IInv
    <2>4. In'
      BY <1>3, <2>1, FreeBuffer DEF IInv, In, Clearing
    <2>. QED BY <2>2, <2>3, <2>4 DEF IInv
  <1>4. CASE rx.tok = "out1"
    BY <1>4, FreeBuffer, OutWorkedOff DEF PollRx
  <1>. QED BY <1>1, <1>2, <1>3, <1>4 DEF IInv, Types
-----------------------------------------------------------------------------
(* Control transfers *)

LEMMA SetupStageStep ==
  ASSUME IInv, NEW r \in Requests, SetupStage(r)
  PROVE  IInv'
  <1>1. /\ ctl.stage = "idle" /\ rx = Free /\ Sensible(r)
        /\ rx' = [tok |-> "setup", req |-> r, ids |-> <<>>]
        /\ \E s \in {"in", "out", "statusIn"} :
             ctl' = [stage |-> s, req |-> r, tog |-> 1, got |-> <<>>, sent |-> 0]
        /\ UNCHANGED <<expect, done1, tx1, tog1, out1, in1>>
    BY DEF SetupStage, app
  <1>2. rx'.tok = "setup" /\ rx'.req = r /\ ctl'.stage # "idle" /\ ctl'.req = r
    BY <1>1
  <1>3. Types'
    <2>1. DOMAIN ctl' = {"stage", "req", "tog", "got", "sent"}
      BY <1>1
    <2>. QED BY <1>1, <1>2, <2>1, FreeBuffer DEF IInv, Types, Begun
  <1>4. Out'
    BY <1>1, <1>2, FreeBuffer, OutKept DEF IInv
  <1>5. ~Clearing /\ (Clearing' <=> (r.kind = "clearHalt"))
    BY <1>1, <1>2 DEF Clearing
  <1>6. In'
    BY <1>1, <1>2, <1>5, FreeBuffer DEF IInv, In, Sensible, Pausing
  <1>. QED BY <1>3, <1>4, <1>6 DEF IInv

LEMMA DataStep ==
  ASSUME IInv, DataOut \/ DataIn
  PROVE  IInv'
  <1>1. /\ ctl.stage # "idle" /\ rx = Free /\ UNCHANGED <<expect, done1, tx1, tog1, out1, in1>>
        /\ rx' = rx \/ rx'.tok = "out0"
    BY DEF DataOut, DataIn, app
  <1>2. /\ DOMAIN ctl' = DOMAIN ctl /\ ctl'.req = ctl.req /\ ctl'.stage # "idle"
    <2>1. DOMAIN ctl = {"stage", "req", "tog", "got", "sent"}
      BY <1>1 DEF IInv, Types, Begun
    <2>2. CASE DataOut
      BY <2>1, <2>2 DEF DataOut
    <2>3. CASE DataIn
      BY <1>1, <2>1, <2>3 DEF DataIn
    <2>. QED BY <2>2, <2>3
  <1>3. Types'
    BY <1>1, <1>2, FreeBuffer DEF IInv, Types, Begun
  <1>4. Clearing' <=> Clearing
    BY <1>1, <1>2 DEF Clearing
  <1>. QED BY <1>1, <1>3, <1>4, FreeBuffer, OutKept, InKept DEF IInv

\* The host's toggle begins anew, as the device's has.
LEMMA CompleteStep ==
  ASSUME KeepsToggles, IInv, StatusOut \/ StatusIn
  PROVE  IInv'
  <1>1. ctl.stage # "idle" /\ rx = Free /\ Complete
    BY DEF StatusOut, StatusIn
  <1>2. ctl.req \in Requests /\ ctl.req.kind \notin {"setConfiguration", "clearHaltOut"}
    BY <1>1, Kind DEF IInv, Types, Begun
  <1>3. /\ UNCHANGED <<rx, expect, done1, tx1, tog1, out1>> /\ ctl' = [stage |-> "idle"]
        /\ in1' = IF ctl.req.kind = "clearHalt" THEN [in1 EXCEPT !.tog = 0] ELSE in1
    BY <1>1, <1>2 DEF Complete, app
  <1>4. in1' \in [busy : BOOLEAN, tog : 0 .. 1, got : Nat] /\ ctl'.stage = "idle"
        /\ (ctl.req.kind = "clearHalt" => in1'.tog = 0)
    BY <1>3 DEF IInv, Types
  <1>5. Types'
    BY <1>3, <1>4 DEF IInv, Types
  <1>6. Out'
    BY <1>3, OutKept DEF IInv
  <1>7. In'
    BY <1>1, <1>3, <1>4, FreeBuffer, Packets1 DEF IInv, In, Clearing
  <1>. QED BY <1>5, <1>6, <1>7 DEF IInv

LEMMA AbortStep ==
  ASSUME IInv, Abort
  PROVE  IInv'
  <1>1. /\ UNCHANGED <<rx, expect, done1, tx1, tog1, out1, in1>> /\ ctl'.stage = "idle"
        /\ ctl.req.kind # "clearHalt"
    BY DEF Abort, driver, app
  <1>2. Types' /\ Out' /\ (~Clearing /\ ~Clearing')
    BY <1>1, OutKept DEF IInv, Types, Clearing
  <1>. QED BY <1>1, <1>2, InKept DEF IInv
-----------------------------------------------------------------------------
(* Endpoint 1 *)

LEMMA Out1StartStep ==
  ASSUME IInv, NEW a \in Answers1, Out1Start(a)
  PROVE  IInv'
  <1>1. /\ ~out1.busy /\ ~in1.busy /\ ~Clearing /\ a \in Nat
        /\ out1' = [out1 EXCEPT !.n = @ + 1, !.busy = TRUE, !.ask = a]
        /\ in1' = [in1 EXCEPT !.busy = a > 0]
        /\ UNCHANGED <<rx, expect, done1, tx1, tog1, ctl>>
    BY UsbAssumption DEF Out1Start, Clearing, Pausing, driver, app, UsbAssumption
  <1>2. /\ out1' \in [n : Nat, ask : Nat, tog : 0 .. 1, busy : BOOLEAN]
        /\ out1'.n = out1.n + 1 /\ out1'.busy /\ out1'.tog = out1.tog /\ out1.n \in Nat
        /\ in1' \in [busy : BOOLEAN, tog : 0 .. 1, got : Nat] /\ in1'.tog = in1.tog
    <2>1. /\ out1 \in [n : Nat, ask : Nat, tog : 0 .. 1, busy : BOOLEAN]
          /\ in1 \in [busy : BOOLEAN, tog : 0 .. 1, got : Nat]
      BY DEF IInv, Types
    <2>2. out1.n + 1 \in Nat /\ out1.n \in Nat /\ (a > 0) \in BOOLEAN
      BY <1>1, <2>1
    <2>3. /\ out1' = [n |-> out1.n + 1, ask |-> a, tog |-> out1.tog, busy |-> TRUE]
          /\ in1' = [busy |-> a > 0, tog |-> in1.tog, got |-> in1.got]
      BY <1>1, <2>1
    <2>4. out1' \in [n : Nat, ask : Nat, tog : 0 .. 1, busy : BOOLEAN]
          /\ out1'.n = out1.n + 1 /\ out1'.busy /\ out1'.tog = out1.tog
      BY <1>1, <2>1, <2>2, <2>3
    <2>5. in1' \in [busy : BOOLEAN, tog : 0 .. 1, got : Nat] /\ in1'.tog = in1.tog
      BY <2>1, <2>2, <2>3
    <2>. QED BY <2>2, <2>4, <2>5
  <1>3. Types'
    BY <1>1, <1>2 DEF IInv, Types, Begun
  <1>4. Out'
    BY <1>1, <1>2 DEF IInv, Out, New, Taken, Expected
  <1>5. In'
    BY <1>1, <1>2 DEF IInv, In, Clearing
  <1>. QED BY <1>3, <1>4, <1>5 DEF IInv

\* The packet is new if and only if the device does not have it.
LEMMA Out1SendStep ==
  ASSUME IInv, NEW acked \in BOOLEAN, Out1Send(acked)
  PROVE  IInv'
  <1>1. /\ out1.busy /\ rx = Free /\ rx.tok = "none"
        /\ rx' = [tok |-> "out1", n |-> out1.n, ask |-> out1.ask, tog |-> out1.tog]
        /\ out1' = IF acked THEN [out1 EXCEPT !.busy = FALSE, !.tog = 1 - @] ELSE out1
        /\ UNCHANGED <<expect, done1, tx1, tog1, in1, ctl>>
    BY FreeBuffer DEF Out1Send, app
  <1>2. /\ out1.n \in Nat /\ out1.tog \in 0 .. 1 /\ out1.ask \in Nat /\ expect \in 0 .. 1
        /\ out1' \in [n : Nat, ask : Nat, tog : 0 .. 1, busy : BOOLEAN]
        /\ out1'.n = out1.n
        /\ IF acked THEN ~out1'.busy /\ out1'.tog = 1 - out1.tog
                    ELSE out1'.busy /\ out1'.tog = out1.tog
    <2>1. out1 \in [n : Nat, ask : Nat, tog : 0 .. 1, busy : BOOLEAN]
          /\ expect \in 0 .. 1
      BY DEF IInv, Types
    <2>2. out1.ask \in Nat
      BY <2>1
    <2>3. 1 - out1.tog \in 0 .. 1
      BY <2>1
    <2>4. acked => out1' = [n |-> out1.n, ask |-> out1.ask, tog |-> 1 - out1.tog, busy |-> FALSE]
      BY <1>1, <2>1
    <2>. QED BY <1>1, <2>1, <2>2, <2>3, <2>4
  <1>3. rx'.tok = "out1" /\ rx'.n = out1.n /\ rx'.tog = out1.tog /\ rx'.ask = out1.ask
    BY <1>1
  <1>4. Types'
    BY <1>1, <1>2, <1>3, FreeBuffer DEF IInv, Types, Begun
  <1>5. Out'
    <2>1. ~New /\ Len(done1) \in Nat /\ (New' <=> out1.tog = expect)
      BY <1>1, <1>3 DEF New, IInv, Types
    <2>2. CASE Len(done1) = out1.n - 1 /\ expect = out1.tog
      BY <1>1, <1>2, <1>3, <2>1, <2>2 DEF IInv, Out, Taken, Expected
    <2>3. CASE Len(done1) = out1.n /\ expect = 1 - out1.tog
      BY <1>1, <1>2, <1>3, <2>1, <2>3 DEF IInv, Out, Taken, Expected
    <2>. QED BY <1>1, <2>1, <2>2, <2>3 DEF IInv, Out, Taken, Expected
  <1>6. In'
    BY <1>1, <1>3 DEF IInv, In, Clearing
  <1>. QED BY <1>4, <1>5, <1>6 DEF IInv

LEMMA In1Step ==
  ASSUME IInv, In1Receive \/ In1Stall
  PROVE  IInv'
  <1>1. /\ in1.busy /\ UNCHANGED <<rx, expect, done1, tog1, out1, ctl>>
    BY DEF In1Receive, In1Stall, driver, app
  <1>2. ~Clearing /\ (Clearing' <=> Clearing)
    BY <1>1 DEF IInv, In, Clearing
  <1>3. CASE In1Receive
    <2>1. IsPacket(tx1) /\ tx1.tog = in1.tog /\ tx1.tog = tog1 /\ tx1.tog \in 0 .. 1 /\ tx1.k \in Nat
      BY <1>2, <1>3, Packets1 DEF In1Receive, IInv, In
    <2>2. tx1' = Nak /\ in1' = [busy |-> FALSE, tog |-> 1 - in1.tog, got |-> tx1.k]
      BY <1>3, <2>1 DEF In1Receive
    <2>3. in1' \in [busy : BOOLEAN, tog : 0 .. 1, got : Nat] /\ in1'.tog = 1 - tog1 /\ ~in1'.busy
      <3>1. 1 - in1.tog \in 0 .. 1
        BY <2>1
      <3>. QED BY <2>1, <2>2, <3>1
    <2>4. Types'
      BY <1>1, <2>2, <2>3 DEF IInv, Types, Begun
    <2>5. In'
      BY <1>1, <1>2, <2>2, <2>3, Packets1 DEF IInv, In
    <2>. QED BY <1>1, <2>4, <2>5, OutKept DEF IInv
  <1>4. CASE In1Stall
    <2>1. in1' = [in1 EXCEPT !.busy = FALSE] /\ UNCHANGED tx1
      BY <1>4 DEF In1Stall, driver
    <2>2. in1' \in [busy : BOOLEAN, tog : 0 .. 1, got : Nat] /\ in1'.tog = in1.tog /\ ~in1'.busy
      BY <2>1 DEF IInv, Types
    <2>3. Types'
      BY <1>1, <2>1, <2>2 DEF IInv, Types, Begun
    <2>4. In'
      BY <1>1, <1>2, <2>1, <2>2 DEF IInv, In
    <2>. QED BY <1>1, <2>3, <2>4, OutKept DEF IInv
  <1>. QED BY <1>3, <1>4
-----------------------------------------------------------------------------
(* The invariant *)

LEMMA InitIInv ==
  ASSUME Init
  PROVE  IInv
  <1>1. Types
    BY FreeBuffer DEF Init, Types, Free
  <1>2. Out
    BY FreeBuffer DEF Init, Out, New, Taken, Expected, Upto
  <1>3. In
    BY FreeBuffer, <1>1, Packets1 DEF Init, In, Clearing
  <1>. QED BY <1>1, <1>2, <1>3 DEF IInv

LEMMA NextIInv ==
  ASSUME KeepsToggles, IInv, [Next]_vars
  PROVE  IInv'
  <1>1. CASE PollTx \/ UNCHANGED vars
    <2>1. UNCHANGED <<rx, expect, done1, tx1, tog1, out1, in1, ctl>>
      BY <1>1 DEF PollTx, vars, driver, app, host
    <2>. QED BY <2>1 DEF IInv, Types, Begun, Out, New, Taken, Expected, In, Clearing
  <1>. QED BY <1>1, PollRxStep, SetupStageStep, DataStep, CompleteStep, AbortStep, Out1StartStep,
              Out1SendStep, In1Step DEF Next

\* Host, receive buffer and device agree on both toggles of endpoint 1 in every
\* reachable state, through lost acknowledgements and CLEAR_FEATURE.
THEOREM InductiveInvariant == ASSUME KeepsToggles PROVE Spec => []IInv
  <1>. QED BY InitIInv, NextIInv, PTL DEF Spec

\* usbFunctionWriteOut gives each packet of endpoint 1 to the parser once and in
\* order, however often the host repeats it and whatever control requests (but
\* the two that reset the host's OUT toggle) come in between; the answers' toggle
\* is the one the host takes next.
THEOREM PacketsOnce == ASSUME KeepsToggles PROVE Spec => []Out1Once
  <1>1. IInv => Out1Once
    BY FreeBuffer DEF IInv, Out, In, New, Taken, Expected, Out1Once, Clearing, Types
  <1>. QED BY <1>1, InductiveInvariant, PTL
-----------------------------------------------------------------------------
(* Control transfers: what they move, and that they go on *)

\* The requests of the driver and of HID users: a request that sends data sends
\* some, a report fits into a packet, a read asks for what is there; endpoint 1
\* leaves the answers of reports alone, and these find room.
WellFormed ==
  /\ \A r \in Requests :
       /\ r.kind \in {"setReport", "write"} => r.len > 0
       /\ r.kind = "setReport" => r.len <= Pkt
       /\ r.kind = "read" => r.len <= r.n
       /\ r.kind = "getReport" => r.n > 0 /\ r.len = r.n + 1
  /\ \A a \in Answers1 : a <= 2
  /\ MaxHid + 2 <= ReplySize

\* What a request moves to the host: its bytes, and how many; after h answers of
\* reports the next ones, behind the report's number.
Bytes(kind, h) ==
  [i \in Nat |-> IF kind = "getReport" THEN (IF i = 1 THEN 0 ELSE h + i - 1) ELSE i]
Size(r) ==
  IF r.kind \in {"descriptor", "read"} THEN Least(r.n, r.len)
  ELSE IF r.kind = "getReport" THEN r.len ELSE 0
Part(f, m, k) == [i \in 1 .. k |-> f[m + i]]
Want == Bytes(ctl.req.kind, Len(hid))

\* The device works at the host's request.
AtWork == ctl.stage # "idle" /\ rx.tok # "setup"

Forms ==
  /\ DOMAIN msg = {"len", "user", "buf", "pos"} /\ DOMAIN g = {"kind", "pos", "len"}
  /\ reply \in [0 .. ReplySize - 1 -> Int]
  /\ rx.tok = "out0" => rx.n \in Nat /\ ctl.stage \in {"idle", "out", "statusIn"}
  /\ ctl.stage \in {"idle", "in", "out", "statusIn", "statusOut"}

\* A request on its way to the device.
Fresh ==
  rx.tok = "setup" =>
    /\ rx.ids = <<>>
    /\ ctl.stage = "idle" => rx.req.kind \in {"descriptor", "read", "write"}
    /\ ctl.stage # "idle" =>
         /\ rx.req = ctl.req /\ ctl.tog = 1 /\ ctl.got = <<>> /\ ctl.sent = 0
         /\ ctl.stage = IF ctl.req.kind \in InKinds THEN "in"
                        ELSE IF ctl.req.len > 0 THEN "out" ELSE "statusIn"

\* The bytes the host has got, those that stand ready, and where the rest is.
InTx == IF IsPacket(tx) THEN Len(tx.data) ELSE 0
Moved == Len(ctl.got) + InTx

Source ==
  /\ msg.user <=> ctl.req.kind = "read"
  /\ msg.buf = IF ctl.req.kind = "getReport" THEN "ReplyBuf" ELSE "other"
  /\ ctl.req.kind = "descriptor" => msg.pos = Moved
  /\ ctl.req.kind = "read" => g.pos = Moved
  /\ ctl.req.kind = "getReport" =>
       /\ msg.pos \in Nat /\ msg.pos > Moved /\ msg.pos + (Size(ctl.req) - Moved) <= ReplySize
       /\ \A i \in 1 .. Size(ctl.req) - Moved : reply[msg.pos + i - 1] = Want[Moved + i]

InData ==
  AtWork /\ ctl.stage = "in" =>
    /\ ctl.req.kind \in InKinds
    /\ ctl.tog \in 0 .. 1 /\ Moved <= Size(ctl.req)
    /\ ctl.got = Part(Want, 0, Len(ctl.got)) /\ Len(ctl.got) \in Nat
    /\ tog = IF IsPacket(tx) THEN ctl.tog ELSE 1 - ctl.tog
    /\ IsPacket(tx) => /\ tx.tog = ctl.tog /\ InTx \in 0 .. Pkt
                       /\ tx.data = Part(Want, Len(ctl.got), InTx)
                       /\ InTx < Pkt => Moved = Size(ctl.req)
    /\ msg.len = IF IsPacket(tx) /\ InTx < Pkt THEN NoMsg ELSE Size(ctl.req) - Moved
    /\ Source

AllGot == ctl.stage = "statusOut" =>
  ctl.req.kind \in InKinds /\ ctl.got = Part(Want, 0, Size(ctl.req))

\* The empty packet of the status stage stands ready, or will.
Ready ==
  \/ IsPacket(tx) /\ tx.tog = 1 /\ msg.len \in {0, NoMsg}
  \/ tx = Nak /\ tog = 0 /\ msg.len = 0

\* The bytes the host has sent, those in the buffer, and those the device has taken.
Pending == IF rx.tok = "out0" THEN rx.n ELSE 0
OutData ==
  AtWork /\ ctl.stage \in {"out", "statusIn"} =>
    /\ ctl.req.kind \notin InKinds /\ ctl.tog = 1
    /\ ctl.sent \in 0 .. ctl.req.len /\ (ctl.stage = "out" <=> ctl.sent < ctl.req.len)
    /\ ctl.req.kind = "setReport" => ctl.sent \in {0, ctl.req.len}
    /\ msg.user <=> ctl.req.kind \in {"setReport", "write"}
    /\ msg.user =>
         /\ g.kind = ctl.req.kind /\ g.pos \in Int /\ Pending <= ctl.sent
         /\ rx.tok = "out0" => rx.n > 0
         /\ g.len = ctl.req.len - (ctl.sent - Pending)
         /\ g.kind = "write" => written = ctl.sent - Pending
         /\ IF ctl.sent = Pending THEN tx = Nak /\ tog = 0 /\ msg.len = NoMsg ELSE Ready
    /\ ~msg.user => Ready

\* Answers of reports: those asked for and not stored yet, and those on their way.
Asking ==
  IF /\ ctl.stage # "idle" /\ ctl.req.kind = "setReport"
     /\ rx.tok \in {"setup", "out0"} \/ ctl.stage = "out"
    THEN ctl.req.n ELSE 0
Fetched == IF AtWork /\ ctl.req.kind = "getReport" THEN ctl.req.n ELSE 0

Kept ==
  /\ hid \in Seq(Nat) /\ hid = Upto(Len(hid)) /\ made \in 0 .. MaxHid
  /\ idxR \in Nat /\ idxW \in Nat /\ idxR <= idxW /\ idxR <= Len(hid) + Fetched
  /\ made = Len(hid) + Fetched + (idxW - idxR) + Asking
  /\ \A j \in 1 .. idxW - idxR : reply[idxR + 1 + j] = Len(hid) + Fetched + j
  /\ rx.tok = "out0" =>
       IF ctl.stage = "idle" THEN g.kind # "setReport"
       ELSE ctl.req.kind = "setReport" =>
              rx.ids = [i \in 1 .. ctl.req.n |-> made - ctl.req.n + i]
  /\ rx.tok = "setup" /\ ctl.stage # "idle" =>
       /\ ctl.req.kind = "getReport" => ctl.req.n <= idxW - idxR
       /\ ctl.req.kind \in {"vendorIn", "vendorOut"} => idxW = idxR

\* The answer of the packet of endpoint 1 that the device has worked off.
Answering ==
  in1.busy =>
    /\ out1.ask > 0
    /\ New /\ rx.n = out1.n => rx.ask = out1.ask
    /\ Len(done1) = out1.n => tx1 = Stall \/ (IsPacket(tx1) /\ tx1.k = out1.n)

Quiet == out1.ask <= 2 /\ (rx.tok = "out1" => rx.ask <= 2)

Control == Forms /\ Fresh /\ InData /\ AllGot /\ OutData /\ Kept /\ TransferComplete
Endpoint1 == Answering /\ Quiet
Served == Control /\ Endpoint1
-----------------------------------------------------------------------------
LEMMA Sizes ==
  ASSUME NEW r \in Requests
  PROVE  /\ r.kind \in Kinds /\ r.n \in Nat /\ r.len \in Nat /\ r.len <= 254
         /\ Size(r) \in Nat /\ Size(r) <= r.len
         /\ Pkt \in Nat /\ Pkt > 0
  BY UsbAssumption DEF UsbAssumption, Size, Least

LEMMA LeastOf ==
  ASSUME NEW a \in Int, NEW b \in Int
  PROVE  /\ Least(a, b) \in Int /\ Least(a, b) <= a /\ Least(a, b) <= b
         /\ Least(a, b) = a \/ Least(a, b) = b
  BY DEF Least

LEMMA BytesType ==
  ASSUME NEW kind, NEW h \in Nat
  PROVE  Bytes(kind, h) \in [Nat -> Int]
  BY DEF Bytes

LEMMA PartGrows ==
  ASSUME NEW f \in [Nat -> Int], NEW m \in Nat, NEW k \in Nat
  PROVE  /\ Part(f, m, k) \in Seq(Int) /\ Len(Part(f, m, k)) = k
         /\ Part(f, 0, m) \o Part(f, m, k) = Part(f, 0, m + k)
  <1>1. ASSUME NEW a \in Nat, NEW b \in Nat
        PROVE  Part(f, a, b) \in Seq(Int) /\ Len(Part(f, a, b)) = b
               /\ \A i \in 1 .. b : Part(f, a, b)[i] = f[a + i]
    BY DEF Part
  <1>2. PICK s : s = Part(f, 0, m)
    OBVIOUS
  <1>3. PICK t : t = Part(f, m, k)
    OBVIOUS
  <1>4. s \in Seq(Int) /\ Len(s) = m /\ (\A i \in 1 .. m : s[i] = f[i])
    <2>1. \A i \in 1 .. m : 0 + i = i
      OBVIOUS
    <2>. QED BY <1>1, <1>2, <2>1
  <1>5. t \in Seq(Int) /\ Len(t) = k /\ (\A i \in 1 .. k : t[i] = f[m + i])
    BY <1>1, <1>3
  <1>6. PICK u : u = Part(f, 0, m + k)
    OBVIOUS
  <1>7. u \in Seq(Int) /\ Len(u) = m + k /\ (\A i \in 1 .. m + k : u[i] = f[i])
    <2>1. \A i \in 1 .. m + k : 0 + i = i
      OBVIOUS
    <2>2. m + k \in Nat /\ 0 \in Nat
      OBVIOUS
    <2>3. /\ Part(f, 0, m + k) \in Seq(Int) /\ Len(Part(f, 0, m + k)) = m + k
          /\ \A i \in 1 .. m + k : Part(f, 0, m + k)[i] = f[0 + i]
      BY <1>1, <2>2
    <2>. QED BY <1>6, <2>1, <2>3
  <1>8. /\ s \o t \in Seq(Int) /\ Len(s \o t) = m + k
        /\ \A i \in 1 .. m + k : (s \o t)[i] = IF i <= m THEN s[i] ELSE t[i - m]
    BY <1>4, <1>5, ConcatProperties
  <1>9. \A i \in 1 .. m + k : (s \o t)[i] = u[i]
    <2>1. SUFFICES ASSUME NEW i \in 1 .. m + k PROVE (s \o t)[i] = u[i]
      OBVIOUS
    <2>2. CASE i <= m
      BY <1>4, <1>7, <1>8, <2>2
    <2>3. CASE ~(i <= m)
      <3>1. i - m \in 1 .. k /\ m + (i - m) = i
        BY <2>3
      <3>. QED BY <1>5, <1>7, <1>8, <2>3, <3>1
    <2>. QED BY <2>2, <2>3
  <1>10. s \o t = u
    BY <1>7, <1>8, <1>9, SeqEqual
  <1>. QED BY <1>1, <1>2, <1>3, <1>6, <1>10

\* With nothing of the buffer for endpoint 0 changed, and none of its packets in it
\* before and after, the control transfer stands as it did.
LEMMA Bystander ==
  ASSUME Control,
         UNCHANGED <<tx, tog, msg, g, reply, idxR, idxW, written, ctl, hid, made, last>>,
         rx' = rx \/ (rx.tok \notin {"setup", "out0"} /\ rx'.tok \notin {"setup", "out0"})
  PROVE  Control'
  <1>1. AtWork' <=> AtWork
    BY DEF AtWork
  <1>2. Want' = Want /\ Moved' = Moved /\ InTx' = InTx /\ IsPacket(tx)' = IsPacket(tx)
    BY DEF Want, Moved, InTx, IsPacket
  <1>3. Forms' /\ Fresh'
    BY DEF Control, Forms, Fresh
  <1>4. InData'
    BY <1>1, <1>2 DEF Control, InData, Source
  <1>5. AllGot' /\ TransferComplete'
    BY <1>2 DEF Control, AllGot, TransferComplete
  <1>6. OutData'
    <2>1. Pending' = Pending /\ (Ready' <=> Ready) /\ (rx'.tok = "out0" => rx' = rx)
          /\ (rx'.tok = "out0" <=> rx.tok = "out0")
      BY DEF Pending, Ready, IsPacket
    <2>. QED BY <1>1, <2>1 DEF Control, OutData
  <1>7. Kept'
    <2>1. Asking' = Asking /\ Fetched' = Fetched
      BY <1>1 DEF Asking, Fetched
    <2>. QED BY <2>1 DEF Control, Kept
  <1>. QED BY <1>3, <1>4, <1>5, <1>6, <1>7 DEF Control
-----------------------------------------------------------------------------
(* The next packet *)

\* What usbDeviceRead finds is what comes next.
LEMMA ReadsNext ==
  ASSUME Types, Control, AtWork, ctl.stage = "in", ~IsPacket(tx),
         NEW n \in Nat, n <= Size(ctl.req) - Moved
  PROVE  DeviceRead(n) = Part(Want, Moved, n)
  <1>1. /\ ctl.req \in Requests /\ ctl.req.kind \in InKinds /\ Source /\ Moved \in Nat
        /\ Size(ctl.req) \in Nat
    BY Sizes DEF Types, Begun, Control, InData, AtWork, Moved, InTx
  <1>2. Len(hid) \in Nat
    BY DEF Control, Kept
  <1>3. CASE ctl.req.kind = "getReport"
    <2>1. msg.buf = "ReplyBuf" /\ ~msg.user /\ msg.pos \in Nat
      BY <1>1, <1>3 DEF Source
    <2>2. \A i \in 1 .. n : reply[msg.pos + i - 1] = Want[Moved + i]
      BY <1>1, <1>3 DEF Source
    <2>. QED BY <2>1, <2>2 DEF DeviceRead, Part
  <1>4. CASE ctl.req.kind \in {"descriptor", "read"}
    <2>1. msg.buf # "ReplyBuf" /\ (IF msg.user THEN g.pos ELSE msg.pos) = Moved
      BY <1>1, <1>4 DEF Source
    <2>2. \A i \in 1 .. n : Moved + i \in Nat /\ Want[Moved + i] = Moved + i
      BY <1>1, <1>4 DEF Want, Bytes
    <2>3. DeviceRead(n) = [i \in 1 .. n |-> Moved + i]
      BY <2>1 DEF DeviceRead
    <2>. QED BY <2>2, <2>3 DEF Part
  <1>5. CASE ctl.req.kind = "vendorIn"
    <2>1. n = 0 /\ 1 .. n = {}
      BY <1>1, <1>5 DEF Size
    <2>2. msg.buf # "ReplyBuf"
      BY <1>1, <1>5 DEF Source
    <2>. QED BY <2>1, <2>2 DEF DeviceRead, Part
  <1>. QED BY <1>1, <1>3, <1>4, <1>5 DEF InKinds

\* usbBuildTxBlock: the next bytes, or the empty packet of the status stage.
LEMMA BuildStep ==
  ASSUME Types, Control, ~IsPacket(tx), msg.len # NoMsg, BuildTxBlock,
         UNCHANGED <<rx, reply, idxR, idxW, written, ctl, hid, made, last>>
  PROVE  Control'
  <1>. DEFINE n == Least(msg.len, Pkt)
  <1>1. /\ tog' = 1 - tog
        /\ tx' = [pid |-> "data", tog |-> 1 - tog, data |-> DeviceRead(n)]
        /\ g' = IF msg.user THEN [g EXCEPT !.pos = @ + n, !.len = @ - n] ELSE g
        /\ msg' = [msg EXCEPT !.len = IF n < Pkt THEN NoMsg ELSE @ - n, !.pos = @ + n]
    BY DEF BuildTxBlock
  <1>2. /\ IsPacket(tx)' /\ tx'.tog = 1 - tog /\ tx'.data = DeviceRead(n)
    BY <1>1 DEF IsPacket
  <1>3. /\ DOMAIN msg' = DOMAIN msg /\ DOMAIN g' = DOMAIN g /\ g'.kind = g.kind
        /\ msg'.user = msg.user /\ msg'.buf = msg.buf /\ msg'.pos = msg.pos + n
        /\ msg'.len = IF n < Pkt THEN NoMsg ELSE msg.len - n
        /\ msg.user => g'.pos = g.pos + n /\ g'.len = g.len - n
    BY <1>1 DEF Control, Forms
  <1>. HIDE DEF n
  <1>4. AtWork' <=> AtWork
    BY DEF AtWork
  <1>5. Want' = Want
    BY DEF Want
  <1>6. Forms' /\ Fresh' /\ AllGot' /\ TransferComplete'
    BY <1>3, <1>5 DEF Control, Forms, Fresh, AllGot, TransferComplete
  <1>7. Kept'
    <2>1. Asking' = Asking /\ Fetched' = Fetched
      BY <1>4 DEF Asking, Fetched
    <2>. QED BY <1>3, <2>1 DEF Control, Kept
  <1>8. InData'
    <2>. SUFFICES ASSUME AtWork, ctl.stage = "in" PROVE InData'
      BY <1>4 DEF InData
    <2>1. /\ ctl.req \in Requests /\ Size(ctl.req) \in Nat /\ Pkt \in Nat /\ Pkt > 0
          /\ Len(ctl.got) \in Nat /\ Moved = Len(ctl.got) /\ ctl.req.kind \in InKinds
          /\ msg.len = Size(ctl.req) - Moved /\ msg.len \in Nat /\ Source
          /\ tog = 1 - ctl.tog /\ ctl.tog \in 0 .. 1
      BY Sizes DEF Types, Begun, AtWork, Control, InData, Moved, InTx
    <2>2. n \in Nat /\ n <= msg.len /\ n <= Pkt /\ (n < Pkt => n = msg.len)
      BY <2>1 DEF n, Least
    <2>3. DeviceRead(n) = Part(Want, Moved, n)
      BY <2>1, <2>2, ReadsNext
    <2>4. Want \in [Nat -> Int]
      BY BytesType DEF Want, Control, Kept
    <2>5. Len(tx'.data) = n
      <3>1. Len(Part(Want, Moved, n)) = n
        BY <2>1, <2>2, <2>4, PartGrows
      <3>. QED BY <1>2, <2>3, <3>1
    <2>6. InTx' = n /\ Moved' = Moved + n
      BY <1>2, <2>1, <2>5 DEF InTx, Moved
    <2>7. Source'
      <3>1. msg'.pos = msg.pos + n
        BY <1>3
      <3>2. CASE ctl.req.kind = "getReport"
        <4>1. /\ msg.pos \in Nat /\ msg.pos > Moved
              /\ msg.pos + (Size(ctl.req) - Moved) <= ReplySize
              /\ \A i \in 1 .. Size(ctl.req) - Moved : reply[msg.pos + i - 1] = Want[Moved + i]
          BY <2>1, <3>2 DEF Source
        <4>2. ASSUME NEW i \in 1 .. Size(ctl.req) - (Moved + n)
              PROVE  reply[msg.pos + n + i - 1] = Want[Moved + n + i]
          <5>1. n + i \in 1 .. Size(ctl.req) - Moved
            BY <2>1, <2>2
          <5>2. reply[msg.pos + (n + i) - 1] = Want[Moved + (n + i)]
            BY <4>1, <5>1
          <5>3. msg.pos + (n + i) - 1 = msg.pos + n + i - 1 /\ Moved + (n + i) = Moved + n + i
            <6>1. i \in Int /\ n \in Int /\ msg.pos \in Int /\ Moved \in Int
              BY <2>1, <2>2, <4>1
            <6>. QED BY <6>1
          <5>. QED BY <5>2, <5>3
        <4>3. ReplySize \in Nat
          BY UsbAssumption DEF UsbAssumption
        <4>. QED BY <1>3, <1>5, <2>1, <2>2, <2>6, <3>2, <4>1, <4>2, <4>3 DEF Source
      <3>3. CASE ctl.req.kind # "getReport"
        BY <1>3, <2>1, <2>2, <2>6, <3>3 DEF Source
      <3>. QED BY <3>2, <3>3
    <2>8. InTx' < Pkt => Moved' = Size(ctl.req)
      BY <2>1, <2>2, <2>6
    <2>9. msg'.len = IF InTx' < Pkt THEN NoMsg ELSE Size(ctl.req) - Moved'
      BY <1>3, <2>1, <2>2, <2>6
    <2>10. /\ ctl.got = Part(Want, 0, Len(ctl.got)) /\ tx'.data = Part(Want, Len(ctl.got), n)
           /\ tog' = ctl.tog /\ tx'.tog = ctl.tog /\ Moved' <= Size(ctl.req) /\ InTx' \in 0 .. Pkt
      BY <1>1, <1>2, <2>1, <2>2, <2>3, <2>6 DEF Control, InData
    <2>. QED BY <1>2, <1>5, <2>1, <2>6, <2>7, <2>8, <2>9, <2>10 DEF InData
  <1>9. OutData'
    <2>. SUFFICES ASSUME AtWork, ctl.stage \in {"out", "statusIn"} PROVE OutData'
      BY <1>4 DEF OutData
    <2>1. Pending' = Pending
      BY DEF Pending
    <2>2. Ready /\ msg.len = 0 /\ tog = 0
      BY DEF Control, OutData, Ready
    <2>3. n = 0 /\ msg'.len = NoMsg
      <3>1. Pkt \in Nat /\ Pkt > 0
        BY UsbAssumption DEF UsbAssumption
      <3>. QED BY <1>3, <2>2, <3>1 DEF n, Least
    <2>4. Ready'
      BY <1>2, <2>2, <2>3 DEF Ready
    <2>5. ctl.req \in Requests /\ ctl.req.len \in Nat /\ ctl.sent \in Nat /\ Pending \in Nat
      BY Sizes DEF Types, Begun, AtWork, Control, OutData, Pending, Forms
    <2>6. msg.user => /\ g'.pos = g.pos /\ g'.len = g.len /\ ctl.sent # Pending
      BY <1>3, <2>2, <2>3, <2>5 DEF Control, OutData, NoMsg
    <2>. QED BY <1>3, <1>4, <2>1, <2>4, <2>6 DEF Control, OutData
  <1>. QED BY <1>6, <1>7, <1>8, <1>9 DEF Control

LEMMA PollTxServed ==
  ASSUME Types, Control, PollTx
  PROVE  Control'
  <1>1. UNCHANGED <<rx, reply, idxR, idxW, written, ctl, hid, made, last>>
    BY DEF PollTx, host
  <1>2. CASE ~IsPacket(tx) /\ msg.len # NoMsg
    BY <1>1, <1>2, BuildStep DEF PollTx
  <1>3. CASE ~(~IsPacket(tx) /\ msg.len # NoMsg)
    BY <1>1, <1>3, Bystander DEF PollTx
  <1>. QED BY <1>2, <1>3
-----------------------------------------------------------------------------
(* The host's side of a control transfer *)

LEMMA SetupStageServed ==
  ASSUME WellFormed, Types, Control, NEW r \in Requests, SetupStage(r)
  PROVE  Control'
  <1>1. /\ ctl.stage = "idle" /\ rx = Free /\ rx.tok = "none" /\ Sensible(r)
        /\ rx' = [tok |-> "setup", req |-> r, ids |-> <<>>]
        /\ made' = made + Asked(r) /\ last' = [kind |-> "none"]
        /\ ctl' = [stage |-> IF r.kind \in InKinds THEN "in"
                             ELSE IF r.len > 0 THEN "out" ELSE "statusIn",
                   req |-> r, tog |-> 1, got |-> <<>>, sent |-> 0]
        /\ UNCHANGED <<msg, g, reply, idxR, idxW, hid>>
    BY FreeBuffer DEF SetupStage, app
  <1>2. /\ rx'.tok = "setup" /\ rx'.req = r /\ rx'.ids = <<>> /\ ctl'.req = r /\ ctl'.tog = 1
        /\ ctl'.got = <<>> /\ ctl'.sent = 0 /\ last'.kind = "none"
        /\ ctl'.stage = IF r.kind \in InKinds THEN "in"
                        ELSE IF r.len > 0 THEN "out" ELSE "statusIn"
    BY <1>1
  <1>3. ~AtWork' /\ Forms' /\ Fresh'
    BY <1>1, <1>2 DEF AtWork, Control, Forms, Fresh
  <1>4. InData' /\ OutData' /\ AllGot' /\ TransferComplete'
    BY <1>2, <1>3 DEF InData, OutData, AllGot, TransferComplete
  <1>5. Kept'
    <2>1. Fetched = 0 /\ Fetched' = 0 /\ Asking = 0 /\ Asking' = Asked(r)
      BY <1>1, <1>2, <1>3 DEF Fetched, Asking, AtWork, Asked
    <2>2. /\ r.kind = "setReport" => made + r.n <= MaxHid
          /\ r.kind = "getReport" => r.n <= made - Len(hid)
          /\ r.kind \in {"vendorOut", "vendorIn"} => made = Len(hid)
      BY <1>1 DEF Sensible
    <2>3. Asked(r) \in Nat /\ r.n \in Nat /\ MaxHid \in Nat
      BY Sizes, UsbAssumption DEF Asked, UsbAssumption
    <2>4. made' \in 0 .. MaxHid
      BY <1>1, <2>2, <2>3 DEF Asked, Control, Kept
    <2>5. /\ Len(hid) \in Nat /\ idxR \in Nat /\ idxW \in Nat /\ idxR <= idxW /\ made \in Nat
          /\ made = Len(hid) + (idxW - idxR)
      BY <2>1 DEF Control, Kept
    <2>6. made' = Len(hid)' + Fetched' + (idxW' - idxR') + Asking'
      BY <1>1, <2>1, <2>3, <2>5
    <2>7. /\ r.kind = "getReport" => r.n <= idxW - idxR
          /\ r.kind \in {"vendorIn", "vendorOut"} => idxW = idxR
      BY <2>2, <2>3, <2>5
    <2>8. \A j \in 1 .. idxW' - idxR' : reply'[idxR' + 1 + j] = Len(hid)' + Fetched' + j
      BY <1>1, <2>1 DEF Control, Kept
    <2>9. idxR' <= Len(hid)' + Fetched'
      BY <1>1, <2>1 DEF Control, Kept
    <2>. QED BY <1>1, <1>2, <2>4, <2>6, <2>7, <2>8, <2>9 DEF Control, Kept
  <1>. QED BY <1>3, <1>4, <1>5 DEF Control

LEMMA DataOutServed ==
  ASSUME WellFormed, Types, Control, DataOut
  PROVE  Control'
  <1>. DEFINE n == Least(Pkt, ctl.req.len - ctl.sent)
  <1>1. /\ ctl.stage = "out" /\ rx = Free /\ rx.tok = "none"
        /\ rx' = [tok |-> "out0", n |-> n,
                  ids |-> [i \in 1 .. Asked(ctl.req) |-> made - Asked(ctl.req) + i]]
        /\ ctl' = [ctl EXCEPT !.sent = @ + n,
                     !.stage = IF ctl.sent + n = ctl.req.len THEN "statusIn" ELSE "out"]
        /\ UNCHANGED <<tx, tog, msg, g, reply, idxR, idxW, written, hid, made, last>>
    BY FreeBuffer DEF DataOut, app
  <1>2. /\ rx'.tok = "out0" /\ rx'.n = n
        /\ rx'.ids = [i \in 1 .. Asked(ctl.req) |-> made - Asked(ctl.req) + i]
    BY <1>1
  <1>3. DOMAIN ctl = {"stage", "req", "tog", "got", "sent"} /\ ctl.req \in Requests
    BY <1>1 DEF Types, Begun
  <1>4. /\ ctl'.req = ctl.req /\ ctl'.tog = ctl.tog /\ ctl'.got = ctl.got
        /\ ctl'.sent = ctl.sent + n
        /\ ctl'.stage = IF ctl.sent + n = ctl.req.len THEN "statusIn" ELSE "out"
    BY <1>1, <1>3
  <1>. HIDE DEF n
  <1>5. AtWork /\ AtWork'
    BY <1>1, <1>2, <1>4 DEF AtWork
  <1>6. /\ ctl.req.kind \notin InKinds /\ ctl.tog = 1 /\ ctl.sent \in Nat /\ ctl.req.len \in Nat
        /\ ctl.sent < ctl.req.len /\ Pkt \in Nat /\ Pkt > 0
        /\ ctl.req.kind = "setReport" => ctl.sent = 0 /\ ctl.req.len <= Pkt
        /\ msg.user <=> ctl.req.kind \in {"setReport", "write"}
    BY <1>1, <1>3, <1>5, Sizes DEF Control, OutData, WellFormed
  <1>7. /\ n \in Nat /\ n > 0 /\ ctl.sent + n <= ctl.req.len
        /\ ctl.req.kind = "setReport" => ctl.sent + n = ctl.req.len
    BY <1>6 DEF n, Least
  <1>8. Forms' /\ Fresh' /\ InData' /\ AllGot' /\ TransferComplete'
    BY <1>1, <1>2, <1>4, <1>7
    DEF Control, Forms, Fresh, InData, AllGot, TransferComplete
  <1>9. OutData'
    <2>1. Pending = 0 /\ Pending' = n /\ (Ready' <=> Ready)
      BY <1>1, <1>2 DEF Pending, Ready, IsPacket
    <2>2. /\ ctl'.sent \in 0 .. ctl'.req.len /\ (ctl'.stage = "out" <=> ctl'.sent < ctl'.req.len)
          /\ ctl'.req.kind = "setReport" => ctl'.sent \in {0, ctl'.req.len}
      BY <1>4, <1>6, <1>7
    <2>3. msg.user =>
            /\ g.kind = ctl.req.kind /\ g.pos \in Int /\ g.len = ctl.req.len - ctl.sent
            /\ g.kind = "write" => written = ctl.sent
            /\ IF ctl.sent = 0 THEN tx = Nak /\ tog = 0 /\ msg.len = NoMsg ELSE Ready
      BY <1>1, <1>5, <1>6, <2>1 DEF Control, OutData
    <2>4. ~msg.user => Ready
      BY <1>1, <1>5 DEF Control, OutData
    <2>5. /\ ctl'.sent - Pending' = ctl.sent /\ Pending' <= ctl'.sent
          /\ (ctl'.sent = Pending' <=> ctl.sent = 0)
      BY <1>4, <1>6, <1>7, <2>1
    <2>6. msg'.user =>
            /\ g'.kind = ctl'.req.kind /\ g'.pos \in Int /\ Pending' <= ctl'.sent
            /\ rx'.tok = "out0" => rx'.n > 0
            /\ g'.len = ctl'.req.len - (ctl'.sent - Pending')
            /\ g'.kind = "write" => written' = ctl'.sent - Pending'
            /\ IF ctl'.sent = Pending' THEN tx' = Nak /\ tog' = 0 /\ msg'.len = NoMsg ELSE Ready'
      BY <1>1, <1>2, <1>4, <1>7, <2>1, <2>3, <2>5
    <2>. QED BY <1>1, <1>4, <1>6, <2>1, <2>2, <2>4, <2>6 DEF OutData
  <1>10. Kept'
    <2>1. Fetched' = Fetched /\ Asking' = Asking
      BY <1>1, <1>2, <1>4, <1>5 DEF Fetched, Asking
    <2>2. ctl.req.kind = "setReport" =>
            rx'.ids = [i \in 1 .. ctl.req.n |-> made - ctl.req.n + i]
      BY <1>2 DEF Asked
    <2>. QED BY <1>1, <1>2, <1>4, <2>1, <2>2 DEF Control, Kept
  <1>. QED BY <1>8, <1>9, <1>10 DEF Control

\* The host takes every packet, as the toggles agree, and ends with the last.
LEMMA DataInServed ==
  ASSUME Types, Control, DataIn
  PROVE  Control'
  <1>. DEFINE got == ctl.got \o tx.data
              more == Len(tx.data) = Pkt /\ Len(got) < ctl.req.len
  <1>1. /\ ctl.stage = "in" /\ rx = Free /\ rx.tok = "none" /\ IsPacket(tx) /\ tx' = Nak
        /\ ctl' = IF tx.tog # ctl.tog THEN ctl
                  ELSE [ctl EXCEPT !.got = got, !.tog = 1 - @,
                                   !.stage = IF more THEN "in" ELSE "statusOut"]
        /\ UNCHANGED <<rx, tog, msg, g, reply, idxR, idxW, written, hid, made, last>>
    BY FreeBuffer DEF DataIn, app
  <1>2. AtWork /\ DOMAIN ctl = {"stage", "req", "tog", "got", "sent"} /\ ctl.req \in Requests
    BY <1>1 DEF AtWork, Types, Begun
  <1>3. /\ ctl.req.kind \in InKinds /\ ctl.tog \in 0 .. 1 /\ Len(ctl.got) \in Nat
        /\ ctl.got = Part(Want, 0, Len(ctl.got)) /\ tog = ctl.tog /\ tx.tog = ctl.tog
        /\ InTx \in 0 .. Pkt /\ tx.data = Part(Want, Len(ctl.got), InTx)
        /\ InTx < Pkt => Moved = Size(ctl.req)
        /\ msg.len = IF InTx < Pkt THEN NoMsg ELSE Size(ctl.req) - Moved
        /\ Source /\ InTx = Len(tx.data) /\ Moved = Len(ctl.got) + InTx
        /\ Moved <= Size(ctl.req)
    BY <1>1, <1>2 DEF Control, InData, InTx, Moved
  <1>4. Want \in [Nat -> Int]
    BY BytesType DEF Want, Control, Kept
  <1>5. got = Part(Want, 0, Moved) /\ Len(got) = Moved /\ Moved \in Nat
    <2>1. InTx \in Nat /\ Moved \in Nat /\ 0 \in Nat
      <3>1. Pkt \in Nat
        BY UsbAssumption DEF UsbAssumption
      <3>2. InTx \in Nat
        BY <1>3, <3>1
      <3>3. Len(ctl.got) \in Nat
        BY <1>3
      <3>4. Len(ctl.got) + InTx \in Nat
        BY <3>2, <3>3
      <3>. QED BY <1>3, <3>2, <3>4
    <2>2. Len(Part(Want, 0, Moved)) = Moved
      BY <1>4, <2>1, PartGrows
    <2>3. Part(Want, 0, Len(ctl.got)) \o Part(Want, Len(ctl.got), InTx) = Part(Want, 0, Moved)
      BY <1>3, <1>4, <2>1, PartGrows
    <2>. QED BY <1>3, <2>1, <2>2, <2>3
  <1>6. /\ ctl'.req = ctl.req /\ ctl'.got = got /\ ctl'.tog = 1 - ctl.tog
        /\ ctl'.sent = ctl.sent /\ ctl'.stage = IF more THEN "in" ELSE "statusOut"
    BY <1>1, <1>2, <1>3
  <1>. HIDE DEF got
  <1>7. AtWork' /\ ~IsPacket(tx)' /\ Want' = Want /\ InTx' = 0 /\ Moved' = Moved
    <2>1. AtWork' /\ ~IsPacket(tx)' /\ Want' = Want
      BY <1>1, <1>6, Packets1 DEF AtWork, Want, IsPacket
    <2>2. InTx' = 0
      BY <2>1 DEF InTx
    <2>3. Moved' = Len(ctl'.got) + InTx'
      BY DEF Moved
    <2>. QED BY <1>5, <1>6, <2>1, <2>2, <2>3
  <1>8. Forms' /\ Fresh' /\ TransferComplete'
    BY <1>1, <1>6 DEF Control, Forms, Fresh, TransferComplete
  <1>9. OutData' /\ Kept'
    <2>1. Fetched' = Fetched /\ Asking' = Asking /\ Asking = 0
      BY <1>1, <1>2, <1>3, <1>6, <1>7 DEF Fetched, Asking, InKinds
    <2>. QED BY <1>1, <1>6, <2>1 DEF Control, Kept, OutData
  <1>10. CASE more
    <2>1. ~(InTx < Pkt)
      BY <1>3, <1>10, UsbAssumption DEF UsbAssumption
    <2>2. Source'
      BY <1>1, <1>6, <1>7, <1>3 DEF Source
    <2>3. InData'
      BY <1>1, <1>3, <1>5, <1>6, <1>7, <1>10, <2>1, <2>2 DEF InData
    <2>4. AllGot'
      BY <1>6, <1>10 DEF AllGot
    <2>. QED BY <1>8, <1>9, <2>3, <2>4 DEF Control
  <1>11. CASE ~more
    <2>1. Moved = Size(ctl.req)
      <3>1. Size(ctl.req) <= ctl.req.len /\ Pkt \in Nat /\ Size(ctl.req) \in Nat /\ ctl.req.len \in Nat
        BY <1>2, Sizes
      <3>2. CASE InTx = Pkt
        <4>1. ~(Len(got) < ctl.req.len)
          BY <1>3, <1>11, <3>2
        <4>2. Len(got) = Moved /\ Moved <= Size(ctl.req) /\ Moved \in Nat
          BY <1>3, <1>5
        <4>. QED BY <3>1, <4>1, <4>2
      <3>3. CASE InTx # Pkt
        <4>1. InTx < Pkt
          BY <1>3, <3>1, <3>3
        <4>. QED BY <1>3, <4>1
      <3>. QED BY <3>2, <3>3
    <2>2. InData' /\ AllGot'
      BY <1>3, <1>5, <1>6, <1>7, <1>11, <2>1 DEF InData, AllGot
    <2>. QED BY <1>8, <1>9, <2>2 DEF Control
  <1>. QED BY <1>10, <1>11
-----------------------------------------------------------------------------
(* The end of a control transfer *)

\* The answers of a report come behind those the user has got.
LEMMA HidGrows ==
  ASSUME NEW h \in Seq(Nat), h = Upto(Len(h)), NEW n \in Nat, n > 0,
         NEW got, got = Part(Bytes("getReport", Len(h)), 0, n + 1)
  PROVE  h \o Tail(got) \in Seq(Nat) /\ Len(h \o Tail(got)) = Len(h) + n
         /\ h \o Tail(got) = Upto(Len(h) + n)
  <1>1. Len(h) \in Nat /\ n + 1 \in Nat /\ Bytes("getReport", Len(h)) \in [Nat -> Int]
    BY BytesType
  <1>2. got \in Seq(Int) /\ Len(got) = n + 1 /\ got # <<>>
    <2>1. got \in Seq(Int) /\ Len(got) = n + 1
      BY <1>1, PartGrows
    <2>. QED BY <2>1, EmptySeq
  <1>3. \A i \in 1 .. n + 1 : got[i] = IF i = 1 THEN 0 ELSE Len(h) + i - 1
    <2>1. SUFFICES ASSUME NEW i \in 1 .. n + 1
                   PROVE  got[i] = IF i = 1 THEN 0 ELSE Len(h) + i - 1
      OBVIOUS
    <2>2. got[i] = Bytes("getReport", Len(h))[0 + i] /\ 0 + i = i /\ i \in Nat
      BY DEF Part
    <2>. QED BY <2>2 DEF Bytes
  <1>4. PICK t : t = Tail(got)
    OBVIOUS
  <1>5. t \in Seq(Int) /\ Len(t) = n /\ (\A i \in 1 .. n : t[i] = got[i + 1])
    <2>1. t \in Seq(Int) /\ Len(t) = Len(got) - 1 /\ (\A i \in 1 .. Len(t) : t[i] = got[i + 1])
      BY <1>2, <1>4, HeadTailProperties
    <2>. QED BY <1>2, <2>1
  <1>6. \A i \in 1 .. n : t[i] = Len(h) + i
    <2>1. SUFFICES ASSUME NEW i \in 1 .. n PROVE t[i] = Len(h) + i
      OBVIOUS
    <2>2. i + 1 \in 1 .. n + 1 /\ i + 1 # 1 /\ Len(h) + (i + 1) - 1 = Len(h) + i
      BY <1>1
    <2>3. got[i + 1] = Len(h) + (i + 1) - 1
      BY <1>3, <2>2
    <2>. QED BY <1>5, <2>2, <2>3
  <1>7. t \in Seq(Nat)
    <2>1. \A i \in 1 .. n : t[i] \in Nat
      BY <1>1, <1>6
    <2>2. t \in [1 .. n -> Nat]
      BY <1>5, <2>1, LenProperties
    <2>. QED BY <2>2
  <1>8. /\ h \o t \in Seq(Nat) /\ Len(h \o t) = Len(h) + n
        /\ \A i \in 1 .. Len(h) + n : (h \o t)[i] = IF i <= Len(h) THEN h[i] ELSE t[i - Len(h)]
    <2>1. h \o t \in Seq(Nat) /\ Len(h \o t) = Len(h) + Len(t)
          /\ \A i \in 1 .. Len(h) + Len(t) :
               (h \o t)[i] = IF i <= Len(h) THEN h[i] ELSE t[i - Len(h)]
      BY <1>7, ConcatProperties
    <2>. QED BY <1>5, <2>1
  <1>9. \A i \in 1 .. Len(h) + n : (h \o t)[i] = i
    <2>1. SUFFICES ASSUME NEW i \in 1 .. Len(h) + n PROVE (h \o t)[i] = i
      OBVIOUS
    <2>2. CASE i <= Len(h)
      <3>1. i \in 1 .. Len(h)
        BY <1>1, <2>2
      <3>2. h[i] = i
        BY <3>1 DEF Upto
      <3>. QED BY <1>8, <2>2, <3>2
    <2>3. CASE ~(i <= Len(h))
      <3>1. i - Len(h) \in 1 .. n /\ Len(h) + (i - Len(h)) = i
        BY <1>1, <2>3
      <3>. QED BY <1>6, <1>8, <2>3, <3>1
    <2>. QED BY <2>2, <2>3
  <1>10. h \o t = [i \in 1 .. Len(h) + n |-> (h \o t)[i]]
    <2>1. DOMAIN (h \o t) = 1 .. Len(h \o t) /\ h \o t \in [1 .. Len(h \o t) -> Nat]
      BY <1>8, LenProperties
    <2>. QED BY <1>8, <2>1
  <1>. QED BY <1>4, <1>8, <1>9, <1>10 DEF Upto

LEMMA StatusOutServed ==
  ASSUME WellFormed, Types, Control, StatusOut
  PROVE  Control'
  <1>. DEFINE r == ctl.req
  <1>1. /\ ctl.stage = "statusOut" /\ rx = Free /\ rx.tok = "none" /\ ctl' = [stage |-> "idle"]
        /\ last' = [kind |-> r.kind, n |-> r.n, len |-> r.len, got |-> ctl.got,
                    written |-> written]
        /\ hid' = IF r.kind = "getReport" THEN hid \o Tail(ctl.got) ELSE hid
        /\ UNCHANGED <<rx, tog, msg, g, reply, idxR, idxW, written, made>>
    BY FreeBuffer DEF StatusOut, Complete, app
  <1>2. AtWork /\ r \in Requests /\ r.kind \in InKinds /\ ctl.got = Part(Want, 0, Size(r))
        /\ ctl'.stage = "idle"
    BY <1>1 DEF AtWork, Types, Begun, Control, AllGot
  <1>3. r.n \in Nat /\ r.len \in Nat /\ Size(r) \in Nat
    BY <1>2, Sizes
  <1>4. /\ last'.kind = r.kind /\ last'.n = r.n /\ last'.len = r.len /\ last'.got = ctl.got
        /\ last'.written = written
    BY <1>1
  <1>. HIDE DEF r
  <1>5. TransferComplete'
    <2>1. ASSUME r.kind \in {"descriptor", "read"} PROVE ctl.got = Upto(Least(r.n, r.len))
      <3>1. Size(r) = Least(r.n, r.len) /\ Size(r) \in Nat
        BY <1>3, <2>1 DEF Size
      <3>2. \A i \in 1 .. Size(r) : Want[0 + i] = i
        <4>1. \A i \in 1 .. Size(r) : i \in Nat /\ 0 + i = i
          BY <3>1
        <4>2. \A i \in Nat : Want[i] = i
          BY <2>1 DEF Want, Bytes, r
        <4>. QED BY <4>1, <4>2
      <3>. QED BY <1>2, <3>1, <3>2 DEF Part, Upto
    <2>. QED BY <1>2, <1>4, <2>1 DEF TransferComplete, InKinds
  <1>6. Forms' /\ Fresh' /\ InData' /\ AllGot' /\ OutData'
    BY <1>1, <1>2 DEF Control, Forms, Fresh, InData, AllGot, OutData, AtWork
  <1>7. Kept'
    <2>1. Asking = 0 /\ Asking' = 0 /\ Fetched' = 0
          /\ Fetched = IF r.kind = "getReport" THEN r.n ELSE 0
      BY <1>1, <1>2 DEF Asking, Fetched, AtWork, InKinds, r
    <2>2. hid' \in Seq(Nat) /\ hid' = Upto(Len(hid')) /\ Len(hid') = Len(hid) + Fetched
      <3>1. CASE r.kind = "getReport"
        <4>1. r.n > 0 /\ Size(r) = r.n + 1 /\ ctl.got = Part(Bytes("getReport", Len(hid)), 0, r.n + 1)
          BY <1>2, <3>1 DEF WellFormed, Size, Want, r
        <4>2. hid' \in Seq(Nat) /\ Len(hid') = Len(hid) + r.n /\ hid' = Upto(Len(hid) + r.n)
          BY <1>1, <1>3, <3>1, <4>1, HidGrows DEF Control, Kept, r
        <4>. QED BY <2>1, <3>1, <4>2
      <3>2. CASE r.kind # "getReport"
        <4>1. Len(hid) \in Nat
          BY DEF Control, Kept
        <4>. QED BY <1>1, <2>1, <3>2, <4>1 DEF Control, Kept, r
      <3>. QED BY <3>1, <3>2
    <2>3. Len(hid') + Fetched' = Len(hid) + Fetched
      BY <2>1, <2>2
    <2>4. Kept /\ Len(hid') \in Nat /\ Len(hid) \in Nat /\ Fetched \in Nat
      BY <1>3, <2>1, <2>2 DEF Control, Kept
    <2>5. /\ idxR <= Len(hid') + Fetched'
          /\ made = Len(hid') + Fetched' + (idxW - idxR) + Asking'
          /\ \A j \in 1 .. idxW - idxR : reply[idxR + 1 + j] = Len(hid') + Fetched' + j
      BY <2>1, <2>3, <2>4 DEF Kept
    <2>. QED BY <1>1, <1>2, <2>2, <2>4, <2>5 DEF Kept
  <1>. QED BY <1>5, <1>6, <1>7 DEF Control

LEMMA StatusInServed ==
  ASSUME Types, Control, StatusIn
  PROVE  Control'
  <1>. DEFINE r == ctl.req
  <1>1. /\ ctl.stage = "statusIn" /\ rx = Free /\ rx.tok = "none" /\ ctl' = [stage |-> "idle"]
        /\ last' = [kind |-> r.kind, n |-> r.n, len |-> r.len, got |-> ctl.got,
                    written |-> written]
        /\ hid' = IF r.kind = "getReport" THEN hid \o Tail(ctl.got) ELSE hid
        /\ UNCHANGED <<rx, tog, msg, g, reply, idxR, idxW, written, made>>
    BY FreeBuffer DEF StatusIn, Complete, app
  <1>2. AtWork /\ r \in Requests /\ r.kind \notin InKinds /\ ctl'.stage = "idle"
    BY <1>1 DEF AtWork, Types, Begun, Control, OutData
  <1>3. last'.kind = r.kind /\ last'.len = r.len /\ last'.written = written
    BY <1>1
  <1>4. r.kind = "write" => written = r.len
    <2>1. Pending = 0 /\ ctl.sent = r.len /\ r.len \in Nat
      BY <1>1, <1>2, Sizes DEF Pending, Control, OutData
    <2>. QED BY <1>1, <1>2, <2>1 DEF Control, OutData
  <1>5. TransferComplete'
    BY <1>2, <1>3, <1>4 DEF TransferComplete, InKinds
  <1>6. Forms' /\ Fresh' /\ InData' /\ AllGot' /\ OutData'
    BY <1>1, <1>2 DEF Control, Forms, Fresh, InData, AllGot, OutData, AtWork
  <1>7. Kept'
    <2>1. Asking = 0 /\ Asking' = 0 /\ Fetched' = 0 /\ Fetched = 0 /\ hid' = hid
      BY <1>1, <1>2 DEF Asking, Fetched, AtWork, InKinds
    <2>. QED BY <1>1, <1>2, <2>1 DEF Control, Kept
  <1>. QED BY <1>5, <1>6, <1>7 DEF Control

LEMMA AbortServed ==
  ASSUME Types, Control, Abort
  PROVE  Control'
  <1>1. /\ ctl.stage # "idle" /\ ctl.req.kind \in {"descriptor", "read", "write"}
        /\ ctl'.stage = "idle" /\ last'.kind = "none"
        /\ UNCHANGED <<rx, tx, tog, msg, g, reply, idxR, idxW, written, hid, made>>
    BY DEF Abort, driver, app
  <1>2. Forms' /\ InData' /\ AllGot' /\ OutData' /\ TransferComplete'
    BY <1>1 DEF Control, Forms, InData, AllGot, OutData, AtWork, TransferComplete
  <1>3. Fresh'
    BY <1>1 DEF Control, Fresh
  <1>4. Kept'
    <2>1. Fetched = 0 /\ Fetched' = 0 /\ Asking = 0 /\ Asking' = 0
      BY <1>1 DEF Fetched, Asking, AtWork
    <2>2. rx.tok = "out0" => g.kind # "setReport"
      <3>1. rx.tok = "out0" => AtWork /\ ctl.stage \in {"out", "statusIn"}
        BY <1>1 DEF Control, Forms, AtWork
      <3>. QED BY <1>1, <3>1 DEF Control, OutData, InKinds
    <2>. QED BY <1>1, <2>1, <2>2 DEF Control, Kept
  <1>. QED BY <1>2, <1>3, <1>4 DEF Control
-----------------------------------------------------------------------------
(* Packets worked off *)

LEMMA NoBytes ==
  ASSUME NEW f \in [Nat -> Int]
  PROVE  Part(f, 0, 0) = <<>> /\ Len(<<>>) = 0
  <1>1. Part(f, 0, 0) \in Seq(Int) /\ Len(Part(f, 0, 0)) = 0
    BY PartGrows
  <1>. QED BY <1>1, EmptySeq

\* What the host's request finds in the device.
LEMMA Begins ==
  ASSUME Types, Control, rx.tok = "setup", ctl.stage # "idle"
  PROVE  /\ ctl.req \in Requests /\ rx.req = ctl.req /\ rx.ids = <<>> /\ ctl.tog = 1
         /\ ctl.got = <<>> /\ ctl.sent = 0
         /\ ctl.stage = IF ctl.req.kind \in InKinds THEN "in"
                        ELSE IF ctl.req.len > 0 THEN "out" ELSE "statusIn"
         /\ Fetched = 0 /\ Asking = IF ctl.req.kind = "setReport" THEN ctl.req.n ELSE 0
  BY DEF Types, Begun, Control, Fresh, Fetched, Asking, AtWork

LEMMA BeginsIn ==
  ASSUME Types, Control, rx.tok = "setup", rx' = Free, tx' = Nak, tog' = 0, UNCHANGED host,
         ctl.stage # "idle", ctl.req.kind \in InKinds,
         Forms', Kept', msg'.len = Size(ctl.req),
         msg'.user <=> ctl.req.kind = "read",
         msg'.buf = IF ctl.req.kind = "getReport" THEN "ReplyBuf" ELSE "other",
         ctl.req.kind = "descriptor" => msg'.pos = 0,
         ctl.req.kind = "read" => g'.pos = 0,
         ctl.req.kind = "getReport" =>
           /\ msg'.pos \in Nat /\ msg'.pos > 0 /\ msg'.pos + Size(ctl.req) <= ReplySize
           /\ \A i \in 1 .. Size(ctl.req) : reply'[msg'.pos + i - 1] = Want[i]
  PROVE  Control'
  <1>1. /\ ctl.req \in Requests /\ ctl.tog = 1 /\ ctl.got = <<>> /\ ctl.stage = "in"
        /\ UNCHANGED <<ctl, hid, last>> /\ Free.tok = "none"
    BY Begins, FreeBuffer DEF host
  <1>2. Size(ctl.req) \in Nat /\ Len(<<>>) = 0 /\ Want' = Want /\ Part(Want, 0, 0) = <<>>
    <2>1. Want \in [Nat -> Int]
      BY BytesType DEF Want, Control, Kept
    <2>2. Want' = Want
      BY <1>1 DEF Want
    <2>. QED BY <1>1, <2>1, <2>2, NoBytes, Sizes
  <1>3. AtWork' /\ ~IsPacket(tx)' /\ InTx' = 0 /\ Moved' = 0
    <2>1. AtWork' /\ ~IsPacket(tx)'
      BY <1>1, Packets1 DEF AtWork, IsPacket
    <2>2. InTx' = 0
      BY <2>1 DEF InTx
    <2>. QED BY <1>1, <1>2, <2>1, <2>2 DEF Moved
  <1>4. Source'
    <2>1. \A i \in 1 .. Size(ctl.req) : 0 + i = i
      BY <1>2
    <2>2. Size(ctl.req) - 0 = Size(ctl.req)
      BY <1>2
    <2>. QED BY <1>1, <1>2, <1>3, <2>1, <2>2 DEF Source
  <1>5. InData'
    <2>1. Size(ctl.req) - 0 = Size(ctl.req) /\ 0 <= Size(ctl.req)
      BY <1>2
    <2>. QED BY <1>1, <1>2, <1>3, <1>4, <2>1 DEF InData
  <1>6. Fresh' /\ AllGot' /\ OutData' /\ TransferComplete'
    BY <1>1 DEF Control, Fresh, AllGot, OutData, TransferComplete
  <1>. QED BY <1>5, <1>6 DEF Control

LEMMA BeginsOut ==
  ASSUME Types, Control, rx.tok = "setup", rx' = Free, tx' = Nak, tog' = 0, UNCHANGED host,
         ctl.stage # "idle", ctl.req.kind \notin InKinds,
         Forms', Kept',
         msg'.user <=> ctl.req.kind \in {"setReport", "write"},
         msg'.user => /\ ctl.req.len > 0 /\ g'.kind = ctl.req.kind /\ g'.pos = 0
                      /\ g'.len = ctl.req.len /\ written' = 0 /\ msg'.len = NoMsg,
         ~msg'.user => msg'.len = 0
  PROVE  Control'
  <1>1. /\ ctl.req \in Requests /\ ctl.tog = 1 /\ ctl.sent = 0
        /\ ctl.stage = IF ctl.req.len > 0 THEN "out" ELSE "statusIn"
        /\ UNCHANGED <<ctl, hid, last>> /\ Free.tok = "none"
    BY Begins, FreeBuffer DEF host
  <1>2. ctl.req.len \in Nat
    BY <1>1, Sizes
  <1>3. Pending' = 0 /\ AtWork'
    BY <1>1 DEF Pending, AtWork
  <1>4. OutData'
    BY <1>1, <1>2, <1>3 DEF OutData, Ready
  <1>5. Fresh' /\ InData' /\ AllGot' /\ TransferComplete'
    BY <1>1 DEF Control, Fresh, InData, AllGot, TransferComplete
  <1>. QED BY <1>4, <1>5 DEF Control

\* A request that leaves ReplyBuf and its indices alone keeps the answers.
LEMMA KeptBegins ==
  ASSUME Types, Control, rx.tok = "setup", rx' = Free, UNCHANGED host,
         ctl.stage # "idle" => ctl.req.kind # "getReport",
         ctl.stage # "idle" /\ ctl.req.kind = "setReport" => ctl.req.len > 0,
         UNCHANGED <<reply, idxR, idxW>>
  PROVE  Kept'
  <1>1. UNCHANGED <<ctl, hid, made>> /\ rx'.tok = "none"
    BY FreeBuffer DEF host
  <1>2. Fetched' = 0 /\ Fetched = 0
    BY <1>1 DEF Fetched, AtWork
  <1>3. Asking' = Asking
    <2>1. CASE ctl.stage = "idle"
      BY <1>1, <2>1 DEF Asking
    <2>2. CASE ctl.stage # "idle"
      <3>1. ctl.stage = IF ctl.req.kind \in InKinds THEN "in"
                        ELSE IF ctl.req.len > 0 THEN "out" ELSE "statusIn"
        BY <2>2, Begins
      <3>. QED BY <1>1, <2>2, <3>1 DEF Asking, InKinds
    <2>. QED BY <2>1, <2>2
  <1>. QED BY <1>1, <1>2, <1>3 DEF Control, Kept

\* GET_REPORT: the report's number, and behind it the oldest answers.
LEMMA GetReportServed ==
  ASSUME WellFormed, Types, Control, rx.tok = "setup", rx' = Free, ctl.stage # "idle",
         ctl.req.kind = "getReport", ProcessSetup(rx.req, rx.ids), UNCHANGED host
  PROVE  Control'
  <1>. DEFINE r == ctl.req
              n == r.n
  <1>1. /\ r \in Requests /\ rx.req = r /\ r.kind = "getReport" /\ Fetched = 0 /\ Asking = 0
        /\ UNCHANGED <<ctl, hid, made>> /\ rx'.tok = "none"
    BY Begins, FreeBuffer DEF host
  <1>2. n \in Nat /\ n > 0 /\ r.len = n + 1 /\ Size(r) = n + 1
    BY <1>1, Sizes DEF WellFormed, Size
  <1>3. /\ Len(hid) \in Nat /\ idxR \in Nat /\ idxW \in Nat /\ idxR <= Len(hid) /\ n <= idxW - idxR
        /\ made = Len(hid) + (idxW - idxR) /\ made \in 0 .. MaxHid
    BY <1>1 DEF Control, Kept
  <1>4. idxW # 0 /\ idxW + 2 <= ReplySize /\ ReplySize \in Nat /\ MaxHid \in Nat
    BY <1>2, <1>3, UsbAssumption DEF UsbAssumption, WellFormed
  <1>5. /\ tx' = Nak /\ tog' = 0 /\ g' = [kind |-> r.kind, pos |-> 0, len |-> r.len]
        /\ reply' = [reply EXCEPT ![idxR + 1] = 0]
        /\ msg' = [len |-> r.len, user |-> FALSE, buf |-> "ReplyBuf", pos |-> idxR + 1]
        /\ IF idxR + n >= idxW THEN idxR' = 0 /\ idxW' = 0
                               ELSE idxR' = idxR + n /\ idxW' = idxW
    BY <1>1, <1>4 DEF ProcessSetup, FunctionSetup, Standard, Reply
  <1>6. reply \in [0 .. ReplySize - 1 -> Int] /\ idxR + 1 \in 0 .. ReplySize - 1
    BY <1>2, <1>3, <1>4 DEF Control, Forms
  <1>7. \A p \in 0 .. ReplySize - 1 : reply'[p] = IF p = idxR + 1 THEN 0 ELSE reply[p]
    BY <1>5, <1>6
  <1>8. Forms'
    <2>1. reply' \in [0 .. ReplySize - 1 -> Int]
      BY <1>5, <1>6
    <2>. QED BY <1>1, <1>5, <2>1 DEF Control, Forms
  <1>9. \A j \in 1 .. idxW - idxR : reply[idxR + 1 + j] = Len(hid) + j
    <2>1. \A j \in 1 .. idxW - idxR : reply[idxR + 1 + j] = Len(hid) + 0 + j
      BY <1>1 DEF Control, Kept
    <2>2. \A j \in 1 .. idxW - idxR : Len(hid) + 0 + j = Len(hid) + j
      <3>1. Len(hid) \in Int
        BY <1>3
      <3>. QED BY <3>1
    <2>. QED BY <2>1, <2>2
  <1>. HIDE DEF r, n
  <1>10. \A i \in 1 .. n + 1 : reply'[idxR + 1 + i - 1] = Want[i]
    <2>1. SUFFICES ASSUME NEW i \in 1 .. n + 1 PROVE reply'[idxR + 1 + i - 1] = Want[i]
      OBVIOUS
    <2>2. i \in Nat /\ Want[i] = IF i = 1 THEN 0 ELSE Len(hid) + i - 1
      BY <1>1, <1>2 DEF Want, Bytes, r
    <2>3. CASE i = 1
      <3>1. idxR + 1 + i - 1 = idxR + 1
        BY <1>3, <2>3
      <3>. QED BY <1>6, <1>7, <2>2, <2>3, <3>1
    <2>4. CASE i # 1
      <3>1. /\ i - 1 \in 1 .. idxW - idxR /\ idxR + 1 + i - 1 = idxR + 1 + (i - 1)
            /\ idxR + 1 + (i - 1) \in 0 .. ReplySize - 1 /\ idxR + 1 + (i - 1) # idxR + 1
        BY <1>2, <1>3, <1>4, <2>2, <2>4
      <3>2. reply[idxR + 1 + (i - 1)] = Len(hid) + (i - 1)
        BY <1>9, <3>1
      <3>3. Len(hid) + (i - 1) = Len(hid) + i - 1
        BY <1>3, <2>2
      <3>. QED BY <1>7, <2>2, <2>4, <3>1, <3>2, <3>3
    <2>. QED BY <2>3, <2>4
  <1>11. Kept'
    <2>1. Fetched' = n /\ Asking' = 0
      BY <1>1 DEF Fetched, Asking, AtWork, r, n
    <2>2. CASE idxR + n >= idxW
      <3>1. idxR' = 0 /\ idxW' = 0 /\ idxR + n = idxW
        BY <1>2, <1>3, <1>5, <2>2
      <3>2. made = Len(hid) + n + (0 - 0) + 0 /\ 0 <= Len(hid) + n
        BY <1>2, <1>3, <3>1
      <3>. QED BY <1>1, <2>1, <3>1, <3>2 DEF Control, Kept
    <2>3. CASE ~(idxR + n >= idxW)
      <3>1. idxR' = idxR + n /\ idxW' = idxW /\ idxR + n <= idxW /\ idxR + n \in Nat
        BY <1>2, <1>3, <1>5, <2>3
      <3>2. made = Len(hid) + n + (idxW - (idxR + n)) + 0 /\ idxR + n <= Len(hid) + n
        BY <1>2, <1>3
      <3>3. ASSUME NEW j \in 1 .. idxW - (idxR + n)
            PROVE  reply'[idxR + n + 1 + j] = Len(hid) + n + j
        <4>1. /\ n + j \in 1 .. idxW - idxR /\ idxR + n + 1 + j = idxR + 1 + (n + j)
              /\ idxR + 1 + (n + j) \in 0 .. ReplySize - 1 /\ idxR + 1 + (n + j) # idxR + 1
              /\ Len(hid) + n + j = Len(hid) + (n + j)
          BY <1>2, <1>3, <1>4
        <4>. QED BY <1>7, <1>9, <4>1
      <3>. QED BY <1>1, <2>1, <3>1, <3>2, <3>3 DEF Control, Kept
    <2>. QED BY <2>2, <2>3
  <1>12. /\ msg'.len = Size(ctl.req) /\ ~msg'.user /\ msg'.buf = "ReplyBuf" /\ msg'.pos = idxR + 1
    BY <1>2, <1>5 DEF r
  <1>13. msg'.pos \in Nat /\ msg'.pos > 0 /\ msg'.pos + Size(ctl.req) <= ReplySize
    <2>1. Size(ctl.req) = n + 1
      BY <1>2 DEF r
    <2>. QED BY <1>2, <1>3, <1>4, <1>12, <2>1
  <1>14. \A i \in 1 .. Size(ctl.req) : reply'[msg'.pos + i - 1] = Want[i]
    <2>1. Size(ctl.req) = n + 1
      BY <1>2 DEF r
    <2>. QED BY <1>10, <1>12, <2>1
  <1>15. ctl.req.kind \in InKinds
    BY DEF InKinds
  <1>. QED BY <1>5, <1>8, <1>11, <1>12, <1>13, <1>14, <1>15, BeginsIn

LEMMA StoresNothing ==
  ASSUME Forms, idxW \in Nat
  PROVE  Stored(<<>>) = reply /\ idxW + Len(<<>>) = idxW
  <1>1. Len(<<>>) = 0 /\ 1 .. 0 = {}
    OBVIOUS
  <1>2. DOMAIN reply = 0 .. ReplySize - 1 /\ reply = [i \in 0 .. ReplySize - 1 |-> reply[i]]
    BY DEF Forms
  <1>3. Stored(<<>>) = [i \in 0 .. ReplySize - 1 |-> reply[i]]
    BY <1>1, <1>2 DEF Stored
  <1>. QED BY <1>1, <1>2, <1>3

\* The vendor's requests of the low-speed devices; no answers wait.
LEMMA VendorServed ==
  ASSUME Types, Control, rx.tok = "setup", rx' = Free, ctl.stage # "idle",
         ctl.req.kind \in {"vendorIn", "vendorOut"}, ProcessSetup(rx.req, rx.ids), UNCHANGED host
  PROVE  Control'
  <1>1. /\ rx.req = ctl.req /\ rx.ids = <<>> /\ ctl.req \in Requests /\ Fetched = 0 /\ Asking = 0
        /\ UNCHANGED <<ctl, hid, made>> /\ rx'.tok = "none"
    BY Begins, FreeBuffer DEF host
  <1>2. /\ Len(hid) \in Nat /\ idxR \in Nat /\ idxW = idxR /\ made = Len(hid) + (idxW - idxR)
        /\ idxR <= Len(hid)
    BY <1>1 DEF Control, Kept
  <1>3. /\ tx' = Nak /\ tog' = 0 /\ g' = [kind |-> ctl.req.kind, pos |-> 0, len |-> ctl.req.len]
        /\ reply' = Stored(<<>>)
        /\ msg' = [len |-> 0, user |-> FALSE, buf |-> "other", pos |-> 0]
        /\ idxR' = IF ctl.req.kind = "vendorIn" THEN 0 ELSE idxR
        /\ idxW' = IF ctl.req.kind = "vendorIn" THEN 0 ELSE idxW + Len(<<>>)
    BY <1>1 DEF ProcessSetup, FunctionSetup, Standard, Reply, HidProcessInOut
  <1>4. reply' = reply /\ idxW' = idxR' /\ idxR' \in Nat /\ idxR' <= Len(hid)
    BY <1>2, <1>3, StoresNothing DEF Control
  <1>5. Forms'
    BY <1>1, <1>3, <1>4 DEF Control, Forms
  <1>6. Kept'
    <2>1. Fetched' = 0 /\ Asking' = 0
      BY <1>1 DEF Fetched, Asking
    <2>2. idxW' - idxR' = 0 /\ made = Len(hid) + 0 + 0 + 0 /\ 1 .. 0 = {}
      <3>1. idxW' - idxR' = 0 /\ idxW - idxR = 0
        <4>1. \A a \in Nat : a - a = 0
          OBVIOUS
        <4>2. idxW' - idxR' = 0
          BY <1>4, <4>1
        <4>3. idxW - idxR = 0
          BY <1>2, <4>1
        <4>. QED BY <4>2, <4>3
      <3>2. 1 .. 0 = {}
        OBVIOUS
      <3>. QED BY <1>2, <3>1, <3>2
    <2>. QED BY <1>1, <1>2, <1>4, <2>1, <2>2 DEF Control, Kept
  <1>7. msg'.len = 0 /\ ~msg'.user /\ msg'.buf = "other"
    BY <1>3
  <1>8. CASE ctl.req.kind = "vendorIn"
    <2>1. Size(ctl.req) = 0 /\ ctl.req.kind \in InKinds
      BY <1>8 DEF Size, InKinds
    <2>. QED BY <1>3, <1>5, <1>6, <1>7, <1>8, <2>1, BeginsIn
  <1>9. CASE ctl.req.kind = "vendorOut"
    <2>1. ctl.req.kind \notin InKinds
      BY <1>9 DEF InKinds
    <2>. QED BY <1>3, <1>5, <1>6, <1>7, <1>9, <2>1, BeginsOut
  <1>. QED BY <1>8, <1>9

\* The others, which leave ReplyBuf alone.
LEMMA PlainServed ==
  ASSUME WellFormed, Types, Control, rx.tok = "setup", rx' = Free, ctl.stage # "idle",
         ctl.req.kind \notin {"getReport", "vendorIn", "vendorOut"},
         ProcessSetup(rx.req, rx.ids), UNCHANGED host
  PROVE  Control'
  <1>1. /\ rx.req = ctl.req /\ ctl.req \in Requests /\ UNCHANGED <<ctl, hid, made>>
        /\ rx'.tok = "none" /\ tx' = Nak /\ tog' = 0
    BY Begins, FreeBuffer DEF host, ProcessSetup
  <1>2. ctl.req.kind \in Kinds /\ ctl.req.n \in Nat /\ ctl.req.len \in Nat
    BY <1>1, Sizes
  <1>3. CASE ctl.req.kind \in Standard
    <2>1. /\ UNCHANGED <<g, reply, idxR, idxW>>
          /\ msg' = [len |-> IF ctl.req.kind = "descriptor" THEN Least(ctl.req.n, ctl.req.len) ELSE 0,
                     user |-> FALSE, buf |-> "other", pos |-> 0]
      BY <1>1, <1>3 DEF ProcessSetup, DriverSetup, Reply
    <2>2. ~msg'.user /\ msg'.buf = "other" /\ msg'.pos = 0
          /\ msg'.len = IF ctl.req.kind = "descriptor" THEN Least(ctl.req.n, ctl.req.len) ELSE 0
      BY <2>1
    <2>3. Forms'
      BY <1>1, <2>1 DEF Control, Forms
    <2>4. Kept'
      BY <1>3, <2>1, KeptBegins DEF Standard
    <2>5. CASE ctl.req.kind = "descriptor"
      <3>1. msg'.len = Size(ctl.req) /\ ctl.req.kind \in InKinds
        BY <2>2, <2>5 DEF Size, InKinds
      <3>. QED BY <1>1, <2>2, <2>3, <2>4, <2>5, <3>1, BeginsIn
    <2>6. CASE ctl.req.kind # "descriptor"
      <3>1. ctl.req.kind \notin InKinds /\ ctl.req.kind \notin {"setReport", "write"}
        BY <1>3, <2>6 DEF Standard, InKinds
      <3>. QED BY <1>1, <2>2, <2>3, <2>4, <2>6, <3>1, BeginsOut
    <2>. QED BY <2>5, <2>6
  <1>4. CASE ctl.req.kind = "read"
    <2>1. /\ UNCHANGED <<reply, idxR, idxW>>
          /\ g' = [kind |-> ctl.req.kind, pos |-> 0, len |-> ctl.req.len]
          /\ msg' = [len |-> ctl.req.len, user |-> TRUE, buf |-> "other", pos |-> 0]
      BY <1>1, <1>4 DEF ProcessSetup, FunctionSetup, Standard, Reply
    <2>2. msg'.user /\ msg'.buf = "other" /\ g'.pos = 0 /\ msg'.len = Size(ctl.req)
      <3>1. Least(ctl.req.n, ctl.req.len) = ctl.req.len
        BY <1>1, <1>2, <1>4 DEF WellFormed, Least
      <3>. QED BY <1>4, <2>1, <3>1 DEF Size
    <2>3. Forms'
      BY <1>1, <2>1 DEF Control, Forms
    <2>4. Kept'
      BY <1>4, <2>1, KeptBegins
    <2>5. ctl.req.kind \in InKinds
      BY <1>4 DEF InKinds
    <2>. QED BY <1>1, <1>4, <2>2, <2>3, <2>4, <2>5, BeginsIn
  <1>5. CASE ctl.req.kind \in {"setReport", "write"}
    <2>1. /\ UNCHANGED <<reply, idxR, idxW>> /\ written' = 0
          /\ g' = [kind |-> ctl.req.kind, pos |-> 0, len |-> ctl.req.len]
          /\ msg' = [len |-> NoMsg, user |-> TRUE, buf |-> "other", pos |-> 0]
      BY <1>1, <1>5 DEF ProcessSetup, FunctionSetup, Standard, Reply
    <2>2. /\ msg'.user /\ msg'.len = NoMsg /\ g'.kind = ctl.req.kind /\ g'.pos = 0
          /\ g'.len = ctl.req.len /\ ctl.req.len > 0
      BY <1>1, <1>5, <2>1 DEF WellFormed
    <2>3. Forms'
      BY <1>1, <2>1 DEF Control, Forms
    <2>4. Kept'
      BY <1>5, <2>1, <2>2, KeptBegins
    <2>5. ctl.req.kind \notin InKinds
      BY <1>5 DEF InKinds
    <2>. QED BY <1>1, <1>5, <2>1, <2>2, <2>3, <2>4, <2>5, BeginsOut
  <1>. QED BY <1>2, <1>3, <1>4, <1>5 DEF Kinds, Standard

\* usbProcessRx for a SETUP packet, of a transfer that may have been given up.
LEMMA SetupServed ==
  ASSUME WellFormed, Types, Control, rx.tok = "setup", rx' = Free,
         ProcessSetup(rx.req, rx.ids), UNCHANGED host
  PROVE  Control'
  <1>1. CASE ctl.stage # "idle"
    BY <1>1, GetReportServed, VendorServed, PlainServed
  <1>2. CASE ctl.stage = "idle"
    <2>1. /\ rx.req.kind \in {"descriptor", "read", "write"} /\ rx'.tok = "none"
          /\ UNCHANGED <<ctl, hid, made, last>>
      BY <1>2, FreeBuffer DEF Control, Fresh, host
    <2>2. /\ UNCHANGED <<reply, idxR, idxW>>
          /\ DOMAIN msg' = {"len", "user", "buf", "pos"} /\ DOMAIN g' = {"kind", "pos", "len"}
      <3>1. CASE rx.req.kind = "descriptor"
        BY <3>1 DEF ProcessSetup, DriverSetup, Standard, Reply, Control, Forms
      <3>2. CASE rx.req.kind \in {"read", "write"}
        BY <3>2 DEF ProcessSetup, FunctionSetup, Standard, Reply
      <3>. QED BY <2>1, <3>1, <3>2
    <2>3. Forms'
      BY <2>1, <2>2 DEF Control, Forms
    <2>4. Kept'
      BY <1>2, <2>2, KeptBegins
    <2>5. Fresh' /\ InData' /\ AllGot' /\ OutData' /\ TransferComplete'
      BY <1>2, <2>1 DEF Control, Fresh, InData, AllGot, OutData, AtWork, TransferComplete
    <2>. QED BY <2>3, <2>4, <2>5 DEF Control
  <1>. QED BY <1>1, <1>2

\* usbFunctionWrite takes all bytes of a packet, and lets the status stage be built.
LEMMA WriteTakes ==
  ASSUME Types, Control, rx.tok = "out0", rx' = Free, ctl.stage # "idle", msg.user,
         FunctionWrite(rx.n, rx.ids), UNCHANGED <<tx, tog, ctl, last>>, Kept', Forms'
  PROVE  Control'
  <1>1. /\ AtWork /\ ctl.stage \in {"out", "statusIn"} /\ ctl.req \in Requests
        /\ rx.n \in Nat /\ Pending = rx.n /\ rx'.tok = "none"
    BY FreeBuffer DEF AtWork, Control, Forms, Types, Begun, Pending
  <1>2. /\ ctl.req.kind \in {"setReport", "write"} /\ g.kind = ctl.req.kind /\ g.pos \in Int
        /\ rx.n <= ctl.sent /\ rx.n > 0 /\ g.len = ctl.req.len - (ctl.sent - rx.n)
        /\ g.kind = "write" => written = ctl.sent - rx.n
        /\ IF ctl.sent = rx.n THEN tx = Nak /\ tog = 0 /\ msg.len = NoMsg ELSE Ready
        /\ ctl.sent \in 0 .. ctl.req.len
    BY <1>1 DEF Control, OutData
  <1>3. ctl.req.len \in Nat /\ ctl.sent \in Nat /\ ctl.sent <= ctl.req.len
    BY <1>1, <1>2, Sizes
  <1>4. Least(rx.n, g.len) = rx.n
    BY <1>1, <1>2, <1>3 DEF Least
  <1>5. /\ g' = [g EXCEPT !.pos = @ + rx.n, !.len = @ - rx.n] /\ msg' = [msg EXCEPT !.len = 0]
        /\ written' = IF g.kind = "write" THEN written + rx.n ELSE written
    BY <1>2, <1>4 DEF FunctionWrite
  <1>6. /\ g'.kind = g.kind /\ g'.pos = g.pos + rx.n /\ g'.len = g.len - rx.n /\ msg'.len = 0
        /\ msg'.user = msg.user
    BY <1>5 DEF Control, Forms
  <1>7. AtWork' /\ Pending' = 0
    BY <1>1 DEF AtWork, Pending
  <1>8. Ready'
    BY <1>2, <1>6 DEF Ready, IsPacket
  <1>9. g'.len = ctl.req.len - (ctl.sent - 0) /\ g'.pos \in Int /\ ctl.sent # 0
        /\ (g'.kind = "write" => written' = ctl.sent - 0)
    BY <1>1, <1>2, <1>3, <1>5, <1>6
  <1>10. OutData'
    BY <1>1, <1>2, <1>3, <1>6, <1>7, <1>8, <1>9 DEF OutData, Control
  <1>11. Fresh' /\ InData' /\ AllGot' /\ TransferComplete'
    BY <1>1 DEF Control, Fresh, InData, AllGot, TransferComplete
  <1>. QED BY <1>10, <1>11 DEF Control

\* HidProcessInOut: the answers come behind those that wait, and find room.
LEMMA ReportStored ==
  ASSUME WellFormed, Types, Control, rx.tok = "out0", rx' = Free, ctl.stage # "idle",
         ctl.req.kind = "setReport", HidProcessInOut(rx.ids), UNCHANGED <<ctl, hid, made, idxR>>
  PROVE  Kept' /\ reply' \in [0 .. ReplySize - 1 -> Int]
  <1>. DEFINE q == ctl.req.n
  <1>1. /\ AtWork /\ ctl.stage \in {"out", "statusIn"} /\ ctl.req \in Requests /\ rx'.tok = "none"
        /\ Fetched = 0 /\ Asking = q /\ Fetched' = 0
    BY FreeBuffer DEF AtWork, Control, Forms, Types, Begun, Fetched, Asking
  <1>2. Asking' = 0
    <2>1. /\ ctl.sent \in {0, ctl.req.len} /\ Pending <= ctl.sent /\ rx.n > 0 /\ rx.n \in Nat
          /\ ctl.stage = "out" <=> ctl.sent < ctl.req.len
      BY <1>1 DEF Control, OutData, Forms
    <2>2. ctl.req.len \in Nat
      BY <1>1, Sizes
    <2>3. ctl.stage # "out"
      BY <2>1, <2>2 DEF Pending
    <2>. QED BY <1>1, <2>3 DEF Asking
  <1>3. /\ Len(hid) \in Nat /\ idxR \in Nat /\ idxW \in Nat /\ idxR <= idxW /\ idxR <= Len(hid) + 0
        /\ made = Len(hid) + 0 + (idxW - idxR) + q /\ made \in 0 .. MaxHid /\ q \in Nat
        /\ rx.ids = [i \in 1 .. q |-> made - q + i]
        /\ \A j \in 1 .. idxW - idxR : reply[idxR + 1 + j] = Len(hid) + 0 + j
    BY <1>1, Sizes DEF Control, Kept
  <1>4. ReplySize \in Nat /\ MaxHid \in Nat /\ MaxHid + 2 <= ReplySize
    BY UsbAssumption DEF UsbAssumption, WellFormed
  <1>. HIDE DEF q
  <1>5. idxW + q + 2 <= ReplySize /\ made \in Nat
    BY <1>3, <1>4
  <1>6. Len(rx.ids) = q /\ (\A i \in 1 .. q : rx.ids[i] = made - q + i)
    BY <1>3
  <1>7. idxW' = idxW + q
    BY <1>6 DEF HidProcessInOut
  <1>8. /\ reply \in [0 .. ReplySize - 1 -> Int]
        /\ reply' = [i \in 0 .. ReplySize - 1 |->
             IF i - 1 - idxW \in 1 .. q THEN rx.ids[i - 1 - idxW] ELSE reply[i]]
    BY <1>6 DEF HidProcessInOut, Stored, Control, Forms
  <1>9. reply' \in [0 .. ReplySize - 1 -> Int]
    <2>1. \A i \in 1 .. q : rx.ids[i] \in Int
      BY <1>3, <1>5, <1>6
    <2>. QED BY <1>8, <2>1
  <1>10. ASSUME NEW j \in 1 .. idxW + q - idxR
         PROVE  reply'[idxR + 1 + j] = Len(hid) + 0 + j
    <2>1. PICK p \in 0 .. ReplySize - 1 : p = idxR + 1 + j /\ j \in Nat
      BY <1>3, <1>4, <1>5
    <2>2. p - 1 - idxW = idxR + j - idxW
      BY <1>3, <2>1
    <2>3. CASE j <= idxW - idxR
      <3>1. j \in 1 .. idxW - idxR /\ ~(idxR + j - idxW \in 1 .. q)
        BY <1>3, <2>1, <2>3
      <3>2. reply'[p] = reply[p]
        BY <1>8, <2>2, <3>1
      <3>. QED BY <1>3, <2>1, <3>1, <3>2
    <2>4. CASE ~(j <= idxW - idxR)
      <3>1. idxR + j - idxW \in 1 .. q
        BY <1>3, <2>1, <2>4
      <3>2. reply'[p] = rx.ids[idxR + j - idxW]
        BY <1>8, <2>2, <3>1
      <3>3. rx.ids[idxR + j - idxW] = made - q + (idxR + j - idxW)
        BY <1>6, <3>1
      <3>4. made - q + (idxR + j - idxW) = Len(hid) + 0 + j
        BY <1>3, <2>1
      <3>. QED BY <2>1, <3>2, <3>3, <3>4
    <2>. QED BY <2>3, <2>4
  <1>11. idxW' \in Nat /\ idxR <= idxW' /\ made = Len(hid) + 0 + (idxW' - idxR) + 0
    <2>1. idxW + q \in Nat /\ idxR <= idxW + q
      BY <1>3
    <2>2. made = Len(hid) + 0 + (idxW + q - idxR) + 0
      BY <1>3
    <2>3. ASSUME NEW w, w = idxW + q, idxW' = w
          PROVE  idxW' \in Nat /\ idxR <= idxW' /\ made = Len(hid) + 0 + (idxW' - idxR) + 0
      <3>1. w \in Nat /\ idxR <= w
        BY <2>1, <2>3
      <3>2. w - idxR = idxW + q - idxR
        BY <1>3, <2>3
      <3>3. made = Len(hid) + 0 + (w - idxR) + 0
        BY <2>2, <3>2
      <3>. QED BY <2>3, <3>1, <3>3
    <2>. QED BY <1>7, <2>3
  <1>12. Kept'
    <2>1. hid \in Seq(Nat) /\ hid = Upto(Len(hid))
      BY DEF Control, Kept
    <2>. QED BY <1>1, <1>2, <1>3, <1>7, <1>10, <1>11, <2>1 DEF Kept
  <1>. QED BY <1>9, <1>12

\* usbProcessRx for a packet of a data stage.
LEMMA DataServed ==
  ASSUME WellFormed, Types, Control, rx.tok = "out0", rx' = Free,
         ProcessData(rx.n, rx.ids), UNCHANGED host
  PROVE  Control'
  <1>1. /\ UNCHANGED <<tx, tog, idxR, ctl, hid, made, last>> /\ rx'.tok = "none"
        /\ ctl.stage \in {"idle", "out", "statusIn"}
        /\ IF msg.user THEN FunctionWrite(rx.n, rx.ids)
                       ELSE UNCHANGED <<g, reply, idxW, written, msg>>
    BY FreeBuffer DEF ProcessData, host, Control, Forms
  <1>2. /\ DOMAIN msg' = DOMAIN msg /\ DOMAIN g' = DOMAIN g
        /\ g.kind # "setReport" => UNCHANGED <<reply, idxW>>
    BY <1>1 DEF FunctionWrite
  <1>3. ASSUME UNCHANGED <<reply, idxW>> PROVE Forms'
    BY <1>1, <1>2, <1>3 DEF Control, Forms
  <1>4. ASSUME UNCHANGED <<reply, idxW>>, ctl.stage = "idle" \/ ctl.req.kind # "setReport"
        PROVE  Kept'
    <2>1. Fetched' = Fetched /\ Asking' = 0 /\ Asking = 0
      BY <1>1, <1>4 DEF Fetched, Asking, AtWork
    <2>. QED BY <1>1, <1>4, <2>1 DEF Control, Kept
  <1>5. CASE ctl.stage = "idle"
    <2>1. UNCHANGED <<reply, idxW>>
      BY <1>2, <1>5 DEF Control, Kept
    <2>2. Fresh' /\ InData' /\ AllGot' /\ OutData' /\ TransferComplete'
      BY <1>1, <1>5 DEF Control, Fresh, InData, AllGot, OutData, AtWork, TransferComplete
    <2>. QED BY <1>3, <1>4, <1>5, <2>1, <2>2 DEF Control
  <1>6. CASE ctl.stage # "idle" /\ msg.user
    <2>1. ctl.req.kind \in {"setReport", "write"} /\ g.kind = ctl.req.kind
      BY <1>1, <1>6 DEF Control, OutData, AtWork
    <2>2. CASE ctl.req.kind = "setReport"
      <3>1. Kept' /\ reply' \in [0 .. ReplySize - 1 -> Int]
        BY <1>1, <1>6, <2>1, <2>2, ReportStored DEF FunctionWrite
      <3>2. Forms'
        BY <1>1, <1>2, <3>1 DEF Control, Forms
      <3>. QED BY <1>1, <1>6, <3>1, <3>2, WriteTakes
    <2>3. CASE ctl.req.kind = "write"
      <3>1. UNCHANGED <<reply, idxW>>
        BY <1>2, <2>1, <2>3
      <3>. QED BY <1>1, <1>3, <1>4, <1>6, <2>3, <3>1, WriteTakes
    <2>. QED BY <2>1, <2>2, <2>3
  <1>7. CASE ctl.stage # "idle" /\ ~msg.user
    <2>1. AtWork /\ AtWork' /\ UNCHANGED <<g, reply, idxW, written, msg>>
      BY <1>1, <1>7 DEF AtWork
    <2>2. ctl.req.kind # "setReport" /\ (Ready' <=> Ready)
      BY <1>1, <1>7, <2>1 DEF Control, OutData, Ready, IsPacket
    <2>3. OutData'
      BY <1>1, <1>7, <2>1, <2>2 DEF Control, OutData
    <2>4. Fresh' /\ InData' /\ AllGot' /\ TransferComplete'
      BY <1>1, <1>7 DEF Control, Fresh, InData, AllGot, TransferComplete
    <2>. QED BY <1>3, <1>4, <2>1, <2>2, <2>3, <2>4 DEF Control
  <1>. QED BY <1>5, <1>6, <1>7

\* usbFunctionWriteOut writes to the front of ReplyBuf, where there is nothing but the
\* number of a report.
LEMMA WriteOutServed ==
  ASSUME WellFormed, Types, Control, rx.tok = "out1", rx.ask <= 2, rx' = Free,
         WriteOut(rx.n, rx.ask, rx.tog), UNCHANGED host
  PROVE  Control'
  <1>1. /\ UNCHANGED <<tx, tog, msg, g, idxR, idxW, written, ctl, hid, made, last>>
        /\ rx'.tok = "none" /\ rx.ask \in Nat
        /\ reply' = reply \/ reply' = [i \in DOMAIN reply |-> IF i < rx.ask THEN 0 ELSE reply[i]]
    BY FreeBuffer DEF WriteOut, host, Types
  <1>2. /\ reply \in [0 .. ReplySize - 1 -> Int] /\ reply' \in [0 .. ReplySize - 1 -> Int]
        /\ \A p \in 0 .. ReplySize - 1 : reply'[p] = reply[p] \/ (p <= 1 /\ reply'[p] = 0)
    <2>1. reply \in [0 .. ReplySize - 1 -> Int]
      BY DEF Control, Forms
    <2>2. CASE reply' = reply
      BY <2>1, <2>2
    <2>3. CASE reply' = [i \in DOMAIN reply |-> IF i < rx.ask THEN 0 ELSE reply[i]]
      <3>1. reply' = [i \in 0 .. ReplySize - 1 |-> IF i < rx.ask THEN 0 ELSE reply[i]]
        BY <2>1, <2>3
      <3>2. \A p \in 0 .. ReplySize - 1 : p < rx.ask => p <= 1
        BY <1>1
      <3>. QED BY <2>1, <3>1, <3>2
    <2>. QED BY <1>1, <2>2, <2>3
  <1>3. AtWork' <=> AtWork
    BY <1>1 DEF AtWork
  <1>4. Want' = Want /\ InTx' = InTx /\ Moved' = Moved /\ IsPacket(tx)' = IsPacket(tx)
        /\ Pending' = Pending /\ (Ready' <=> Ready) /\ Fetched' = Fetched /\ Asking' = Asking
    BY <1>1, <1>3 DEF Want, InTx, Moved, IsPacket, Pending, Ready, Fetched, Asking
  <1>5. Forms' /\ Fresh' /\ AllGot' /\ OutData' /\ TransferComplete'
    BY <1>1, <1>2, <1>3, <1>4 DEF Control, Forms, Fresh, AllGot, OutData, TransferComplete
  <1>6. ReplySize \in Nat /\ Len(hid) \in Nat
    BY UsbAssumption DEF UsbAssumption, Control, Kept
  <1>7. InData'
    <2>. SUFFICES ASSUME AtWork, ctl.stage = "in" PROVE InData'
      BY <1>1, <1>3 DEF InData
    <2>1. ctl.req \in Requests /\ Size(ctl.req) \in Nat /\ Source /\ Moved \in Nat
      BY Sizes DEF Types, Begun, AtWork, Control, InData, Moved, InTx
    <2>2. ASSUME ctl.req.kind = "getReport", NEW i \in 1 .. Size(ctl.req) - Moved
          PROVE  reply'[msg.pos + i - 1] = Want[Moved + i]
      <3>1. /\ msg.pos \in Nat /\ msg.pos > Moved
            /\ msg.pos + (Size(ctl.req) - Moved) <= ReplySize
            /\ reply[msg.pos + i - 1] = Want[Moved + i]
        BY <2>1, <2>2 DEF Source
      <3>2. msg.pos + i - 1 \in 0 .. ReplySize - 1
        BY <1>6, <2>1, <3>1
      <3>3. CASE reply'[msg.pos + i - 1] = reply[msg.pos + i - 1]
        BY <3>1, <3>3
      <3>4. CASE msg.pos + i - 1 <= 1 /\ reply'[msg.pos + i - 1] = 0
        <4>1. Moved + i = 1
          BY <2>1, <3>1, <3>4
        <4>2. Want[1] = 0
          BY <2>2 DEF Want, Bytes
        <4>. QED BY <3>4, <4>1, <4>2
      <3>. QED BY <1>2, <3>2, <3>3, <3>4
    <2>3. Source'
      BY <1>1, <1>4, <2>1, <2>2 DEF Source
    <2>. QED BY <1>1, <1>4, <2>3 DEF Control, InData
  <1>8. Kept'
    <2>1. ASSUME NEW j \in 1 .. idxW - idxR PROVE reply'[idxR + 1 + j] = reply[idxR + 1 + j]
      <3>1. /\ idxR \in Nat /\ idxW \in Nat /\ idxR <= idxW /\ made \in 0 .. MaxHid
            /\ made = Len(hid) + Fetched + (idxW - idxR) + Asking
            /\ idxR <= Len(hid) + Fetched
        BY DEF Control, Kept
      <3>2. MaxHid + 2 <= ReplySize /\ MaxHid \in Nat
        BY UsbAssumption DEF UsbAssumption, WellFormed
      <3>3. Fetched \in Nat /\ Asking \in Nat
        BY Sizes DEF Fetched, Asking, AtWork, Types, Begun
      <3>4. idxR + 1 + j \in 0 .. ReplySize - 1 /\ ~(idxR + 1 + j <= 1)
        BY <1>6, <3>1, <3>2, <3>3
      <3>. QED BY <1>2, <3>4
    <2>. QED BY <1>1, <1>4, <2>1 DEF Control, Kept
  <1>. QED BY <1>5, <1>7, <1>8 DEF Control

\* usbPoll's first half.
LEMMA PollRxServed ==
  ASSUME WellFormed, Types, Served, PollRx
  PROVE  Control'
  <1>1. rx.tok \in {"none", "setup", "out0", "out1"} /\ ((rx.tok = "none") <=> (rx = Free))
    BY DEF Types
  <1>2. CASE rx = Free
    <2>1. UNCHANGED <<rx, tx, tog, msg, g, reply, idxR, idxW, written, ctl, hid, made, last>>
      BY <1>2 DEF PollRx, app, host
    <2>. QED BY <2>1, Bystander DEF Served
  <1>3. CASE rx.tok = "setup"
    BY <1>3, FreeBuffer, SetupServed DEF PollRx, Served
  <1>4. CASE rx.tok = "out0"
    BY <1>4, FreeBuffer, DataServed DEF PollRx, Served
  <1>5. CASE rx.tok = "out1"
    BY <1>5, FreeBuffer, WriteOutServed DEF PollRx, Served, Endpoint1, Quiet
  <1>. QED BY <1>1, <1>2, <1>3, <1>4, <1>5

\* What the host does with endpoint 1 leaves endpoint 0 alone.
LEMMA HostServed1 ==
  ASSUME Control, \/ \E a \in Answers1 : Out1Start(a)
                  \/ \E acked \in BOOLEAN : Out1Send(acked)
                  \/ In1Receive \/ In1Stall
  PROVE  Control'
  <1>1. UNCHANGED <<tx, tog, msg, g, reply, idxR, idxW, written, ctl, hid, made, last>>
    BY DEF Out1Start, Out1Send, In1Receive, In1Stall, driver, app
  <1>2. rx' = rx \/ (rx = Free /\ rx'.tok = "out1")
    <2>1. CASE \E acked \in BOOLEAN : Out1Send(acked)
      BY <2>1 DEF Out1Send
    <2>2. CASE In1Receive \/ In1Stall \/ \E a \in Answers1 : Out1Start(a)
      BY <2>2 DEF In1Receive, In1Stall, Out1Start, driver
    <2>. QED BY <2>1, <2>2
  <1>. QED BY <1>1, <1>2, FreeBuffer, Bystander
-----------------------------------------------------------------------------
(* The answers on endpoint 1 *)

LEMMA Endpoint1Kept ==
  ASSUME Endpoint1, UNCHANGED <<expect, done1, out1, tx1>>, in1'.busy = in1.busy,
         rx' = rx \/ (rx.tok # "out1" /\ rx'.tok # "out1")
  PROVE  Endpoint1'
  <1>1. New' => New /\ rx' = rx
    BY DEF New
  <1>2. IsPacket(tx1)' = IsPacket(tx1)
    BY DEF IsPacket
  <1>. QED BY <1>1, <1>2 DEF Endpoint1, Answering, Quiet

\* usbSetInterrupt: the answer of the packet that the host waits for.
LEMMA AnswerReady ==
  ASSUME KeepsToggles, IInv, Endpoint1, PollRx
  PROVE  Endpoint1'
  <1>1. /\ rx.tok \in {"none", "setup", "out0", "out1"} /\ ((rx.tok = "none") <=> (rx = Free))
        /\ UNCHANGED <<out1, in1>>
    BY DEF IInv, Types, PollRx, host
  <1>2. CASE rx = Free
    BY <1>1, <1>2, Endpoint1Kept DEF PollRx, app
  <1>3. CASE rx.tok = "out0"
    BY <1>1, <1>3, FreeBuffer, Endpoint1Kept DEF PollRx, ProcessData
  <1>4. CASE rx.tok = "setup"
    <2>1. /\ rx'.tok = "none" /\ ProcessSetup(rx.req, rx.ids) /\ UNCHANGED <<expect, done1>>
          /\ rx.req \in Requests
      BY <1>4, FreeBuffer DEF PollRx, ProcessSetup, DriverSetup, FunctionSetup, IInv, Types
    <2>2. rx.req.kind # "setConfiguration"
      BY <2>1, Kind
    <2>3. CASE rx.req.kind = "clearHalt"
      <3>1. ~in1.busy
        BY <1>4, <2>3 DEF IInv, In
      <3>. QED BY <1>1, <2>1, <3>1 DEF Endpoint1, Answering, Quiet
    <2>4. CASE rx.req.kind = "setHalt"
      <3>1. tx1' = Stall
        BY <2>1, <2>4 DEF ProcessSetup, DriverSetup, Standard
      <3>. QED BY <1>1, <2>1, <3>1 DEF Endpoint1, Answering, Quiet, New
    <2>5. CASE rx.req.kind \notin {"clearHalt", "setHalt"}
      <3>1. UNCHANGED tx1
        BY <2>1, <2>2, <2>5 DEF ProcessSetup, DriverSetup, FunctionSetup
      <3>. QED BY <1>1, <1>4, <2>1, <3>1, Endpoint1Kept
    <2>. QED BY <2>3, <2>4, <2>5
  <1>5. CASE rx.tok = "out1"
    <2>1. rx'.tok = "none" /\ WriteOut(rx.n, rx.ask, rx.tog) /\ rx.ask \in Nat /\ rx.n \in Nat
      BY <1>5, FreeBuffer DEF PollRx, IInv, Types
    <2>2. CASE New
      <3>1. /\ done1' = Append(done1, rx.n) /\ rx.n = Len(done1) + 1
            /\ IF rx.ask > 0 THEN SetInterrupt(rx.n, rx.ask) ELSE UNCHANGED <<tx1, tog1>>
        BY <1>5, <2>1, <2>2 DEF WriteOut, New, IInv, Out
      <3>2. Len(done1') = rx.n
        BY <2>1, <3>1 DEF IInv, Types
      <3>3. ASSUME in1.busy, out1.n = rx.n
            PROVE  tx1' = Stall \/ (IsPacket(tx1)' /\ tx1'.k = out1.n)
        <4>1. SetInterrupt(rx.n, rx.ask)
          BY <2>1, <2>2, <3>1, <3>3 DEF Endpoint1, Answering
        <4>2. CASE tx1 = Stall
          BY <4>1, <4>2 DEF SetInterrupt
        <4>3. CASE tx1 # Stall
          <5>1. tx1' = [pid |-> "data", tog |-> tog1', k |-> rx.n, n |-> rx.ask]
            BY <4>1, <4>3 DEF SetInterrupt
          <5>. QED BY <3>3, <5>1 DEF IsPacket
        <4>. QED BY <4>2, <4>3
      <3>. QED BY <1>1, <2>1, <3>2, <3>3 DEF Endpoint1, Answering, Quiet, New
    <2>3. CASE ~New
      <3>1. UNCHANGED <<done1, tx1>>
        BY <1>5, <2>1, <2>3 DEF WriteOut, New
      <3>2. IsPacket(tx1)' = IsPacket(tx1)
        BY <3>1 DEF IsPacket
      <3>. QED BY <1>1, <2>1, <3>1, <3>2 DEF Endpoint1, Answering, Quiet, New
    <2>. QED BY <2>2, <2>3
  <1>. QED BY <1>1, <1>2, <1>3, <1>4, <1>5

\* A new packet: the device has not got it, and what it has answered is of another.
LEMMA Out1StartAsks ==
  ASSUME WellFormed, IInv, Endpoint1, NEW a \in Answers1, Out1Start(a)
  PROVE  Endpoint1'
  <1>1. /\ ~out1.busy /\ UNCHANGED <<rx, expect, done1, tx1>>
        /\ out1' = [out1 EXCEPT !.n = @ + 1, !.busy = TRUE, !.ask = a]
        /\ in1' = [in1 EXCEPT !.busy = a > 0] /\ a \in Nat /\ a <= 2
    BY UsbAssumption DEF Out1Start, driver, app, UsbAssumption, WellFormed
  <1>2. /\ out1 \in [n : Nat, ask : Nat, tog : 0 .. 1, busy : BOOLEAN]
        /\ in1 \in [busy : BOOLEAN, tog : 0 .. 1, got : Nat] /\ Len(done1) \in Nat
    BY DEF IInv, Types
  <1>3. out1'.n = out1.n + 1 /\ out1'.ask = a /\ (in1'.busy <=> a > 0)
    BY <1>1, <1>2
  <1>4. /\ New => rx.n = out1.n
        /\ Len(done1) <= out1.n /\ out1.n \in Nat
    BY <1>1, <1>2 DEF IInv, Out, Taken
  <1>5. New' => New
    BY <1>1 DEF New
  <1>6. Answering'
    BY <1>1, <1>2, <1>3, <1>4, <1>5 DEF Answering
  <1>7. Quiet'
    BY <1>1, <1>3 DEF Endpoint1, Quiet
  <1>. QED BY <1>6, <1>7 DEF Endpoint1

LEMMA Out1SendAsks ==
  ASSUME IInv, Endpoint1, NEW acked \in BOOLEAN, Out1Send(acked)
  PROVE  Endpoint1'
  <1>1. /\ rx' = [tok |-> "out1", n |-> out1.n, ask |-> out1.ask, tog |-> out1.tog]
        /\ out1' = IF acked THEN [out1 EXCEPT !.busy = FALSE, !.tog = 1 - @] ELSE out1
        /\ UNCHANGED <<done1, tx1, in1>>
    BY DEF Out1Send, app
  <1>2. out1'.n = out1.n /\ out1'.ask = out1.ask /\ rx'.ask = out1.ask
    BY <1>1 DEF IInv, Types
  <1>. QED BY <1>1, <1>2 DEF Endpoint1, Answering, Quiet, IsPacket

LEMMA In1Ends ==
  ASSUME IInv, Endpoint1, In1Receive \/ In1Stall
  PROVE  Endpoint1'
  <1>1. UNCHANGED <<rx, out1>> /\ in1.busy
    BY DEF In1Receive, In1Stall, driver
  <1>2. ~in1'.busy
    <2>1. CASE In1Receive
      <3>1. tx1.tog = in1.tog
        BY <1>1, <2>1 DEF In1Receive, IInv, In
      <3>. QED BY <2>1, <3>1 DEF In1Receive
    <2>2. CASE In1Stall
      <3>1. in1' = [in1 EXCEPT !.busy = FALSE]
        BY <2>2 DEF In1Stall
      <3>. QED BY <3>1 DEF IInv, Types
    <2>. QED BY <2>1, <2>2
  <1>. QED BY <1>1, <1>2 DEF Endpoint1, Answering, Quiet
-----------------------------------------------------------------------------
(* The second invariant *)

LEMMA InitServed ==
  ASSUME WellFormed, Init
  PROVE  Served
  <1>1. /\ rx.tok = "none" /\ ctl.stage = "idle" /\ last.kind = "none" /\ hid = <<>>
        /\ made = 0 /\ idxR = 0 /\ idxW = 0 /\ ~in1.busy /\ out1.ask = 0
    BY FreeBuffer DEF Init
  <1>2. Forms
    <2>1. reply \in [0 .. ReplySize - 1 -> Int]
      BY DEF Init
    <2>. QED BY <1>1, <2>1 DEF Init, Forms
  <1>3. Kept
    <2>1. Fetched = 0 /\ Asking = 0 /\ MaxHid \in Nat
      BY <1>1, UsbAssumption DEF Fetched, Asking, AtWork, UsbAssumption
    <2>2. Len(hid) = 0 /\ hid \in Seq(Nat) /\ hid = Upto(0)
      BY <1>1 DEF Upto
    <2>. QED BY <1>1, <2>1, <2>2 DEF Kept
  <1>4. Fresh /\ InData /\ AllGot /\ OutData /\ TransferComplete
    BY <1>1 DEF Fresh, InData, AllGot, OutData, AtWork, TransferComplete
  <1>5. Endpoint1
    BY <1>1 DEF Endpoint1, Answering, Quiet
  <1>. QED BY <1>2, <1>3, <1>4, <1>5 DEF Served, Control

LEMMA NextServed ==
  ASSUME KeepsToggles, WellFormed, IInv, Served, [Next]_vars
  PROVE  Served'
  <1>. USE DEF Served
  <1>1. Types
    BY DEF IInv
  <1>2. CASE PollRx
    BY <1>1, <1>2, PollRxServed, AnswerReady
  <1>3. CASE PollTx
    <2>1. UNCHANGED <<rx, expect, done1, out1, in1, tx1>>
      BY <1>3 DEF PollTx, host
    <2>. QED BY <1>1, <1>3, <2>1, PollTxServed, Endpoint1Kept
  <1>4. CASE \E r \in Requests : SetupStage(r)
    <2>1. PICK r \in Requests : SetupStage(r)
      BY <1>4
    <2>2. UNCHANGED <<expect, done1, out1, in1, tx1>> /\ rx.tok = "none" /\ rx'.tok = "setup"
      BY <2>1, FreeBuffer DEF SetupStage, app
    <2>. QED BY <1>1, <2>1, <2>2, SetupStageServed, Endpoint1Kept
  <1>5. CASE DataOut
    <2>1. UNCHANGED <<expect, done1, out1, in1, tx1>> /\ rx.tok = "none" /\ rx'.tok = "out0"
      BY <1>5, FreeBuffer DEF DataOut, app
    <2>. QED BY <1>1, <1>5, <2>1, DataOutServed, Endpoint1Kept
  <1>6. CASE DataIn
    <2>1. UNCHANGED <<rx, expect, done1, out1, in1, tx1>>
      BY <1>6 DEF DataIn, app
    <2>. QED BY <1>1, <1>6, <2>1, DataInServed, Endpoint1Kept
  <1>7. CASE StatusOut \/ StatusIn
    <2>1. Control'
      BY <1>1, <1>7, StatusOutServed, StatusInServed
    <2>2. ctl.stage # "idle" /\ Complete
      BY <1>7 DEF StatusOut, StatusIn
    <2>3. ctl.req.kind # "setConfiguration" /\ ctl.req.kind # "clearHaltOut"
      BY <1>1, <2>2, Kind DEF Types, Begun
    <2>4. /\ UNCHANGED <<rx, expect, done1, out1, tx1>>
          /\ in1' = in1 \/ in1' = [in1 EXCEPT !.tog = 0]
      BY <2>2, <2>3 DEF Complete, app
    <2>5. in1'.busy = in1.busy
      BY <1>1, <2>4 DEF Types
    <2>. QED BY <2>1, <2>4, <2>5, Endpoint1Kept
  <1>8. CASE Abort
    <2>1. UNCHANGED <<rx, expect, done1, out1, in1, tx1>>
      BY <1>8 DEF Abort, driver, app
    <2>. QED BY <1>1, <1>8, <2>1, AbortServed, Endpoint1Kept
  <1>9. CASE \E a \in Answers1 : Out1Start(a)
    BY <1>9, HostServed1, Out1StartAsks
  <1>10. CASE \E acked \in BOOLEAN : Out1Send(acked)
    BY <1>10, HostServed1, Out1SendAsks
  <1>11. CASE In1Receive \/ In1Stall
    BY <1>11, HostServed1, In1Ends
  <1>12. CASE UNCHANGED vars
    <2>1. /\ UNCHANGED <<rx, tx, tog, msg, g, reply, idxR, idxW, written, ctl, hid, made, last>>
          /\ UNCHANGED <<expect, done1, out1, in1, tx1>>
      BY <1>12 DEF vars, driver, app, host
    <2>. QED BY <2>1, Bystander, Endpoint1Kept
  <1>. QED BY <1>2, <1>3, <1>4, <1>5, <1>6, <1>7, <1>8, <1>9, <1>10, <1>11, <1>12 DEF Next

\* With nothing left to do for the main loop, what the host waits for stands ready.
LEMMA ServedNotRefused ==
  ASSUME WellFormed, IInv, Served
  PROVE  NotRefused
  <1>. SUFFICES ASSUME rx = Free, IsPacket(tx) \/ msg.len = NoMsg PROVE NotRefused
    BY DEF NotRefused
  <1>1. rx.tok = "none" /\ Types /\ Pending = 0 /\ ~New
    BY FreeBuffer DEF IInv, Pending, New
  <1>2. ASSUME ctl.stage = "in" PROVE IsPacket(tx) /\ tx.tog = ctl.tog
    <2>1. AtWork /\ ctl.req \in Requests
      BY <1>1, <1>2 DEF AtWork, Types, Begun
    <2>2. /\ Moved <= Size(ctl.req) /\ Len(ctl.got) \in Nat /\ Size(ctl.req) \in Nat
          /\ IsPacket(tx) => tx.tog = ctl.tog
          /\ ~IsPacket(tx) => msg.len = Size(ctl.req) - Moved
      BY <1>2, <2>1, Sizes DEF Served, Control, InData
    <2>3. ~IsPacket(tx) => Moved \in Nat
      BY <2>2 DEF Moved, InTx
    <2>. QED BY <2>2, <2>3 DEF NoMsg
  <1>3. ASSUME ctl.stage = "statusIn" PROVE IsPacket(tx) /\ tx.tog = ctl.tog
    <2>1. AtWork /\ ctl.req \in Requests
      BY <1>1, <1>3 DEF AtWork, Types, Begun
    <2>2. /\ ctl.tog = 1 /\ ctl.sent \in 0 .. ctl.req.len /\ ~(ctl.sent < ctl.req.len)
          /\ msg.user => ctl.req.kind \in {"setReport", "write"}
          /\ msg.user => IF ctl.sent = 0 THEN TRUE ELSE Ready
          /\ ~msg.user => Ready
      BY <1>1, <1>3, <2>1 DEF Served, Control, OutData
    <2>3. ctl.req.len \in Nat /\ (msg.user => ctl.req.len > 0)
      BY <2>1, <2>2, Sizes DEF WellFormed
    <2>4. Ready
      BY <2>2, <2>3
    <2>5. msg.len \in {0, NoMsg} => (msg.len = NoMsg <=> msg.len # 0)
      BY DEF NoMsg
    <2>. QED BY <1>1, <2>2, <2>4, <2>5, Packets1 DEF Ready
  <1>4. ASSUME in1.busy, ~out1.busy
        PROVE  tx1 = Stall \/ (IsPacket(tx1) /\ tx1.tog = in1.tog /\ tx1.k = out1.n)
    <2>1. Len(done1) = out1.n
      BY <1>1, <1>4 DEF IInv, Out, Taken
    <2>2. tx1 = Stall \/ (IsPacket(tx1) /\ tx1.k = out1.n)
      BY <1>4, <2>1 DEF Served, Endpoint1, Answering
    <2>3. IsPacket(tx1) => tx1.tog = in1.tog
      BY <1>4 DEF IInv, In
    <2>. QED BY <2>2, <2>3
  <1>. QED BY <1>2, <1>3, <1>4 DEF NotRefused

\* usbPoll, the interrupt routine and the functions they call serve whatever the
\* host asks for, in any order and with any sizes: a transfer that ends has moved
\* each byte once, the answers of reports reach the HID user in their order, and with
\* nothing left to do for the main loop the packet the host waits for stands ready
\* with the toggle it takes.
THEOREM EverythingServed ==
  ASSUME KeepsToggles, WellFormed PROVE Spec => []TransfersServed
  <1>1. Init => IInv /\ Served
    BY InitIInv, InitServed
  <1>2. (IInv /\ Served) /\ [Next]_vars => (IInv /\ Served)'
    BY NextIInv, NextServed
  <1>3. IInv /\ Served => TransfersServed
    BY ServedNotRefused DEF Served, Control, Kept, HidInOrder, TransfersServed
  <1>. QED BY <1>1, <1>2, <1>3, PTL DEF Spec
=============================================================================
