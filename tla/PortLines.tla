----------------------------- MODULE PortLines -----------------------------
(***************************************************************************)
(* The firmware's register routines (USB2LPT6/usb2lpt6.c, out0 to out407,  *)
(* in0 to in407, the bit commands and epp_io): what the commands of the    *)
(* host do to the pins of the microcontroller, and to the lines of the     *)
(* plug.  A byte is the set of its bits that are 1.  The registers of the  *)
(* ports B and C are written in the coordinates of the control and the     *)
(* status register, which is what the shifts in the code are for.          *)
(*                                                                         *)
(* A routine writes the pins' registers one after the other; the operator  *)
(* Between has the states a line passes.  An EPP cycle takes several       *)
(* steps, and the peripheral moves between them.                           *)
(*                                                                         *)
(* The FIFO modes are EcpPort's.  ECP registers that are constants, the    *)
(* LED's pin and bit commands on EPP addresses are left out.               *)
(***************************************************************************)
EXTENDS Integers, Sequences

CONSTANTS
  Data,       \* bits of the data port that are looked at
  Status,     \* of the status port, of 3 .. 7
  Control,    \* of the control port, of 0 .. 3
  Modes,      \* modes the host selects (the upper three bits of ECR)
  Features,   \* values of the Feature byte
  Looks,      \* looks at WAIT before an EPP cycle times out (24)
  NoCycle,    \* no EPP cycle is under way
  LatchAtEnd, \* the peripheral takes a byte when the strobe rises again
  Careful,    \* the host avoids the cases under "Careful hosts"
  MaxOps      \* bound: commands of the host

\* Feature bits: open-collector simulation of data and control port, DirectIO.
OpenData == 0
OpenControl == 2
DirectIO == 6

\* An EPP cycle: what was asked, looks left, the registers before, and what the
\* peripheral took or gave.
Cycle ==
  [kind : {"address", "data"}, read : BOOLEAN, byte : SUBSET Data, left : 1 .. Looks,
   portB : SUBSET Control, ddrD : SUBSET Data, took : SUBSET SUBSET Data]

PortLinesAssumption ==
  /\ Data \subseteq 0 .. 7 /\ Status \subseteq 3 .. 7 /\ Control \subseteq 0 .. 3 /\ Control # {}
  /\ Modes \subseteq {0, 1, 4, 5, 7} /\ 0 \in Modes
  /\ Features \in {SUBSET F : F \in SUBSET {OpenData, OpenControl, DirectIO}}
  /\ Looks \in Nat \ {0} /\ MaxOps \in Nat
  /\ LatchAtEnd \in BOOLEAN /\ Careful \in BOOLEAN
  /\ NoCycle \notin Cycle

VARIABLES
  d,       \* the registers: see Device
  raw,     \* ghost: what the host has set past the emulation: see PromisesKept
  epp,     \* the EPP cycle under way, or NoCycle
  wait,    \* the peripheral's line WAIT (BSY) is high
  lost,    \* ghost: an EPP cycle went wrong since the time-out bit was cleared
  ops      \* commands so far (bounds the model)

vars == <<d, raw, epp, wait, lost, ops>>

\* Bit 4, the interrupt enable, has no effect; bit 5 is the direction.
DcrBits == Control \cup {4, 5}

Device ==
  [portD : SUBSET Data, ddrD : SUBSET Data,           \* PORTD, DDRD
   portC : SUBSET Status, ddrC : SUBSET Status,       \* PORTC, DDRC
   portB : SUBSET Control, ddrB : SUBSET Control,     \* PORTB, DDRB
   data : SUBSET Data,                                \* data_byte
   dcr : SUBSET DcrBits,                              \* DCR, bits 6 and 7 are 1
   mode : Modes, timeout : BOOLEAN,                   \* ECR_Bits, EppTimeOut
   feature : Features]

Input(r)  == 5 \in r.dcr
Direct(r) == DirectIO \in r.feature

Xor(a, b) == (a \ b) \cup (b \ a)
\* The bits that are inverted between register and plug: 0Bh and 80h.
InvControl == {0, 1, 3}
InvStatus  == {7}
-----------------------------------------------------------------------------
(* OUT *)

\* LptSetDataDir, its first write and both.
DataDirFirst(r) ==
  IF Input(r) THEN [r EXCEPT !.ddrD = {}] ELSE [r EXCEPT !.portD = r.data]

DrivenData(r) == IF OpenData \in r.feature THEN Data \ r.portD ELSE Data

\* Fault: direction before data.
DirThenData(r) ==
  IF Input(r) THEN [r EXCEPT !.portD = Data, !.ddrD = {}]
  ELSE [r EXCEPT !.ddrD = Data]

LptSetDataDir(r) ==
  IF Input(r) THEN [DataDirFirst(r) EXCEPT !.portD = Data]
  ELSE [DataDirFirst(r) EXCEPT !.ddrD = DrivenData(DataDirFirst(r))]

\* LptOn: the pins as after a reset; its writes to the ports C and B.
OnDirC(r) == [LptSetDataDir(r) EXCEPT !.ddrC = {}]
OnC(r)    == [OnDirC(r) EXCEPT !.portC = Status]
OnPortB(r) == [OnC(r) EXCEPT !.portB = Xor(r.dcr, InvControl) \cap Control]
LptOn(r)  == [OnPortB(r) EXCEPT !.ddrB = Control]

\* out0 outside the FIFO modes.
Out0Port(r, b) ==
  IF Input(r) THEN [r EXCEPT !.data = b] ELSE [r EXCEPT !.data = b, !.portD = b]
Out0(r, b) ==
  IF ~Input(r) /\ OpenData \in r.feature
  THEN [Out0Port(r, b) EXCEPT !.ddrD = Data \ b] ELSE Out0Port(r, b)

\* out1: lines that are inputs keep their pull-ups.
Out1(r, b) ==
  [r EXCEPT !.timeout = @ /\ ~(r.mode = 4 /\ 0 \notin b),
            !.portC = IF Direct(r) THEN b \cap Status
                      ELSE ((Xor(b, InvStatus) \cup (Status \ r.ddrC)) \cap Status)]

\* out2: the direction (fixed to output in the SPP modes), then the lines.
NewDcr(r, b) == IF r.mode \in {0, 2} THEN b \ {5} ELSE b
Out2Dcr(r, b) == [r EXCEPT !.dcr = NewDcr(r, b) \cap DcrBits]
Turned(r, b) == ~Direct(r) /\ (Input(r) # Input(Out2Dcr(r, b)))
Out2Dir(r, b) ==
  IF Turned(r, b) THEN LptSetDataDir(Out2Dcr(r, b)) ELSE Out2Dcr(r, b)
Out2Port(r, b) ==
  [Out2Dir(r, b) EXCEPT
     !.portB = (IF Direct(r) THEN NewDcr(r, b) ELSE Xor(NewDcr(r, b), InvControl)) \cap Control]
\* Fault: the simulation takes the register's bits for the line's.
Out2DrivesDcr(r, b) ==
  IF OpenControl \in r.feature
  THEN [Out2Port(r, b) EXCEPT !.ddrB = Control \ b]
  ELSE Out2Port(r, b)

Out2(r, b) ==
  IF OpenControl \in r.feature
  THEN [Out2Port(r, b) EXCEPT !.ddrB = Control \ Out2Port(r, b).portB]
  ELSE Out2Port(r, b)

\* out402, for mode m.
Out402First(r, m) == [r EXCEPT !.mode = m, !.timeout = m # 4]
Fixed(r, m) == m \in {0, 2} /\ Input(r)
Out402Dcr(r, m) == [Out402First(r, m) EXCEPT !.dcr = @ \ {5}]
Out402(r, m) ==
  IF Fixed(r, m) THEN LptSetDataDir(Out402Dcr(r, m)) ELSE Out402First(r, m)

\* out404, out405, out406: the back door.
Out404(r, b) == [r EXCEPT !.ddrD = b]
Out405Dir(r, b) == [r EXCEPT !.ddrC = b \cap Status]
Out405(r, b) ==
  IF Direct(r) THEN Out405Dir(r, b)
  ELSE [Out405Dir(r, b) EXCEPT !.portC = @ \cup (Status \ b)]
Out406(r, b) == [r EXCEPT !.ddrB = b \cap Control]

\* out407: the Feature byte, and the lines that are driven otherwise from now on.
Changed(r, b, f) == (f \in r.feature) # (f \in b)
FeatureData(r, b) ==
  LET q == [r EXCEPT !.feature = b] IN
  IF Changed(r, b, OpenData) /\ DirectIO \notin b /\ ~Input(r)
  THEN [q EXCEPT !.ddrD = DrivenData(q)] ELSE q
FeatureControl(r, b) ==
  LET q == FeatureData(r, b) IN
  IF Changed(r, b, OpenControl) /\ DirectIO \notin b
  THEN [q EXCEPT !.ddrB = IF OpenControl \in b THEN Control \ q.portB ELSE Control] ELSE q
LeavesDirect(r, b) == Direct(r) /\ DirectIO \notin b
Out407(r, b) ==
  IF LeavesDirect(r, b) THEN LptOn(FeatureControl(r, b)) ELSE FeatureControl(r, b)
-----------------------------------------------------------------------------
(* IN: p is what the pins read, as [D, S, C] *)

Pins == [D : SUBSET Data, S : SUBSET Status, C : SUBSET Control]

\* A pin that is an output reads as it is driven, the others as the peripheral has
\* it.
PinsOf(r) ==
  {p \in Pins : /\ p.D \cap r.ddrD = r.portD \cap r.ddrD
                /\ p.S \cap r.ddrC = r.portC \cap r.ddrC
                /\ p.C \cap r.ddrB = r.portB \cap r.ddrB}

In1(r, p) ==
  (IF Direct(r) THEN p.S ELSE Xor(p.S, InvStatus \cap Status)) \cup {1, 2}
    \cup (IF r.timeout THEN {0} ELSE {})

\* internal_in2, for the pins or the latch.
In2Of(r, c) ==
  (IF Direct(r) THEN c ELSE Xor(c, InvControl \cap Control)) \cup (r.dcr \cap {4, 5})

\* in404, in405, in406 and in407.
InBackDoor(r, reg) ==
  CASE reg = 12 -> r.ddrD [] reg = 13 -> r.ddrC [] reg = 14 -> r.ddrB
    [] reg = 15 -> r.feature

\* Fault: the latch variant reads the pins.
GetByteOfPins(r, p, reg, latch) ==
  CASE reg = 0  -> p.D [] reg = 1 -> In1(r, p) [] reg = 2 -> In2Of(r, p.C)
    [] OTHER    -> InBackDoor(r, reg)

\* getbyte; a latch instead of the pins with bit 3 of the bit address.
GetByte(r, p, reg, latch) ==
  CASE reg = 0  -> IF latch THEN r.portD ELSE p.D
    [] reg = 1  -> IF latch THEN r.portC \cup {0, 1, 2} ELSE In1(r, p)
    [] reg = 2  -> In2Of(r, IF latch THEN r.portB ELSE p.C)
    [] OTHER    -> InBackDoor(r, reg)

\* setbyte, and the OUT commands of ProcessInOut.
SetByte(r, reg, b) ==
  CASE reg = 0  -> Out0(r, b \cap Data)
    [] reg = 1  -> Out1(r, b)
    [] reg = 2  -> Out2(r, b)
    [] reg = 12 -> Out404(r, b \cap Data)
    [] reg = 13 -> Out405(r, b)
    [] reg = 14 -> Out406(r, b)
    [] reg = 15 -> Out407(r, b)

\* setbit, resbit, cplbit.
Combine(op, b, bit) ==
  CASE op = "set" -> b \cup {bit} [] op = "res" -> b \ {bit} [] op = "cpl" -> Xor(b, {bit})
BitCommand(r, p, op, reg, latch, bit) ==
  SetByte(r, reg, Combine(op, GetByte(r, p, reg, latch), bit))

Ops == {"set", "res", "cpl"}

Registers == {0, 1, 2, 12, 13, 14, 15}
BitsOf(reg) ==
  CASE reg \in {0, 12} -> Data [] reg = 1 -> Status \cup {0} [] reg = 13 -> Status
    [] reg = 2 -> Control \cup {5} [] reg = 14 -> Control
    [] reg = 15 -> UNION Features
BytesOf(reg) == SUBSET BitsOf(reg)

\* The states between two writes of one routine.
Between(r, reg, b) ==
  CASE reg = 0  -> {Out0Port(r, b)}
    [] reg = 2  -> {Out2Dcr(r, b), Out2Dir(r, b), Out2Port(r, b)} \cup
                   (IF Turned(r, b) THEN {DataDirFirst(Out2Dcr(r, b))} ELSE {})
    [] reg = 13 -> {Out405Dir(r, b)}
    [] reg = 15 -> {FeatureData(r, b), FeatureControl(r, b)} \cup
                   (IF LeavesDirect(r, b)
                    THEN LET q == FeatureControl(r, b) IN
                         {DataDirFirst(q), LptSetDataDir(q), OnDirC(q), OnC(q), OnPortB(q)}
                    ELSE {})
    [] OTHER    -> {}
-----------------------------------------------------------------------------
(* The device under commands of the host *)

\* main: initIOPorts, LptOn and out402 with the mode of the EEPROM.
Init ==
  /\ \E f \in Features, m \in Modes :
       /\ Careful => OpenControl \notin f
       /\ d = Out402(LptOn([portD |-> {}, ddrD |-> {}, portC |-> {}, ddrC |-> {},
                            portB |-> {}, ddrB |-> {}, data |-> {}, dcr |-> {2, 3} \cap Control,
                            mode |-> m, timeout |-> TRUE, feature |-> f]), m)
  /\ raw = {} /\ epp = NoCycle /\ wait = FALSE /\ lost = FALSE /\ ops = 0

Command ==
  /\ epp = NoCycle /\ ops < MaxOps
  /\ ops' = ops + 1
  /\ UNCHANGED <<epp, wait>>

\* What an OUT command makes good of what went past the emulation.
RawAfter(reg, b) ==
  CASE reg = 0 -> IF Input(d) THEN raw
                  ELSE raw \ ({"byte"} \cup IF OpenData \in d.feature THEN {"dir"} ELSE {})
    [] reg = 2 -> raw \ ((IF Turned(d, b) THEN {"byte", "dir"} ELSE {})
                           \cup IF OpenControl \in d.feature THEN {"control"} ELSE {})
    [] reg = 12 -> raw \cup {"dir"}
    [] reg = 14 -> raw \cup {"control"}
    [] reg = 15 -> IF LeavesDirect(d, b) THEN {}
                   ELSE raw \ ((IF Changed(d, b, OpenData) /\ DirectIO \notin b /\ ~Input(d)
                                 THEN {"dir"} ELSE {})
                                \cup IF Changed(d, b, OpenControl) /\ DirectIO \notin b
                                      THEN {"control"} ELSE {})
    [] OTHER -> raw

\* Careful hosts do not leave DirectIO with the control port's simulation on.
Allowed(reg, b) ==
  /\ Careful /\ reg = 15 => ~(LeavesDirect(d, b) /\ OpenControl \in b)

Write(reg, b) ==
  /\ Command /\ Allowed(reg, b)
  /\ d' = SetByte(d, reg, b)
  /\ raw' = RawAfter(reg, b)
  /\ lost' = (lost /\ ~(reg = 1 /\ d.mode = 4 /\ 0 \notin b))

Bit(op, reg, latch, bit) ==
  \E p \in PinsOf(d) : Write(reg, Combine(op, GetByte(d, p, reg, latch), bit))

SetMode(m) ==
  /\ Command
  /\ d' = Out402(d, m)
  /\ raw' = IF Fixed(d, m) THEN raw \ {"byte", "dir"} ELSE raw
  /\ lost' = (lost /\ m # 4)
-----------------------------------------------------------------------------
(* EPP cycles: out3, out4, in3, in4 and epp_io *)

\* The strobe of an address and of a data cycle; line 0 is WRITE.
Strobe(kind) == IF kind = "address" THEN 3 ELSE 1
WaitHigh == IF 7 \in d.ddrC THEN 7 \in d.portC ELSE wait

\* Careful hosts begin a cycle with all strobes high and driven, read in input
\* direction and leave BSY an input.
MayCycle(read) ==
  Careful =>
    /\ {0, 1, 3} \subseteq d.portB \cap d.ddrB /\ 7 \notin d.ddrC
    /\ read => d.ddrD = {}

Driven(r) == {i \in r.ddrD : i \in r.portD}
\* The byte goes to the lines at once, whatever becomes of the cycle.
Latched(read, b) == IF read THEN d ELSE [d EXCEPT !.portD = b]

\* Fault: WAIT is not looked at before the strobe falls.
EppStartAnyway(kind, read, b) ==
  /\ epp = NoCycle /\ ops < MaxOps /\ MayCycle(read)
  /\ ops' = ops + 1
  /\ raw' = IF read THEN raw ELSE raw \cup {"byte", "dir"}
  /\ epp' = [kind |-> kind, read |-> read, byte |-> b, left |-> Looks,
             portB |-> d.portB, ddrD |-> d.ddrD, took |-> {}]
  /\ d' = [Latched(read, b) EXCEPT
              !.portB = @ \ ({Strobe(kind)} \cup IF read THEN {} ELSE {0}),
              !.ddrD = IF read THEN @ ELSE Data]
  /\ UNCHANGED <<lost, wait>>

EppStart(kind, read, b) ==
  /\ epp = NoCycle /\ ops < MaxOps /\ MayCycle(read)
  /\ ops' = ops + 1
  /\ raw' = IF read THEN raw ELSE raw \cup {"byte", "dir"}
  /\ IF WaitHigh
     THEN /\ d' = [Latched(read, b) EXCEPT !.timeout = TRUE]
          /\ lost' = TRUE
          /\ UNCHANGED epp
     ELSE /\ epp' = [kind |-> kind, read |-> read, byte |-> b, left |-> Looks,
                     portB |-> d.portB, ddrD |-> d.ddrD, took |-> {}]
          /\ d' = [Latched(read, b) EXCEPT
                      !.portB = @ \ ({Strobe(kind)} \cup IF read THEN {} ELSE {0}),
                      !.ddrD = IF read THEN @ ELSE Data]
          /\ UNCHANGED lost
  /\ UNCHANGED wait

\* What the peripheral can read on the data lines.
OnLines(r) == {b \in SUBSET Data : b \cap r.ddrD = Driven(r)}

\* End of the cycle: direction, then strobes.  A late peripheral takes the byte
\* as the strobe rises.  A read cycle went well if the peripheral drove the lines.
Released == [d EXCEPT !.ddrD = epp.ddrD]
EppEnd(timeout) ==
  /\ \E late \in OnLines(Released) :
       LET took == IF LatchAtEnd /\ epp.took # {} /\ ~epp.read THEN {late} ELSE epp.took IN
       lost' = (lost \/ took # {epp.byte})
  /\ d' = [Released EXCEPT !.portB = epp.portB, !.timeout = @ \/ timeout]
  /\ epp' = NoCycle

EppLook ==
  /\ epp # NoCycle
  /\ IF WaitHigh \/ epp.left = 1
     THEN EppEnd(~WaitHigh)
     ELSE epp' = [epp EXCEPT !.left = @ - 1] /\ UNCHANGED <<d, lost>>
  /\ UNCHANGED <<raw, wait, ops>>

\* The peripheral takes or drives the byte and raises WAIT.
Answer ==
  /\ epp # NoCycle /\ ~wait
  /\ Strobe(epp.kind) \in d.ddrB \ d.portB
  /\ \E b \in IF epp.read THEN {epp.byte} ELSE OnLines(d) : epp' = [epp EXCEPT !.took = {b}]
  /\ wait' = TRUE
  /\ UNCHANGED <<d, raw, lost, ops>>

\* With the strobe high again it lowers WAIT.
Ready ==
  /\ wait /\ epp = NoCycle
  /\ wait' = FALSE
  /\ UNCHANGED <<d, raw, epp, lost, ops>>

Next ==
  \/ \E reg \in Registers : \E b \in BytesOf(reg) : Write(reg, b)
  \/ \E op \in Ops, reg \in {0, 1, 2, 15}, latch \in BOOLEAN : \E bit \in BitsOf(reg) :
       Bit(op, reg, latch, bit)
  \/ \E m \in Modes : SetMode(m)
  \/ \E kind \in {"address", "data"}, read \in BOOLEAN, b \in SUBSET Data : EppStart(kind, read, b)
  \/ EppLook \/ Answer \/ Ready

Spec == Init /\ [][Next]_vars
-----------------------------------------------------------------------------
TypeOK ==
  /\ d \in Device
  /\ raw \subseteq {"byte", "dir", "control"}
  /\ epp \in Cycle \cup {NoCycle}
  /\ wait \in BOOLEAN /\ lost \in BOOLEAN

\* What the registers promise about the lines, while the host has not gone past
\* the emulation by the back door or an EPP cycle ("raw") and DirectIO is off: the
\* direction and the bytes written decide the data and control lines, open
\* collectors never drive high, and lines of the status port that are inputs have
\* their pull-ups (api.en.htm, 205 to 234).
DataAsPromised ==
  /\ "dir" \notin raw => d.ddrD = IF Input(d) THEN {} ELSE DrivenData(d)
  /\ "byte" \notin raw => d.portD = IF Input(d) THEN Data ELSE d.data
ControlAsPromised ==
  /\ d.portB = Xor(d.dcr, InvControl) \cap Control
  /\ "control" \notin raw =>
       d.ddrB = IF OpenControl \in d.feature THEN Control \ d.portB ELSE Control
StatusPulled == Status \ d.ddrC \subseteq d.portC

\* Between two cycles the lines are what the registers and Feature promise, whichever
\* commands led there and in whatever order.
PromisesKept ==
  epp = NoCycle /\ ~Direct(d) => DataAsPromised /\ ControlAsPromised /\ StatusPulled

\* Between two writes of a routine no data line is driven to a level that it has
\* neither before nor after the command, so a change of direction shows nobody the
\* pull-ups' FFh or an old byte.  (A line that the simulation of open collectors
\* releases is driven high for one instruction.)
DrivenAs(i, q, r) == i \in q.ddrD /\ i \in r.ddrD /\ (i \in q.portD <=> i \in r.portD)
NoGlitch ==
  epp = NoCycle /\ OpenData \notin d.feature =>
    \A reg \in Registers : \A b \in BytesOf(reg) :
      \/ reg = 15 /\ OpenData \in b
      \/ \A q \in Between(d, reg, b) : \A i \in q.ddrD :
           DrivenAs(i, q, d) \/ DrivenAs(i, q, SetByte(d, reg, b))

\* "Stuck-safe operation (read from output port, never influence other bits)"
\* (api.en.htm:263), whatever holds the lines, for data and control port.
Extreme(r) == {[D |-> r.portD \cap r.ddrD, S |-> {}, C |-> r.portB \cap r.ddrB],
               [D |-> (Data \ r.ddrD) \cup r.portD, S |-> Status,
                C |-> (Control \ r.ddrB) \cup r.portB]}
StuckSafe ==
  epp = NoCycle =>
    \A op \in Ops, p \in Extreme(d), reg \in {0, 2} : \A bit \in BitsOf(reg) \ {5} :
      \/ reg = 0 /\ Input(d)
      \/ LET Read(r) == GetByte(r, p, reg, TRUE) IN
         Read(BitCommand(d, p, op, reg, TRUE, bit)) = Combine(op, Read(d), bit)

\* Whatever is written or flipped, and whatever the peripheral does to the lines, no
\* line of the adapter's is disturbed that the command is not about.
OutputsSafe == NoGlitch /\ StuckSafe

\* While the time-out bit is clear, every EPP cycle since it was cleared has been
\* answered, and the peripheral has the byte that was written.
TimeoutTells == d.mode = 4 /\ ~d.timeout /\ epp = NoCycle => ~lost
=============================================================================
