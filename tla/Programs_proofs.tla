--------------------------- MODULE Programs_proofs ---------------------------
(***************************************************************************)
(* Proofs about the programs on the host and the lines of the adapter they *)
(* drive: the register routines of the firmware under commands of any      *)
(* program (PortLines), the short-circuit test of the property sheet run   *)
(* on them (SelfTest), and its page Monitor, for any bits of the three     *)
(* ports.                                                                  *)
(***************************************************************************)
EXTENDS MCLptQueue, TLAPS, WellFoundedInduction

LEMMA FeatureSets ==
  /\ {} \in PortFeatures
  /\ \A b : b \subseteq UNION PortFeatures => b \in PortFeatures
  /\ \A b \in PortFeatures : b \subseteq {S!OpenData, S!OpenControl, S!DirectIO}
  BY ProgramsAssumption DEF S!PortLinesAssumption

LEMMA LineBits ==
  /\ Data \subseteq 0 .. 7 /\ Status \subseteq 3 .. 7 /\ ControlBits \subseteq 0 .. 3
  /\ 0 \in PortModes /\ PortModes \subseteq {0, 1, 4, 5, 7}
  /\ Looks \in Nat /\ Looks > 0
  BY ProgramsAssumption DEF S!PortLinesAssumption

\* The registers a routine writes stay registers.
LEMMA DirTyped ==
  ASSUME NEW r \in S!Device
  PROVE  S!LptSetDataDir(r) \in S!Device
  BY DEF S!Device, S!LptSetDataDir, S!DataDirFirst, S!DrivenData

LEMMA OnTyped ==
  ASSUME NEW r \in S!Device
  PROVE  S!LptOn(r) \in S!Device
  BY DirTyped DEF S!Device, S!LptOn, S!OnPortB, S!OnC, S!OnDirC

LEMMA Out0Typed ==
  ASSUME NEW r \in S!Device, NEW b \in SUBSET Data
  PROVE  S!Out0(r, b) \in S!Device
  BY DEF S!Device, S!Out0, S!Out0Port

LEMMA Out1Typed ==
  ASSUME NEW r \in S!Device, NEW b
  PROVE  S!Out1(r, b) \in S!Device
  BY DEF S!Device, S!Out1, S!Xor

LEMMA Out2DirTyped ==
  ASSUME NEW r \in S!Device, NEW b
  PROVE  S!Out2Dir(r, b) \in S!Device
  <1>1. S!Out2Dcr(r, b) \in S!Device
    BY DEF S!Out2Dcr, S!Device
  <1>. QED BY <1>1, DirTyped DEF S!Out2Dir

LEMMA Out2Typed ==
  ASSUME NEW r \in S!Device, NEW b
  PROVE  S!Out2(r, b) \in S!Device
  <1>1. S!Out2Port(r, b) \in S!Device
    BY Out2DirTyped DEF S!Out2Port, S!Device
  <1>. QED BY <1>1 DEF S!Out2, S!Device

LEMMA ModeTyped ==
  ASSUME NEW r \in S!Device, NEW m \in PortModes
  PROVE  S!Out402(r, m) \in S!Device
  <1>1. S!Out402First(r, m) \in S!Device
    BY DEF S!Out402First, S!Device
  <1>2. S!Out402Dcr(r, m) \in S!Device
    BY <1>1 DEF S!Out402Dcr, S!Device
  <1>. QED BY <1>1, <1>2, DirTyped DEF S!Out402

LEMMA BackDoorTyped ==
  ASSUME NEW r \in S!Device, NEW b
  PROVE  /\ b \subseteq Data => S!Out404(r, b) \in S!Device
         /\ S!Out405(r, b) \in S!Device /\ S!Out406(r, b) \in S!Device
  BY DEF S!Out404, S!Out405, S!Out405Dir, S!Out406, S!Device

LEMMA FeatureTyped ==
  ASSUME NEW r \in S!Device, NEW b \in PortFeatures
  PROVE  /\ S!FeatureData(r, b) \in S!Device /\ S!FeatureControl(r, b) \in S!Device
         /\ S!Out407(r, b) \in S!Device
  <1>1. S!FeatureData(r, b) \in S!Device
    BY DEF S!FeatureData, S!DrivenData, S!Device
  <1>2. S!FeatureControl(r, b) \in S!Device
    BY <1>1 DEF S!FeatureControl, S!Device
  <1>. QED BY <1>1, <1>2, OnTyped DEF S!Out407

LEMMA SetByteTyped ==
  ASSUME NEW r \in S!Device, NEW addr \in S!Registers, NEW b, addr = 15 => b \in PortFeatures
  PROVE  S!SetByte(r, addr, b) \in S!Device
  <1>1. b \cap Data \in SUBSET Data
    OBVIOUS
  <1>. QED BY <1>1, Out0Typed, Out1Typed, Out2Typed, BackDoorTyped, FeatureTyped DEF S!SetByte,
     S!Registers
-----------------------------------------------------------------------------
\* What the registers promise, for registers r and what went past the emulation.
Promised(r, beyond) ==
  ~S!Direct(r) =>
    /\ "dir" \notin beyond => r.ddrD = IF S!Input(r) THEN {} ELSE S!DrivenData(r)
    /\ "byte" \notin beyond => r.portD = IF S!Input(r) THEN Data ELSE r.data
    /\ r.portB = S!Xor(r.dcr, S!InvControl) \cap ControlBits
    /\ "control" \notin beyond =>
         r.ddrB = IF S!OpenControl \in r.feature THEN ControlBits \ r.portB ELSE ControlBits
    /\ Status \ r.ddrC \subseteq r.portC

\* LptOn makes good of everything, but for the simulation of the control port.
LEMMA OnPromised ==
  ASSUME NEW r \in S!Device, S!OpenControl \notin r.feature
  PROVE  Promised(S!LptOn(r), {})
  BY DEF Promised, S!LptOn, S!OnPortB, S!OnC, S!OnDirC, S!LptSetDataDir, S!DataDirFirst,
     S!DrivenData, S!Device,
     S!Direct, S!Input, S!InvControl, S!OpenControl, S!OpenData, S!DirectIO

LEMMA DataPromised ==
  ASSUME NEW b, regs \in S!Device, Promised(regs, past)
  PROVE  Promised(S!Out0(regs, b \cap Data), S!RawAfter(0, b))
  BY DEF Promised, S!RawAfter, S!Out0, S!Out0Port, S!DrivenData, S!Device, S!Direct, S!Input,
     S!OpenData, S!OpenControl

LEMMA StatusPromised ==
  ASSUME NEW b, regs \in S!Device, Promised(regs, past)
  PROVE  Promised(S!Out1(regs, b), S!RawAfter(1, b))
  BY DEF Promised, S!RawAfter, S!Out1, S!DrivenData, S!Device, S!Direct, S!Input


LEMMA ControlPromised ==
  ASSUME NEW b, regs \in S!Device, Promised(regs, past)
  PROVE  Promised(S!Out2(regs, b), S!RawAfter(2, b))
  <1>1. /\ S!Out2Dir(regs, b).dcr = S!NewDcr(regs, b) \cap S!DcrBits
        /\ S!Out2Dir(regs, b).portB = regs.portB /\ S!Out2Dir(regs, b).ddrB = regs.ddrB
        /\ S!Out2Dir(regs, b).portC = regs.portC /\ S!Out2Dir(regs, b).ddrC = regs.ddrC
        /\ S!Out2Dir(regs, b).feature = regs.feature /\ S!Out2Dir(regs, b).data = regs.data
    BY DEF S!Out2Dir, S!Out2Dcr, S!LptSetDataDir, S!DataDirFirst, S!Device
  <1>2. ASSUME ~S!Direct(regs)
        PROVE  /\ "dir" \notin S!RawAfter(2, b) =>
                    S!Out2Dir(regs, b).ddrD = IF S!Input(S!Out2Dir(regs, b)) THEN {}
                      ELSE S!DrivenData(S!Out2Dir(regs, b))
               /\ "byte" \notin S!RawAfter(2, b) =>
                    S!Out2Dir(regs, b).portD = IF S!Input(S!Out2Dir(regs, b)) THEN Data
                      ELSE S!Out2Dir(regs, b).data
    <2>1. CASE S!Turned(regs, b)
      BY <1>2, <2>1 DEF S!Out2Dir, S!Out2Dcr, S!LptSetDataDir, S!DataDirFirst, S!DrivenData,
         S!Device, S!Input
    <2>2. CASE ~S!Turned(regs, b)
      <3>1. S!Out2Dir(regs, b) = [regs EXCEPT !.dcr = S!NewDcr(regs, b) \cap S!DcrBits]
        BY <2>2 DEF S!Out2Dir, S!Out2Dcr
      <3>2. S!Input(S!Out2Dir(regs, b)) = S!Input(regs)
        BY <1>2, <2>2 DEF S!Out2Dir, S!Turned, S!Input
      <3>3. S!DrivenData(S!Out2Dir(regs, b)) = S!DrivenData(regs)
        BY <3>1 DEF S!DrivenData, S!Device
      <3>4. ("dir" \notin S!RawAfter(2, b) => "dir" \notin past)
              /\ ("byte" \notin S!RawAfter(2, b) => "byte" \notin past)
        BY <2>2 DEF S!RawAfter
      <3>. QED BY <1>2, <3>1, <3>2, <3>3, <3>4 DEF Promised, S!Device
    <2>. QED BY <2>1, <2>2
  <1>3. S!Out2Dir(regs, b) \in S!Device
    BY Out2DirTyped
  <1>4. /\ S!Out2(regs, b).portB = (IF S!Direct(regs) THEN S!NewDcr(regs, b) ELSE S!Xor(S!NewDcr(regs, b), S!InvControl)) \cap ControlBits
        /\ S!Out2(regs, b).ddrB = IF S!OpenControl \in regs.feature
             THEN ControlBits \ S!Out2(regs, b).portB ELSE regs.ddrB
        /\ \A f \in {"portD", "ddrD", "portC", "ddrC", "data", "dcr", "feature"} : S!Out2(regs, b)[f] = S!Out2Dir(regs, b)[f]
    BY <1>1, <1>3 DEF S!Out2, S!Out2Port, S!Device
  <1>5. ASSUME ~S!Direct(regs) PROVE S!Out2(regs, b).portB = S!Xor(S!Out2(regs, b).dcr, S!InvControl) \cap ControlBits
    BY <1>1, <1>4, <1>5 DEF S!Xor, S!DcrBits
  <1>6. "control" \notin S!RawAfter(2, b) /\ S!OpenControl \notin regs.feature => "control" \notin past
    BY DEF S!RawAfter
  <1>7. S!Direct(S!Out2(regs, b)) = S!Direct(regs)
    BY <1>1, <1>4 DEF S!Direct
  <1>. QED
    <2>1. SUFFICES ASSUME ~S!Direct(regs)
                   PROVE  Promised(S!Out2(regs, b), S!RawAfter(2, b))
      BY <1>7 DEF Promised
    <2>2. /\ S!Input(S!Out2(regs, b)) = S!Input(S!Out2Dir(regs, b))
               /\ S!DrivenData(S!Out2(regs, b)) = S!DrivenData(S!Out2Dir(regs, b))
      BY <1>4 DEF S!Input, S!DrivenData
    <2>. QED BY <1>1, <1>2, <1>4, <1>5, <1>6, <2>1, <2>2 DEF Promised

LEMMA BackDoorPromised ==
  ASSUME NEW b, regs \in S!Device, Promised(regs, past)
  PROVE  /\ Promised(S!Out404(regs, b), S!RawAfter(12, b))
         /\ Promised(S!Out405(regs, b), S!RawAfter(13, b))
         /\ Promised(S!Out406(regs, b), S!RawAfter(14, b))
  BY DEF Promised, S!RawAfter, S!Out404, S!Out405, S!Out405Dir, S!Out406, S!DrivenData, S!Device,
     S!Direct, S!Input

LEMMA FeaturePromised ==
  ASSUME NEW b \in PortFeatures, regs \in S!Device, Promised(regs, past), ~S!LeavesDirect(regs, b)
  PROVE  Promised(S!Out407(regs, b), S!RawAfter(15, b))
  <1>1. /\ S!FeatureData(regs, b) = [regs EXCEPT !.feature = b, !.ddrD = S!FeatureData(regs, b).ddrD]
        /\ S!FeatureData(regs, b).ddrD = IF S!Changed(regs, b, S!OpenData) /\ S!DirectIO \notin b
             /\ ~S!Input(regs)
                                    THEN IF S!OpenData \in b THEN Data \ regs.portD ELSE Data
                                    ELSE regs.ddrD
    BY DEF S!FeatureData, S!DrivenData, S!Device, S!Input
  <1>2. DEFINE q == S!FeatureData(regs, b)
  <1>3. q \in S!Device
    BY FeatureTyped
  <1>4. /\ S!Out407(regs, b) = [q EXCEPT !.ddrB = S!Out407(regs, b).ddrB]
        /\ S!Out407(regs, b).ddrB = IF S!Changed(regs, b, S!OpenControl) /\ S!DirectIO \notin b
                               THEN IF S!OpenControl \in b THEN ControlBits \ regs.portB ELSE ControlBits
                               ELSE regs.ddrB
    <2>1. q.portB = regs.portB /\ q.ddrB = regs.ddrB
      BY <1>1 DEF S!Device
    <2>. QED BY <1>3, <2>1 DEF S!Out407, S!FeatureControl, S!Device
  <1>5. /\ \A f \in {"portD", "portB", "portC", "ddrC", "data", "dcr"} : S!Out407(regs, b)[f] = regs[f]
        /\ S!Out407(regs, b).ddrD = q.ddrD /\ S!Out407(regs, b).feature = b
    BY <1>1, <1>3, <1>4 DEF S!Device
  <1>6. CASE S!DirectIO \in b
    BY <1>5, <1>6 DEF Promised, S!Direct
  <1>7. CASE S!DirectIO \notin b
    <2>1. ~S!Direct(regs)
      BY <1>7 DEF S!LeavesDirect
    <2>2. S!RawAfter(15, b) = past \ ((IF S!Changed(regs, b, S!OpenData) /\ ~S!Input(regs) THEN {"dir"} ELSE {})
                                \cup IF S!Changed(regs, b, S!OpenControl) THEN {"control"} ELSE {})
      BY <1>7 DEF S!RawAfter
    <2>3. "dir" \notin S!RawAfter(15, b) =>
            S!Out407(regs, b).ddrD = IF S!Input(S!Out407(regs, b)) THEN {}
              ELSE S!DrivenData(S!Out407(regs, b))
      BY <1>1, <1>5, <1>7, <2>1, <2>2 DEF Promised, S!DrivenData, S!Input, S!Changed
    <2>4. "control" \notin S!RawAfter(15, b) =>
            S!Out407(regs, b).ddrB = IF S!OpenControl \in b THEN ControlBits \ regs.portB ELSE ControlBits
      BY <1>4, <1>7, <2>1, <2>2 DEF Promised, S!Changed
    <2>5. "byte" \notin S!RawAfter(15, b) => "byte" \notin past
      BY <2>2
    <2>. QED BY <1>5, <2>1, <2>3, <2>4, <2>5 DEF Promised, S!Input
  <1>. QED BY <1>6, <1>7

LEMMA LeavingPromised ==
  ASSUME NEW b \in PortFeatures, regs \in S!Device, S!LeavesDirect(regs, b), S!OpenControl \notin b
  PROVE  Promised(S!Out407(regs, b), S!RawAfter(15, b))
  <1>1. S!FeatureControl(regs, b).feature = b
    BY DEF S!FeatureControl, S!FeatureData, S!Device
  <1>. QED BY <1>1, FeatureTyped, OnPromised DEF S!Out407, S!RawAfter

LEMMA ModePromised ==
  ASSUME NEW r \in S!Device, NEW m, NEW beyond, Promised(r, beyond)
  PROVE  Promised(S!Out402(r, m), IF S!Fixed(r, m) THEN beyond \ {"byte", "dir"} ELSE beyond)
  <1>1. CASE S!Fixed(r, m)
    <2>1. /\ \A f \in {"portB", "ddrB", "portC", "ddrC", "data", "feature"} : S!Out402(r, m)[f] = r[f]
          /\ S!Out402(r, m).dcr = r.dcr \ {5} /\ S!Out402(r, m).portD = r.data
          /\ S!Out402(r, m).ddrD = IF S!OpenData \in r.feature THEN Data \ r.data ELSE Data
      BY <1>1 DEF S!Fixed, S!Out402, S!Out402Dcr, S!Out402First, S!LptSetDataDir, S!DataDirFirst,
         S!DrivenData, S!Device, S!Input
    <2>2. S!Xor(r.dcr \ {5}, S!InvControl) \cap ControlBits = S!Xor(r.dcr, S!InvControl) \cap ControlBits
      BY LineBits DEF S!Xor
    <2>. QED BY <2>1, <2>2 DEF Promised, S!Direct, S!Input, S!DrivenData
  <1>2. CASE ~S!Fixed(r, m)
    BY <1>2 DEF S!Out402, S!Out402First, S!DrivenData, Promised, S!Device, S!Direct, S!Input
  <1>. QED BY <1>1, <1>2

LEMMA WritePromised ==
  ASSUME NEW addr \in S!Registers, NEW b, addr = 15 => b \in PortFeatures, Careful,
         regs \in S!Device, Promised(regs, past), S!Allowed(addr, b)
  PROVE  Promised(S!SetByte(regs, addr, b), S!RawAfter(addr, b))
  <1>1. CASE addr = 15
    BY <1>1, FeaturePromised, LeavingPromised DEF S!SetByte, S!Allowed
  <1>2. CASE addr # 15
    <2>1. S!RawAfter(0, b \cap Data) = S!RawAfter(0, b) /\ S!RawAfter(12, b \cap Data) = S!RawAfter(12, b)
      BY DEF S!RawAfter
    <2>. QED
      BY <1>2, <2>1, DataPromised, StatusPromised, ControlPromised, BackDoorPromised
      DEF S!SetByte, S!Registers
  <1>. QED BY <1>1, <1>2
-----------------------------------------------------------------------------
\* EPP cycles

\* The registers the cycle under way leaves behind.
Rest(r, e) == IF e = NoCycle THEN r ELSE [r EXCEPT !.portB = e.portB, !.ddrD = e.ddrD]

Regsave ==
  [data : SUBSET Data, status : SUBSET Int, control : SUBSET Int, mode : PortModes,
   dirD : SUBSET Data, dirC : SUBSET Status, dirB : SUBSET ControlBits, feature : PortFeatures]
Tests ==
  [at : {"patterns", "pullups", "leds", "restore", "done"}, line : S!Lines, high : BOOLEAN,
   fail : SUBSET Int, saved : Regsave]

Everything == {"byte", "dir", "control"}

\* While a test runs nothing else does, and it has set mode and features.
TestRuns ==
  test # NoTest =>
    /\ test \in Tests /\ past = Everything /\ cycle = NoCycle
    /\ test.at # "done" => regs.feature = {} /\ regs.mode = 0

LineTypes == S!TypeOK /\ before \in S!Device /\ TestRuns

LEMMA CycleIsCycle ==
  ASSUME NEW sort \in {"address", "data"}, NEW read \in BOOLEAN, NEW b \in SUBSET Data, regs \in S!Device
  PROVE  [kind |-> sort, read |-> read, byte |-> b, left |-> Looks,
          portB |-> regs.portB, ddrD |-> regs.ddrD, took |-> {}] \in S!Cycle
  <1>1. Looks \in 1 .. Looks
    BY LineBits
  <1>. QED BY <1>1 DEF S!Cycle, S!Device

LEMMA LatchedTyped ==
  ASSUME NEW read \in BOOLEAN, NEW b \in SUBSET Data, regs \in S!Device
  PROVE  S!Latched(read, b) \in S!Device
  BY DEF S!Latched, S!Device

LEMMA InitDevice ==
  ASSUME NEW f \in PortFeatures, NEW m \in PortModes, NEW r,
         r = [portD |-> {}, ddrD |-> {}, portC |-> {}, ddrC |-> {},
              portB |-> {}, ddrB |-> {}, data |-> {}, dcr |-> {2, 3} \cap ControlBits,
              mode |-> m, timeout |-> TRUE, feature |-> f]
  PROVE  r \in S!Device /\ S!LptOn(r).dcr = {2, 3} \cap ControlBits /\ S!LptOn(r).feature = f
  <1>1. r \in S!Device
    BY DEF S!Device, S!DcrBits
  <1>. QED BY <1>1 DEF S!Device, S!LptOn, S!OnPortB, S!OnC, S!OnDirC, S!LptSetDataDir,
     S!DataDirFirst, S!Input

LEMMA InitLines ==
  S!Init => regs \in S!Device /\ S!TypeOK /\ cycle = NoCycle
  <1> SUFFICES ASSUME S!Init PROVE regs \in S!Device /\ S!TypeOK /\ cycle = NoCycle
    OBVIOUS
  <1>1. regs \in S!Device
    BY InitDevice, OnTyped, ModeTyped DEF S!Init
  <1>. QED BY <1>1 DEF S!Init, S!TypeOK

\* A command with bytes the host sends, or with one bit of a register changed.
LEMMA BytesAreFeatures ==
  ASSUME NEW addr \in S!Registers, NEW b \in S!BytesOf(addr)
  PROVE  addr = 15 => b \in PortFeatures
  BY FeatureSets DEF S!BytesOf, S!BitsOf

LEMMA BitsAreFeatures ==
  ASSUME regs \in S!Device, NEW op \in S!Ops, NEW addr \in {0, 1, 2, 15}, NEW latch, NEW bit \in S!BitsOf(addr), NEW p
  PROVE  addr \in S!Registers /\ (addr = 15 => S!Combine(op, S!GetByte(regs, p, addr, latch), bit) \in PortFeatures)
  <1>1. ASSUME addr = 15 PROVE regs.feature \in PortFeatures
                 /\ regs.feature \subseteq UNION PortFeatures /\ bit \in UNION PortFeatures
    BY <1>1 DEF S!Device, S!BitsOf
  <1>2. ASSUME addr = 15 PROVE S!Combine(op, regs.feature, bit) \subseteq UNION PortFeatures
    BY <1>1, <1>2 DEF S!Combine, S!Ops, S!Xor
  <1>3. ASSUME addr = 15 PROVE S!GetByte(regs, p, addr, latch) = regs.feature
    BY <1>3 DEF S!GetByte, S!InBackDoor
  <1>. QED BY <1>2, <1>3, FeatureSets DEF S!Registers

\* What a Write is, wherever it comes from.
AnyWrite == \E addr \in S!Registers : \E b : (addr = 15 => b \in PortFeatures) /\ S!Write(addr, b)
LEMMA WritesAre ==
  ASSUME regs \in S!Device
  PROVE  /\ \A addr \in S!Registers : \A b \in S!BytesOf(addr) : S!Write(addr, b) => AnyWrite
         /\ \A op \in S!Ops, addr \in {0, 1, 2, 15}, latch \in BOOLEAN : \A bit \in S!BitsOf(addr) :
              S!Bit(op, addr, latch, bit) => AnyWrite
  BY BytesAreFeatures, BitsAreFeatures DEF AnyWrite, S!Bit

LEMMA NextIs ==
  ASSUME regs \in S!Device, S!Next
  PROVE  \/ AnyWrite
         \/ \E m \in PortModes : S!SetMode(m)
         \/ \E sort \in {"address", "data"}, read \in BOOLEAN, b \in SUBSET Data : S!EppStart(sort, read, b)
         \/ S!EppLook \/ S!Answer \/ S!Ready
  BY WritesAre DEF S!Next

LEMMA WriteTyped ==
  ASSUME S!TypeOK, AnyWrite
  PROVE  S!TypeOK'
  <1>1. PICK addr \in S!Registers : \E b : (addr = 15 => b \in PortFeatures) /\ S!Write(addr, b)
    BY DEF AnyWrite
  <1>0. PICK b : (addr = 15 => b \in PortFeatures) /\ S!Write(addr, b)
    BY <1>1
  <1>2. regs' \in S!Device
    BY <1>0, SetByteTyped DEF S!Write, S!TypeOK
  <1>3. S!RawAfter(addr, b) \subseteq Everything
    BY <1>0 DEF S!RawAfter, Everything, S!TypeOK
  <1>. QED BY <1>0, <1>2, <1>3 DEF S!Write, S!Command, S!TypeOK, Everything

LEMMA ModeStepTyped ==
  ASSUME S!TypeOK, NEW m \in PortModes, S!SetMode(m)
  PROVE  S!TypeOK'
  BY ModeTyped DEF S!SetMode, S!Command, S!TypeOK

LEMMA EppStartTyped ==
  ASSUME S!TypeOK, NEW sort \in {"address", "data"}, NEW read \in BOOLEAN, NEW b \in SUBSET Data,
         S!EppStart(sort, read, b)
  PROVE  S!TypeOK'
  <1>1. S!Latched(read, b) \in S!Device
    BY LatchedTyped DEF S!TypeOK
  <1>2. CASE S!WaitHigh
    <2>1. regs' \in S!Device
      BY <1>1, <1>2 DEF S!EppStart, S!Device
    <2>. QED BY <1>2, <2>1 DEF S!EppStart, S!TypeOK
  <1>3. CASE ~S!WaitHigh
    <2>1. regs' \in S!Device
      BY <1>1, <1>3 DEF S!EppStart, S!Device
    <2>2. cycle' \in S!Cycle
      BY <1>3, CycleIsCycle DEF S!EppStart, S!TypeOK
    <2>. QED BY <1>3, <2>1, <2>2 DEF S!EppStart, S!TypeOK
  <1>. QED BY <1>2, <1>3

LEMMA EppLookTyped ==
  ASSUME S!TypeOK, S!EppLook
  PROVE  S!TypeOK'
  <1>1. cycle \in S!Cycle
    BY DEF S!EppLook, S!TypeOK
  <1>2. CASE S!WaitHigh \/ cycle.left = 1
    <2>1. S!EppEnd(~S!WaitHigh)
      BY <1>2 DEF S!EppLook
    <2>2. regs' \in S!Device /\ failed' \in BOOLEAN /\ cycle' = NoCycle
      BY <1>1, <2>1 DEF S!EppEnd, S!Released, S!TypeOK, S!Device, S!Cycle
    <2>. QED BY <2>2 DEF S!EppLook, S!TypeOK
  <1>3. CASE ~(S!WaitHigh \/ cycle.left = 1)
    <2>1. cycle' \in S!Cycle
      BY <1>1, <1>3, LineBits DEF S!EppLook, S!Cycle
    <2>. QED BY <1>3, <2>1 DEF S!EppLook, S!TypeOK
  <1>. QED BY <1>2, <1>3

LEMMA PeripheralTyped ==
  ASSUME S!TypeOK, S!Answer \/ S!Ready
  PROVE  S!TypeOK'
  <1>1. CASE S!Answer
    <2>1. cycle \in S!Cycle
      BY <1>1 DEF S!Answer, S!TypeOK
    <2>2. PICK b \in IF cycle.read THEN {cycle.byte}
                 ELSE S!OnLines(regs) : cycle' = [cycle EXCEPT !.took = {b}]
      BY <1>1 DEF S!Answer
    <2>3. b \in SUBSET Data
      BY <2>1, <2>2 DEF S!OnLines, S!Cycle
    <2>4. cycle' \in S!Cycle
      BY <2>1, <2>2, <2>3 DEF S!Cycle
    <2>. QED BY <1>1, <2>4 DEF S!Answer, S!TypeOK
  <1>2. CASE S!Ready
    BY <1>2 DEF S!Ready, S!TypeOK
  <1>. QED BY <1>1, <1>2

LEMMA NextLinesTyped ==
  S!TypeOK /\ [S!Next]_(S!vars) => S!TypeOK'
  <1> SUFFICES ASSUME S!TypeOK, [S!Next]_(S!vars) PROVE S!TypeOK'
    OBVIOUS
  <1>1. CASE S!Next
    BY <1>1, NextIs, WriteTyped, ModeStepTyped, EppStartTyped, EppLookTyped, PeripheralTyped
       DEF S!TypeOK
  <1>2. CASE UNCHANGED S!vars
    BY <1>2 DEF S!vars, S!TypeOK
  <1>. QED BY <1>1, <1>2

-----------------------------------------------------------------------------
\* In the SPP modes the direction is output.
Spp(r) == r.mode = 0 => ~S!Input(r)

LEMMA KeepsModeAndDirection ==
  ASSUME NEW r \in S!Device, NEW addr \in S!Registers \ {2}, NEW b, addr = 15 => b \in PortFeatures
  PROVE  S!SetByte(r, addr, b).mode = r.mode /\ S!SetByte(r, addr, b).dcr = r.dcr
  <1>1. S!LptOn(S!FeatureControl(r, b)).mode = S!FeatureControl(r, b).mode
        /\ S!LptOn(S!FeatureControl(r, b)).dcr = S!FeatureControl(r, b).dcr
    BY DEF S!LptOn, S!OnPortB, S!OnC, S!OnDirC, S!LptSetDataDir, S!DataDirFirst, S!FeatureControl,
       S!FeatureData, S!Device
  <1>2. S!FeatureControl(r, b).mode = r.mode /\ S!FeatureControl(r, b).dcr = r.dcr
    BY DEF S!FeatureControl, S!FeatureData, S!Device
  <1>3. S!Out0(r, b \cap Data).mode = r.mode /\ S!Out0(r, b \cap Data).dcr = r.dcr
    BY DEF S!Out0, S!Out0Port, S!Device
  <1>4. S!Out1(r, b).mode = r.mode /\ S!Out1(r, b).dcr = r.dcr
    BY DEF S!Out1, S!Device
  <1>5. /\ S!Out404(r, b \cap Data).mode = r.mode /\ S!Out404(r, b \cap Data).dcr = r.dcr
        /\ S!Out405(r, b).mode = r.mode /\ S!Out405(r, b).dcr = r.dcr
        /\ S!Out406(r, b).mode = r.mode /\ S!Out406(r, b).dcr = r.dcr
    BY DEF S!Out404, S!Out405, S!Out405Dir, S!Out406, S!Device
  <1>. QED BY <1>1, <1>2, <1>3, <1>4, <1>5 DEF S!SetByte, S!Registers, S!Out407

LEMMA ControlKeepsMode ==
  ASSUME NEW r \in S!Device, NEW b
  PROVE  S!Out2(r, b).mode = r.mode /\ S!Out2(r, b).dcr = S!NewDcr(r, b) \cap S!DcrBits
  <1>1. S!Out2Dir(r, b).mode = r.mode /\ S!Out2Dir(r, b).dcr = S!NewDcr(r, b) \cap S!DcrBits
    BY DEF S!Out2Dir, S!Out2Dcr, S!LptSetDataDir, S!DataDirFirst, S!Device
  <1>2. S!Out2Port(r, b).mode = r.mode /\ S!Out2Port(r, b).dcr = S!NewDcr(r, b) \cap S!DcrBits
          /\ S!Out2Port(r, b) \in S!Device
    BY <1>1, Out2DirTyped DEF S!Out2Port, S!Device
  <1>. QED BY <1>2 DEF S!Out2, S!Device

LEMMA SppKept ==
  ASSUME NEW r \in S!Device, NEW addr \in S!Registers, NEW b, addr = 15 => b \in PortFeatures, Spp(r)
  PROVE  Spp(S!SetByte(r, addr, b))
  <1>1. CASE addr = 2
    BY <1>1, ControlKeepsMode DEF Spp, S!Input, S!SetByte, S!NewDcr
  <1>2. CASE addr # 2
    BY <1>2, KeepsModeAndDirection DEF Spp, S!Input
  <1>. QED BY <1>1, <1>2

LEMMA ModeKeepsSpp ==
  ASSUME NEW r \in S!Device, NEW m \in PortModes
  PROVE  /\ Spp(S!Out402(r, m))
         /\ S!Out402(r, m).mode = m /\ S!Out402(r, m).timeout = (m # 4)
  <1>1. S!Out402Dcr(r, m) \in S!Device /\ S!Out402First(r, m) \in S!Device
    BY DEF S!Out402Dcr, S!Out402First, S!Device
  <1>. QED
    BY <1>1 DEF S!Out402, S!Out402Dcr, S!Out402First, S!LptSetDataDir, S!DataDirFirst, S!Fixed,
       Spp, S!Input, S!Device

-----------------------------------------------------------------------------
\* Promises, over commands and cycles.
PromiseInv ==
  /\ S!TypeOK /\ Spp(regs)
  /\ Careful => Promised(Rest(regs, cycle), past)

LEMMA InitPromise ==
  S!Init => PromiseInv
  <1> SUFFICES ASSUME S!Init PROVE PromiseInv
    OBVIOUS
  <1>1. PICK f \in PortFeatures, m \in PortModes :
          /\ Careful => S!OpenControl \notin f
          /\ regs = S!Out402(S!LptOn([portD |-> {}, ddrD |-> {}, portC |-> {}, ddrC |-> {},
                            portB |-> {}, ddrB |-> {}, data |-> {}, dcr |-> {2, 3} \cap ControlBits,
                            mode |-> m, timeout |-> TRUE, feature |-> f]), m)
    BY DEF S!Init
  <1> DEFINE r == [portD |-> {}, ddrD |-> {}, portC |-> {}, ddrC |-> {},
                   portB |-> {}, ddrB |-> {}, data |-> {}, dcr |-> {2, 3} \cap ControlBits,
                   mode |-> m, timeout |-> TRUE, feature |-> f]
  <1>2. r \in S!Device /\ S!LptOn(r) \in S!Device
    BY InitDevice, OnTyped
  <1>3. regs = S!Out402(S!LptOn(r), m) /\ r.feature = f
    BY <1>1
  <1> HIDE DEF r
  <1>4. Spp(regs)
    BY <1>2, <1>3, ModeKeepsSpp
  <1>5. ASSUME Careful PROVE Promised(regs, {})
    <2>1. Promised(S!LptOn(r), {})
      BY <1>1, <1>2, <1>3, <1>5, OnPromised
    <2>2. Promised(S!Out402(S!LptOn(r), m), IF S!Fixed(S!LptOn(r), m) THEN {} \ {"byte", "dir"} ELSE {})
      <3>1. ASSUME NEW q \in S!Device, Promised(q, {})
            PROVE  Promised(S!Out402(q, m), IF S!Fixed(q, m) THEN {} \ {"byte", "dir"} ELSE {})
        BY <3>1, ModePromised
      <3>. QED BY <1>2, <2>1, <3>1
    <2>. QED BY <1>3, <2>2
  <1>. QED BY <1>4, <1>5, InitLines DEF PromiseInv, Rest, S!Init

LEMMA StartPromise ==
  ASSUME PromiseInv, NEW sort \in {"address", "data"}, NEW read \in BOOLEAN, NEW b \in SUBSET Data,
         S!EppStart(sort, read, b)
  PROVE  Spp(regs') /\ (Careful => Promised(Rest(regs', cycle'), past'))
  <1>1. regs \in S!Device /\ S!Latched(read, b) \in S!Device /\ cycle = NoCycle
    BY LatchedTyped DEF PromiseInv, S!TypeOK, S!EppStart
  <1>2. regs'.mode = regs.mode /\ regs'.dcr = regs.dcr
    BY <1>1 DEF S!EppStart, S!Latched, S!Device
  <1>3. past' = IF read THEN past ELSE past \cup {"byte", "dir"}
    BY DEF S!EppStart
  <1>4. /\ \A f \in {"portB", "ddrB", "portC", "ddrC", "data", "dcr", "feature"} : Rest(regs', cycle')[f] = regs[f]
        /\ read => Rest(regs', cycle').portD = regs.portD
        /\ read => Rest(regs', cycle').ddrD = regs.ddrD
    <2>1. CASE S!WaitHigh
      BY <1>1, <2>1 DEF S!EppStart, Rest, S!Latched, S!Device
    <2>2. CASE ~S!WaitHigh
      <3>1. cycle' = [kind |-> sort, read |-> read, byte |-> b, left |-> Looks,
                    portB |-> regs.portB, ddrD |-> regs.ddrD, took |-> {}]
        BY <2>2 DEF S!EppStart
      <3>2. cycle' # NoCycle
        BY <1>1, <3>1, CycleIsCycle, ProgramsAssumption DEF S!PortLinesAssumption
      <3>3. regs' = [S!Latched(read, b) EXCEPT
                      !.portB = @ \ ({S!Strobe(sort)} \cup IF read THEN {} ELSE {0}),
                      !.ddrD = IF read THEN @ ELSE Data]
        BY <2>2 DEF S!EppStart
      <3>. QED BY <1>1, <3>1, <3>2, <3>3 DEF Rest, S!Latched, S!Device
    <2>. QED BY <2>1, <2>2
  <1>5. ASSUME Careful PROVE Promised(Rest(regs', cycle'), past')
    BY <1>1, <1>3, <1>4, <1>5 DEF PromiseInv, Promised, Rest, S!Direct, S!Input, S!DrivenData
  <1>. QED BY <1>1, <1>2, <1>5 DEF Spp, S!Input, PromiseInv

LEMMA LookPromise ==
  ASSUME PromiseInv, S!EppLook
  PROVE  Spp(regs') /\ (Careful => Promised(Rest(regs', cycle'), past'))
  <1>1. cycle \in S!Cycle /\ cycle # NoCycle /\ regs \in S!Device /\ past' = past
    BY DEF S!EppLook, PromiseInv, S!TypeOK
  <1>2. CASE S!WaitHigh \/ cycle.left = 1
    <2>1. S!EppEnd(~S!WaitHigh)
      BY <1>2 DEF S!EppLook
    <2>2. cycle' = NoCycle /\ regs' = [S!Released EXCEPT !.portB = cycle.portB, !.timeout = @ \/ ~S!WaitHigh]
      BY <2>1 DEF S!EppEnd
    <2>3. /\ \A f \in {"portD", "ddrD", "portB", "ddrB", "portC", "ddrC", "data", "dcr", "feature", "mode"} :
               regs'[f] = Rest(regs, cycle)[f]
          /\ regs'.mode = regs.mode /\ regs'.dcr = regs.dcr
      BY <1>1, <2>2 DEF S!Released, Rest, S!Device, S!Cycle
    <2>. QED BY <2>2, <2>3, <1>1 DEF PromiseInv, Promised, Rest, S!Direct, S!Input, S!DrivenData,
       Spp
  <1>3. CASE ~(S!WaitHigh \/ cycle.left = 1)
    <2>1. cycle' = [cycle EXCEPT !.left = @ - 1] /\ regs' = regs
      BY <1>3 DEF S!EppLook
    <2>2. cycle'.portB = cycle.portB /\ cycle'.ddrD = cycle.ddrD /\ cycle' \in S!Cycle
      BY <1>1, <1>3, <2>1, LineBits DEF S!Cycle
    <2>3. cycle' # NoCycle
      BY <2>2, ProgramsAssumption DEF S!PortLinesAssumption
    <2>. QED BY <1>1, <2>1, <2>2, <2>3 DEF PromiseInv, Rest
  <1>. QED BY <1>2, <1>3

LEMMA PeripheralPromise ==
  ASSUME PromiseInv, S!Answer \/ S!Ready
  PROVE  Spp(regs') /\ (Careful => Promised(Rest(regs', cycle'), past'))
  <1>1. CASE S!Answer
    <2>1. cycle \in S!Cycle /\ cycle # NoCycle /\ regs' = regs /\ past' = past
      BY <1>1 DEF S!Answer, PromiseInv, S!TypeOK
    <2>2. PICK b : cycle' = [cycle EXCEPT !.took = {b}]
      BY <1>1 DEF S!Answer
    <2>3. cycle'.portB = cycle.portB /\ cycle'.ddrD = cycle.ddrD
      BY <2>1, <2>2 DEF S!Cycle
    <2>4. cycle' # NoCycle
      <3>1. S!TypeOK'
        BY PeripheralTyped DEF PromiseInv
      <3>2. cycle'.kind = cycle.kind /\ cycle' = [cycle EXCEPT !.took = {b}]
        BY <2>1, <2>2 DEF S!Cycle
      <3>3. b \in SUBSET Data
        <4>1. \E c \in IF cycle.read THEN {cycle.byte}
                ELSE S!OnLines(regs) : cycle' = [cycle EXCEPT !.took = {c}]
          BY <1>1 DEF S!Answer
        <4>2. PICK c \in SUBSET Data : cycle' = [cycle EXCEPT !.took = {c}]
          BY <2>1, <4>1 DEF S!OnLines, S!Cycle
        <4>. QED BY <2>1, <2>2, <4>2 DEF S!Cycle
      <3>4. cycle' \in S!Cycle
        BY <2>1, <2>2, <3>3 DEF S!Cycle
      <3>. QED BY <3>4, ProgramsAssumption DEF S!PortLinesAssumption
    <2>. QED BY <2>1, <2>3, <2>4 DEF PromiseInv, Rest
  <1>2. CASE S!Ready
    BY <1>2 DEF S!Ready, PromiseInv, Rest
  <1>. QED BY <1>1, <1>2

LEMMA NextPromise ==
  ASSUME PromiseInv, S!Next
  PROVE  PromiseInv'
  <1>1. S!TypeOK' /\ regs \in S!Device
    BY NextLinesTyped DEF PromiseInv, S!TypeOK
  <1>2. CASE AnyWrite
    <2>1. PICK addr \in S!Registers : \E b : (addr = 15 => b \in PortFeatures) /\ S!Write(addr, b)
      BY <1>2 DEF AnyWrite
    <2>2. PICK b : (addr = 15 => b \in PortFeatures) /\ S!Write(addr, b)
      BY <2>1
    <2>3. /\ cycle = NoCycle /\ cycle' = NoCycle /\ regs' = S!SetByte(regs, addr, b)
               /\ past' = S!RawAfter(addr, b)
          /\ S!Allowed(addr, b)
      BY <2>2 DEF S!Write, S!Command
    <2>4. Spp(regs')
      BY <1>1, <2>2, <2>3, SppKept DEF PromiseInv
    <2>5. ASSUME Careful PROVE Promised(regs', past')
      BY <1>1, <2>2, <2>3, <2>5, WritePromised DEF PromiseInv, Rest
    <2>. QED BY <1>1, <2>3, <2>4, <2>5 DEF PromiseInv, Rest
  <1>3. ASSUME NEW m \in PortModes, S!SetMode(m) PROVE PromiseInv'
    <2>1. /\ cycle = NoCycle /\ cycle' = NoCycle /\ regs' = S!Out402(regs, m)
          /\ past' = IF S!Fixed(regs, m) THEN past \ {"byte", "dir"} ELSE past
      BY <1>3 DEF S!SetMode, S!Command
    <2>2. Spp(regs')
      BY <1>1, <2>1, ModeKeepsSpp
    <2>3. ASSUME Careful PROVE Promised(regs', past')
      BY <1>1, <2>1, <2>3, ModePromised DEF PromiseInv, Rest
    <2>. QED BY <1>1, <2>1, <2>2, <2>3 DEF PromiseInv, Rest
  <1>4. ASSUME NEW sort \in {"address", "data"}, NEW read \in BOOLEAN, NEW b \in SUBSET Data,
               S!EppStart(sort, read, b)
        PROVE  PromiseInv'
    BY <1>1, <1>4, StartPromise DEF PromiseInv
  <1>5. CASE S!EppLook
    BY <1>1, <1>5, LookPromise DEF PromiseInv
  <1>6. CASE S!Answer \/ S!Ready
    BY <1>1, <1>6, PeripheralPromise DEF PromiseInv
  <1>. QED BY <1>1, <1>2, <1>3, <1>4, <1>5, <1>6, NextIs
-----------------------------------------------------------------------------
\* Time-outs, for a careful host and a peripheral that takes a byte when the strobe falls:
\* what a cycle under way has been answered, and by whom.
Answered ==
  cycle # NoCycle =>
    /\ 7 \notin regs.ddrC
    /\ ~cycle.read => regs.ddrD = Data /\ regs.portD = cycle.byte
    /\ cycle.took \subseteq {cycle.byte}
    /\ high => cycle.took = {cycle.byte}
TimeInv ==
  /\ S!TypeOK /\ Answered
  /\ regs.mode = 4 /\ ~regs.timeout => ~failed

TimelyHost == Careful /\ ~LatchAtEnd

LEMMA WriteInTime ==
  ASSUME TimeInv, AnyWrite
  PROVE  TimeInv'
  <1>1. S!TypeOK' /\ regs \in S!Device
    BY WriteTyped DEF TimeInv, S!TypeOK
  <1>2. PICK addr \in S!Registers : \E b : (addr = 15 => b \in PortFeatures) /\ S!Write(addr, b)
    BY DEF AnyWrite
  <1>3. PICK b : (addr = 15 => b \in PortFeatures) /\ S!Write(addr, b)
    BY <1>2
  <1>4. /\ cycle' = NoCycle /\ regs' = S!SetByte(regs, addr, b)
        /\ failed' = (failed /\ ~(addr = 1 /\ regs.mode = 4 /\ 0 \notin b))
    BY <1>3 DEF S!Write, S!Command
  <1>5. regs'.mode = regs.mode
    <2>1. CASE addr = 2
      <3>1. S!SetByte(regs, 2, b) = S!Out2(regs, b)
        BY DEF S!SetByte
      <3>. QED BY <1>1, <1>4, <2>1, <3>1, ControlKeepsMode
    <2>2. CASE addr # 2
      BY <1>1, <1>3, <1>4, <2>2, KeepsModeAndDirection
    <2>. QED BY <2>1, <2>2
  <1>6. regs'.timeout = (regs.timeout /\ ~(addr = 1 /\ regs.mode = 4 /\ 0 \notin b))
    <2>1. CASE addr = 1
      <3>1. regs' = S!Out1(regs, b)
        BY <1>4, <2>1 DEF S!SetByte
      <3>2. S!Out1(regs, b).timeout = (regs.timeout /\ ~(regs.mode = 4 /\ 0 \notin b))
        BY <1>1 DEF S!Out1, S!Device
      <3>. QED BY <2>1, <3>1, <3>2
    <2>2. CASE addr = 2
      <3>1. S!Out2Dir(regs, b).timeout = regs.timeout
        BY <1>1 DEF S!Out2Dir, S!Out2Dcr, S!LptSetDataDir, S!DataDirFirst, S!Device
      <3>2. S!Out2Port(regs, b).timeout = regs.timeout /\ S!Out2Port(regs, b) \in S!Device
        BY <1>1, <3>1, Out2DirTyped DEF S!Out2Port, S!Device
      <3>. QED BY <1>1, <1>4, <2>2, <3>2 DEF S!SetByte, S!Out2, S!Device
    <2>3. CASE addr = 15
      <3>1. S!FeatureControl(regs, b).timeout = regs.timeout
        BY <1>1 DEF S!FeatureControl, S!FeatureData, S!Device
      <3>2. S!LptOn(S!FeatureControl(regs, b)).timeout = S!FeatureControl(regs, b).timeout
        BY <1>1, <1>3, <2>3, FeatureTyped
        DEF S!LptOn, S!OnPortB, S!OnC, S!OnDirC, S!LptSetDataDir, S!DataDirFirst, S!Device
      <3>3. regs' = S!Out407(regs, b)
        BY <1>4, <2>3 DEF S!SetByte
      <3>. QED BY <1>1, <2>3, <3>1, <3>2, <3>3 DEF S!Out407, S!Device
    <2>4. CASE addr \in {0, 12, 13, 14}
      BY <1>1, <1>4, <2>4 DEF S!SetByte, S!Out0, S!Out0Port, S!Out404, S!Out405, S!Out405Dir,
         S!Out406, S!Device
    <2>. QED BY <2>1, <2>2, <2>3, <2>4 DEF S!Registers
  <1>. QED BY <1>1, <1>4, <1>5, <1>6 DEF TimeInv, Answered, S!TypeOK, S!Device

LEMMA ModeInTime ==
  ASSUME TimeInv, NEW m \in PortModes, S!SetMode(m)
  PROVE  TimeInv'
  <1>1. S!TypeOK' /\ regs \in S!Device
    BY ModeStepTyped DEF TimeInv, S!TypeOK
  <1>2. cycle' = NoCycle /\ regs' = S!Out402(regs, m) /\ failed' = (failed /\ m # 4)
    BY DEF S!SetMode, S!Command
  <1>. QED BY <1>1, <1>2, ModeKeepsSpp DEF TimeInv, Answered

LEMMA StartInTime ==
  ASSUME TimelyHost, TimeInv, NEW sort \in {"address", "data"}, NEW read \in BOOLEAN, NEW b \in SUBSET Data,
         S!EppStart(sort, read, b)
  PROVE  TimeInv'
  <1>1. /\ S!TypeOK' /\ regs \in S!Device /\ S!Latched(read, b) \in S!Device /\ high \in BOOLEAN
        /\ S!MayCycle(read) /\ 7 \notin regs.ddrC /\ S!WaitHigh = high /\ high' = high
    BY EppStartTyped, LatchedTyped DEF TimeInv, S!TypeOK, S!EppStart, S!MayCycle, TimelyHost,
       S!WaitHigh
  <1>2. CASE S!WaitHigh
    <2>1. regs' = [S!Latched(read, b) EXCEPT !.timeout = TRUE] /\ cycle' = NoCycle
      BY <1>2 DEF S!EppStart
    <2>. QED BY <1>1, <2>1 DEF TimeInv, Answered, S!Device
  <1>3. CASE ~S!WaitHigh
    <2>1. /\ regs' = [S!Latched(read, b) EXCEPT
                      !.portB = @ \ ({S!Strobe(sort)} \cup IF read THEN {} ELSE {0}),
                      !.ddrD = IF read THEN @ ELSE Data]
          /\ cycle' = [kind |-> sort, read |-> read, byte |-> b, left |-> Looks,
                     portB |-> regs.portB, ddrD |-> regs.ddrD, took |-> {}]
          /\ failed' = failed
      BY <1>3 DEF S!EppStart
    <2>2. regs'.ddrC = regs.ddrC /\ regs'.mode = regs.mode /\ regs'.timeout = regs.timeout
      BY <1>1, <2>1 DEF S!Latched, S!Device
    <2>3. ~read => regs'.ddrD = Data /\ regs'.portD = b
      BY <1>1, <2>1 DEF S!Latched, S!Device
    <2>. QED BY <1>1, <1>3, <2>1, <2>2, <2>3 DEF TimeInv, Answered
  <1>. QED BY <1>2, <1>3

LEMMA LookInTime ==
  ASSUME TimelyHost, TimeInv, S!EppLook
  PROVE  TimeInv'
  <1>1. /\ S!TypeOK' /\ cycle \in S!Cycle /\ cycle # NoCycle /\ regs \in S!Device
             /\ S!WaitHigh = high /\ high' = high
    BY EppLookTyped DEF S!EppLook, TimeInv, S!TypeOK, Answered, S!WaitHigh
  <1>2. CASE S!WaitHigh \/ cycle.left = 1
    <2>1. S!EppEnd(~S!WaitHigh)
      BY <1>2 DEF S!EppLook
    <2>2. cycle' = NoCycle /\ regs' = [S!Released EXCEPT !.portB = cycle.portB, !.timeout = @ \/ ~S!WaitHigh]
          /\ failed' = (failed \/ cycle.took # {cycle.byte})
      BY <2>1 DEF S!EppEnd, TimelyHost
    <2>3. regs'.mode = regs.mode /\ regs'.timeout = (regs.timeout \/ ~S!WaitHigh)
      BY <1>1, <2>2 DEF S!Released, S!Device
    <2>. QED BY <1>1, <2>2, <2>3 DEF TimeInv, Answered
  <1>3. CASE ~(S!WaitHigh \/ cycle.left = 1)
    <2>1. cycle' = [cycle EXCEPT !.left = @ - 1] /\ regs' = regs /\ failed' = failed
      BY <1>3 DEF S!EppLook
    <2>2. cycle'.took = cycle.took /\ cycle'.read = cycle.read /\ cycle'.byte = cycle.byte
      BY <1>1, <2>1 DEF S!Cycle
    <2>. QED BY <1>1, <2>1, <2>2 DEF TimeInv, Answered
  <1>. QED BY <1>2, <1>3

LEMMA PeripheralInTime ==
  ASSUME TimeInv, S!Answer \/ S!Ready
  PROVE  TimeInv'
  <1>1. S!TypeOK' /\ regs \in S!Device /\ regs' = regs /\ failed' = failed
    BY PeripheralTyped DEF TimeInv, S!TypeOK, S!Answer, S!Ready
  <1>2. CASE S!Answer
    <2>1. cycle \in S!Cycle /\ cycle # NoCycle
      BY <1>2 DEF S!Answer, TimeInv, S!TypeOK
    <2>2. PICK b \in IF cycle.read THEN {cycle.byte}
                 ELSE S!OnLines(regs) : cycle' = [cycle EXCEPT !.took = {b}]
      BY <1>2 DEF S!Answer
    <2>3. b = cycle.byte
      <3>1. CASE cycle.read
        BY <2>2, <3>1
      <3>2. CASE ~cycle.read
        <4>1. regs.ddrD = Data /\ regs.portD = cycle.byte
          BY <2>1, <3>2 DEF TimeInv, Answered
        <4>2. b \in SUBSET Data /\ b \cap regs.ddrD = S!Driven(regs)
          BY <2>2, <3>2 DEF S!OnLines
        <4>3. cycle.byte \in SUBSET Data
          BY <2>1 DEF S!Cycle
        <4>4. S!Driven(regs) = cycle.byte
          BY <4>1, <4>3 DEF S!Driven
        <4>. QED BY <4>1, <4>2, <4>4
      <3>. QED BY <3>1, <3>2
    <2>4. cycle'.took = {cycle.byte} /\ cycle'.read = cycle.read /\ cycle'.byte = cycle.byte
      BY <2>1, <2>2, <2>3 DEF S!Cycle
    <2>. QED BY <1>1, <2>1, <2>4 DEF TimeInv, Answered
  <1>3. CASE S!Ready
    BY <1>1, <1>3 DEF S!Ready, TimeInv, Answered
  <1>. QED BY <1>2, <1>3

LEMMA NextInTime ==
  ASSUME TimelyHost, TimeInv, S!Next
  PROVE  TimeInv'
  BY NextIs, WriteInTime, ModeInTime, StartInTime, LookInTime, PeripheralInTime DEF TimeInv,
     S!TypeOK

-----------------------------------------------------------------------------
\* Every register routine is free of glitches, and bit commands on a latch are safe.
LEMMA OutGlitchFree ==
  ASSUME regs \in S!Device, S!OpenData \notin regs.feature, NEW b, NEW q \in S!Between(regs, 2, b), NEW i \in q.ddrD
  PROVE  S!DrivenAs(i, q, regs) \/ S!DrivenAs(i, q, S!SetByte(regs, 2, b))
  <1>1. /\ S!Out2Dcr(regs, b) \in S!Device /\ S!Out2Dcr(regs, b).portD = regs.portD
             /\ S!Out2Dcr(regs, b).ddrD = regs.ddrD
        /\ S!Out2Dcr(regs, b).feature = regs.feature /\ S!Out2Dcr(regs, b).data = regs.data
    BY DEF S!Out2Dcr, S!Device
  <1>2. /\ S!SetByte(regs, 2, b).portD = S!Out2Dir(regs, b).portD
             /\ S!SetByte(regs, 2, b).ddrD = S!Out2Dir(regs, b).ddrD
        /\ S!Out2Port(regs, b).portD = S!Out2Dir(regs, b).portD
             /\ S!Out2Port(regs, b).ddrD = S!Out2Dir(regs, b).ddrD
    <2>1. S!Out2Port(regs, b) \in S!Device /\ S!Out2Dir(regs, b) \in S!Device
      BY Out2DirTyped DEF S!Out2Port, S!Device
    <2>2. S!Out2Port(regs, b).portD = S!Out2Dir(regs, b).portD
            /\ S!Out2Port(regs, b).ddrD = S!Out2Dir(regs, b).ddrD
      BY <2>1 DEF S!Out2Port, S!Device
    <2>. QED BY <2>1, <2>2 DEF S!SetByte, S!Out2, S!Device
  <1>3. CASE q = S!Out2Dcr(regs, b)
    BY <1>1, <1>3 DEF S!DrivenAs
  <1>4. CASE q \in {S!Out2Dir(regs, b), S!Out2Port(regs, b)}
    BY <1>2, <1>4 DEF S!DrivenAs
  <1>5. CASE S!Turned(regs, b) /\ q = S!DataDirFirst(S!Out2Dcr(regs, b))
    <2>1. ~S!Input(S!Out2Dcr(regs, b)) /\ q.portD = regs.data /\ q.ddrD = regs.ddrD
      BY <1>1, <1>5 DEF S!DataDirFirst, S!Device
    <2>2. S!Out2Dir(regs, b).portD = regs.data /\ S!Out2Dir(regs, b).ddrD = Data
      BY <1>1, <1>5, <2>1 DEF S!Out2Dir, S!LptSetDataDir, S!DataDirFirst, S!DrivenData, S!Device
    <2>. QED BY <1>2, <2>1, <2>2 DEF S!DrivenAs, S!Device
  <1>. QED BY <1>3, <1>4, <1>5 DEF S!Between

LEMMA FeatureGlitchFree ==
  ASSUME regs \in S!Device, S!OpenData \notin regs.feature, NEW b \in PortFeatures, S!OpenData \notin b,
         NEW q \in S!Between(regs, 15, b), NEW i \in q.ddrD
  PROVE  S!DrivenAs(i, q, regs) \/ S!DrivenAs(i, q, S!SetByte(regs, 15, b))
  <1> DEFINE c == S!FeatureControl(regs, b)
  <1>1. /\ S!FeatureData(regs, b).portD = regs.portD /\ S!FeatureData(regs, b).ddrD = regs.ddrD
        /\ S!FeatureData(regs, b) \in S!Device
    <2>1. ~S!Changed(regs, b, S!OpenData)
      BY DEF S!Changed
    <2>. QED BY <2>1, FeatureTyped DEF S!FeatureData, S!Device
  <1>2. c \in S!Device /\ c.portD = regs.portD /\ c.ddrD = regs.ddrD /\ c.feature = b /\ c.data = regs.data
    BY <1>1, FeatureTyped DEF S!FeatureControl, S!FeatureData, S!Changed, S!Device
  <1>3. CASE q \in {S!FeatureData(regs, b), c}
    BY <1>1, <1>2, <1>3 DEF S!DrivenAs
  <1>4. CASE S!LeavesDirect(regs, b) /\ q \in {S!DataDirFirst(c), S!LptSetDataDir(c), S!OnDirC(c), S!OnC(c), S!OnPortB(c)}
    <2>1. S!SetByte(regs, 15, b) = S!LptOn(c)
      BY <1>4 DEF S!SetByte, S!Out407
    <2>. HIDE DEF c
    <2>2. /\ S!LptOn(c).portD = S!LptSetDataDir(c).portD /\ S!LptOn(c).ddrD = S!LptSetDataDir(c).ddrD
          /\ \A r \in {S!OnDirC(c), S!OnC(c), S!OnPortB(c)} :
               r.portD = S!LptSetDataDir(c).portD /\ r.ddrD = S!LptSetDataDir(c).ddrD
      BY <1>2, DirTyped DEF S!LptOn, S!OnPortB, S!OnC, S!OnDirC, S!Device
    <2>3. CASE q = S!DataDirFirst(c)
      <3>1. ~S!Input(c) /\ q.portD = c.data /\ q.ddrD = c.ddrD
        BY <1>2, <2>3 DEF S!DataDirFirst, S!Device
      <3>2. S!LptSetDataDir(c).portD = c.data /\ S!LptSetDataDir(c).ddrD = Data
        BY <1>2, <3>1 DEF S!LptSetDataDir, S!DataDirFirst, S!DrivenData, S!Device
      <3>. QED BY <1>2, <2>1, <2>2, <3>1, <3>2 DEF S!DrivenAs, S!Device
    <2>4. CASE q # S!DataDirFirst(c)
      BY <1>4, <2>1, <2>2, <2>4 DEF S!DrivenAs
    <2>. QED BY <2>3, <2>4
  <1>. QED BY <1>3, <1>4 DEF S!Between

LEMMA GlitchFree ==
  regs \in S!Device => S!NoGlitch
  <1> SUFFICES ASSUME regs \in S!Device, S!OpenData \notin regs.feature,
                      NEW addr \in S!Registers, NEW b \in S!BytesOf(addr), ~(addr = 15 /\ S!OpenData \in b),
                      NEW q \in S!Between(regs, addr, b), NEW i \in q.ddrD
               PROVE  S!DrivenAs(i, q, regs) \/ S!DrivenAs(i, q, S!SetByte(regs, addr, b))
    BY DEF S!NoGlitch
  <1>1. CASE addr = 0
    <2>1. b \cap Data = b
      BY <1>1 DEF S!BytesOf, S!BitsOf
    <2>2. q = S!SetByte(regs, 0, b)
      BY <1>1, <2>1 DEF S!Between, S!SetByte, S!Out0
    <2>. QED BY <1>1, <2>2 DEF S!DrivenAs
  <1>2. CASE addr = 2
    BY <1>2, OutGlitchFree
  <1>3. CASE addr = 13
    BY <1>3 DEF S!Between, S!DrivenAs, S!Out405Dir, S!Device
  <1>4. CASE addr = 15
    BY <1>4, FeatureGlitchFree, BytesAreFeatures
  <1>5. CASE addr \in {1, 12, 14}
    BY <1>5 DEF S!Between
  <1>. QED BY <1>1, <1>2, <1>3, <1>4, <1>5 DEF S!Registers

\* A command on a bit of the control port's latch.
LEMMA ControlStuckSafe ==
  ASSUME regs \in S!Device, Spp(regs), NEW p, NEW op \in S!Ops, NEW bit \in S!BitsOf(2) \ {5}
  PROVE  S!GetByte(S!BitCommand(regs, p, op, 2, TRUE, bit), p, 2, TRUE) = S!Combine(op, S!GetByte(regs, p, 2, TRUE), bit)
  <1> DEFINE old == S!GetByte(regs, p, 2, TRUE)
             b == S!Combine(op, old, bit)
  <1>1. old = (IF S!Direct(regs) THEN regs.portB ELSE S!Xor(regs.portB, S!InvControl \cap ControlBits)) \cup (regs.dcr \cap {4, 5})
    BY DEF S!GetByte, S!In2Of
  <1>2. bit \in ControlBits /\ ControlBits \subseteq 0 .. 3
    BY LineBits DEF S!BitsOf
  <1>3. regs.portB \subseteq ControlBits
    BY DEF S!Device
  <1>4. b \subseteq ControlBits \cup {4, 5} /\ (5 \in b <=> 5 \in regs.dcr)
    <2>1. old \subseteq ControlBits \cup {4, 5} /\ (5 \in old <=> 5 \in regs.dcr)
      <3>1. (IF S!Direct(regs) THEN regs.portB ELSE S!Xor(regs.portB, S!InvControl \cap ControlBits)) \subseteq ControlBits
        BY <1>3 DEF S!Xor
      <3>2. 5 \notin ControlBits
        BY <1>2
      <3>. HIDE DEF old
      <3>. QED BY <1>1, <3>1, <3>2
    <2>2. bit \in ControlBits \cup {4, 5} /\ bit # 5
      BY <1>2
    <2>. HIDE DEF old
    <2>3. CASE op = "set"
      BY <2>1, <2>2, <2>3 DEF S!Combine
    <2>4. CASE op = "res"
      BY <2>1, <2>2, <2>4 DEF S!Combine
    <2>5. CASE op = "cpl"
      BY <2>1, <2>2, <2>5 DEF S!Combine, S!Xor
    <2>. QED BY <2>3, <2>4, <2>5 DEF S!Ops
  <1> HIDE DEF b, old
  <1>5. S!NewDcr(regs, b) = b
    <2>1. regs.mode = 0 => 5 \notin b
      BY <1>4 DEF Spp, S!Input
    <2>2. regs.mode # 2
      BY LineBits DEF S!Device
    <2>. QED BY <2>1, <2>2 DEF S!NewDcr
  <1> DEFINE r == S!Out2(regs, b)
  <1>6. /\ r.dcr = b \cap S!DcrBits /\ r.feature = regs.feature
        /\ r.portB = (IF S!Direct(regs) THEN b ELSE S!Xor(b, S!InvControl)) \cap ControlBits
    <2>1. S!Out2Dir(regs, b) \in S!Device /\ S!Out2Dir(regs, b).feature = regs.feature
            /\ S!Out2Dir(regs, b).dcr = b \cap S!DcrBits
      BY <1>5, Out2DirTyped DEF S!Out2Dir, S!Out2Dcr, S!LptSetDataDir, S!DataDirFirst, S!Device
    <2>2. /\ S!Out2Port(regs, b) \in S!Device /\ S!Out2Port(regs, b).feature = regs.feature
          /\ S!Out2Port(regs, b).dcr = b \cap S!DcrBits
          /\ S!Out2Port(regs, b).portB = (IF S!Direct(regs) THEN b ELSE S!Xor(b, S!InvControl)) \cap ControlBits
      BY <1>5, <2>1 DEF S!Out2Port, S!Device
    <2>. QED BY <2>2 DEF S!Out2, S!Device
  <1> HIDE DEF r
  <1>7. S!GetByte(r, p, 2, TRUE) =
          (IF S!Direct(r) THEN r.portB ELSE S!Xor(r.portB, S!InvControl \cap ControlBits))
            \cup (r.dcr \cap {4, 5})
    BY DEF S!GetByte, S!In2Of
  <1>8. S!Direct(r) = S!Direct(regs)
    BY <1>6 DEF S!Direct
  <1>9. S!Xor(S!Xor(b, S!InvControl) \cap ControlBits, S!InvControl \cap ControlBits) = b \cap ControlBits
    BY DEF S!Xor
  <1>10. S!GetByte(r, p, 2, TRUE) = (b \cap ControlBits) \cup (b \cap {4, 5})
    BY <1>6, <1>7, <1>8, <1>9 DEF S!DcrBits
  <1>11. S!GetByte(r, p, 2, TRUE) = b
    BY <1>4, <1>10
  <1>12. S!BitCommand(regs, p, op, 2, TRUE, bit) = S!SetByte(regs, 2, b)
    BY DEF S!BitCommand, b, old
  <1>13. S!SetByte(regs, 2, b) = r
    BY DEF S!SetByte, r
  <1>. QED BY <1>11, <1>12, <1>13 DEF b, old

LEMMA LatchSafe ==
  regs \in S!Device /\ Spp(regs) => S!StuckSafe
  <1> SUFFICES ASSUME regs \in S!Device, Spp(regs), NEW op \in S!Ops, NEW p \in S!Extreme(regs), NEW addr \in {0, 2},
                           NEW bit \in S!BitsOf(addr) \ {5}, ~(addr = 0 /\ S!Input(regs))
               PROVE  S!GetByte(S!BitCommand(regs, p, op, addr, TRUE, bit), p, addr, TRUE)
                             = S!Combine(op, S!GetByte(regs, p, addr, TRUE), bit)
    BY DEF S!StuckSafe
  <1>1. CASE addr = 0
    <2> DEFINE b == S!Combine(op, regs.portD, bit)
    <2>1. bit \in Data /\ ~S!Input(regs)
      BY <1>1 DEF S!BitsOf
    <2>2. b \cap Data = b
      BY <2>1 DEF S!Combine, S!Ops, S!Xor, S!Device
    <2>3. S!GetByte(regs, p, 0, TRUE) = regs.portD
      BY DEF S!GetByte
    <2>4. S!BitCommand(regs, p, op, 0, TRUE, bit) = S!Out0(regs, b)
      <3>1. S!BitCommand(regs, p, op, 0, TRUE, bit) = S!SetByte(regs, 0, b)
        BY <2>3 DEF S!BitCommand
      <3>2. S!SetByte(regs, 0, b) = S!Out0(regs, b \cap Data)
        BY DEF S!SetByte
      <3>. QED BY <2>2, <3>1, <3>2
    <2>5. S!Out0(regs, b).portD = b
      BY <2>1 DEF S!Out0, S!Out0Port, S!Device
    <2>6. S!GetByte(S!Out0(regs, b), p, 0, TRUE) = b
      BY <2>5 DEF S!GetByte
    <2>. QED BY <1>1, <2>3, <2>4, <2>6
  <1>2. CASE addr = 2
    BY <1>2, ControlStuckSafe
  <1>. QED BY <1>1, <1>2

-----------------------------------------------------------------------------
\* Registers without features, in an SPP mode.
Plain(r) == r \in S!Device /\ r.feature = {} /\ r.mode = 0 /\ ~S!Input(r)

LEMMA PlainIs ==
  ASSUME NEW r, Plain(r)
  PROVE  r \in S!Device /\ ~S!Direct(r) /\ S!OpenData \notin r.feature /\ S!OpenControl \notin r.feature
         /\ r.feature = {} /\ r.mode = 0 /\ ~S!Input(r)
  BY DEF Plain, S!Direct

LEMMA PlainData ==
  ASSUME NEW r, Plain(r), NEW b \in SUBSET Data
  PROVE  S!Out0(r, b) = [r EXCEPT !.data = b, !.portD = b] /\ Plain(S!Out0(r, b))
  <1>1. S!Out0(r, b) = [r EXCEPT !.data = b, !.portD = b]
    BY PlainIs DEF S!Out0, S!Out0Port
  <1>. QED BY <1>1 DEF Plain, S!Device, S!Input

LEMMA PlainStatus ==
  ASSUME NEW r, Plain(r), NEW b
  PROVE  /\ S!Out1(r, b) = [r EXCEPT !.portC = (S!Xor(b, S!InvStatus) \cup (Status \ r.ddrC)) \cap Status]
         /\ Plain(S!Out1(r, b))
  <1>1. r.mode # 4 /\ ~S!Direct(r) /\ r \in S!Device
    BY PlainIs
  <1>2. (r.timeout /\ ~(r.mode = 4 /\ 0 \notin b)) = r.timeout
    BY <1>1 DEF S!Device
  <1>3. S!Out1(r, b) = [r EXCEPT !.timeout = r.timeout,
                               !.portC = (S!Xor(b, S!InvStatus) \cup (Status \ r.ddrC)) \cap Status]
    BY <1>1, <1>2 DEF S!Out1
  <1>4. S!Out1(r, b) = [r EXCEPT !.portC = (S!Xor(b, S!InvStatus) \cup (Status \ r.ddrC)) \cap Status]
    BY <1>1, <1>3 DEF S!Device
  <1>. QED BY <1>4 DEF Plain, S!Device, S!Input

LEMMA PlainControl ==
  ASSUME NEW r, Plain(r), NEW b
  PROVE  /\ S!Out2(r, b) = [r EXCEPT !.dcr = (b \ {5}) \cap S!DcrBits, !.portB = S!Xor(b, S!InvControl) \cap ControlBits]
         /\ Plain(S!Out2(r, b))
  <1>1. r.mode = 0 /\ ~S!Input(r) /\ ~S!Direct(r) /\ S!OpenControl \notin r.feature /\ r \in S!Device
    BY PlainIs
  <1>2. S!NewDcr(r, b) = b \ {5}
    BY <1>1 DEF S!NewDcr
  <1>3. S!Out2Dcr(r, b) = [r EXCEPT !.dcr = (b \ {5}) \cap S!DcrBits] /\ ~S!Input(S!Out2Dcr(r, b))
    BY <1>1, <1>2 DEF S!Out2Dcr, S!Input, S!Device
  <1>4. S!Out2Dir(r, b) = S!Out2Dcr(r, b)
    BY <1>1, <1>3 DEF S!Out2Dir, S!Turned, S!Input
  <1>5. S!Xor(b \ {5}, S!InvControl) \cap ControlBits = S!Xor(b, S!InvControl) \cap ControlBits
    BY LineBits DEF S!Xor
  <1>6. S!Out2Port(r, b) = [S!Out2Dcr(r, b) EXCEPT !.portB = S!Xor(b, S!InvControl) \cap ControlBits]
    BY <1>1, <1>2, <1>4, <1>5 DEF S!Out2Port
  <1>7. S!Out2(r, b) = [r EXCEPT !.dcr = (b \ {5}) \cap S!DcrBits, !.portB = S!Xor(b, S!InvControl) \cap ControlBits]
    BY <1>1, <1>3, <1>6 DEF S!Out2
  <1>. QED BY <1>7 DEF Plain, S!Device, S!Input

\* A Check drives the pattern that is wanted.
BundleDrives(r, D, St, C) ==
  LET q == S!OutBundle(r, D, St, C) IN
  /\ q.portD = D /\ q.portC = St /\ q.portB = C
  /\ q.ddrD = r.ddrD /\ q.ddrC = r.ddrC /\ q.ddrB = r.ddrB

LEMMA BundleIs ==
  ASSUME NEW r, Plain(r), r.ddrC = Status, NEW D \in SUBSET Data, NEW St \in SUBSET Status, NEW C \in SUBSET ControlBits
  PROVE  BundleDrives(r, D, St, C)
  <1> DEFINE x == S!Out0(r, D)
             y == S!Out1(x, S!Xor(St, {7}) \cup {0, 1, 2})
             z == S!Out2(y, S!Xor(C, S!InvControl))
  <1>1. x = [r EXCEPT !.data = D, !.portD = D] /\ Plain(x)
    BY PlainData
  <1>2. y = [x EXCEPT !.portC = (S!Xor(S!Xor(St, {7}) \cup {0, 1, 2}, S!InvStatus) \cup (Status \ x.ddrC)) \cap Status] /\ Plain(y)
    BY <1>1, PlainStatus
  <1>3. z = [y EXCEPT !.dcr = (S!Xor(C, S!InvControl) \ {5}) \cap S!DcrBits, !.portB = S!Xor(S!Xor(C, S!InvControl), S!InvControl) \cap ControlBits]
        /\ Plain(z)
    BY <1>2, PlainControl
  <1>4. S!OutBundle(r, D, St, C) = z
    BY DEF S!OutBundle
  <1>5. r \in S!Device
    BY DEF Plain
  <1>. HIDE DEF x, y, z
  <1>6. S!Xor(S!Xor(St, {7}) \cup {0, 1, 2}, S!InvStatus) \cap Status = St
    <2>1. ASSUME NEW i \in Status
          PROVE  i \in S!Xor(S!Xor(St, {7}) \cup {0, 1, 2}, S!InvStatus) <=> i \in St
      <3>1. i \notin {0, 1, 2}
        BY LineBits
      <3>2. i \in S!Xor(St, {7}) \cup {0, 1, 2} <=> i \in S!Xor(St, {7})
        BY <3>1
      <3>. QED BY <3>2 DEF S!Xor, S!InvStatus
    <2>. QED BY <2>1
  <1>7. S!Xor(S!Xor(C, S!InvControl), S!InvControl) \cap ControlBits = C
    BY DEF S!Xor
  <1>9. x \in S!Device /\ x.portD = D /\ x.portC = r.portC /\ \A f \in {"ddrD", "ddrC", "ddrB"} : x[f] = r[f]
    BY <1>1, <1>5 DEF Plain, S!Device
  <1>10. y \in S!Device /\ y.portD = D /\ y.portC = St /\ \A f \in {"ddrD", "ddrC", "ddrB"} : y[f] = r[f]
    <2>1. (S!Xor(S!Xor(St, {7}) \cup {0, 1, 2}, S!InvStatus) \cup (Status \ x.ddrC)) \cap Status = St
      BY <1>6, <1>9
    <2>. QED BY <1>2, <1>9, <2>1 DEF Plain, S!Device
  <1>11. z.portD = D /\ z.portC = St /\ z.portB = C
         /\ \A f \in {"ddrD", "ddrC", "ddrB"} : z[f] = r[f]
    BY <1>3, <1>7, <1>10 DEF S!Device
  <1>. QED BY <1>4, <1>11 DEF BundleDrives

LEMMA ReadsTyped ==
  ASSUME NEW r, NEW f
  PROVE  S!Reads(r, f).D \subseteq Data /\ S!Reads(r, f).S \subseteq Status
           /\ S!Reads(r, f).C \subseteq ControlBits
  BY DEF S!Reads

LEMMA DiffersIs ==
  ASSUME NEW r \in S!Device, ~S!Direct(r), NEW D \in SUBSET Data, NEW St \in SUBSET Status, NEW C \in SUBSET ControlBits
  PROVE  S!Differs(r, D, St, C) =
           S!Xor(D, S!Reads(r, fault).D) \cup S!Xor(St, S!Reads(r, fault).S)
             \cup S!Xor(C, S!Reads(r, fault).C)
  <1> DEFINE p == S!Reads(r, fault)
  <1>1. p.D \subseteq Data /\ p.S \subseteq Status /\ p.C \subseteq ControlBits
    BY ReadsTyped
  <1>2. S!Differs(r, D, St, C) = S!Xor(D, p.D) \cup (S!Xor(St, S!Xor(S!In1(r, p), {7})) \cap Status)
                                \cup (S!Xor(C, S!Xor(S!In2Of(r, p.C), S!InvControl)) \cap ControlBits)
    BY DEF S!Differs
  <1>. HIDE DEF p
  <1>3. S!Xor(St, S!Xor(S!In1(r, p), {7})) \cap Status = S!Xor(St, p.S)
    <2>1. S!In1(r, p) = S!Xor(p.S, S!InvStatus \cap Status) \cup {1, 2} \cup (IF r.timeout THEN {0} ELSE {})
      BY DEF S!In1
    <2>2. S!In1(r, p) \cap Status = S!Xor(p.S, S!InvStatus \cap Status)
      BY <1>1, <2>1, LineBits DEF S!Xor
    <2>. HIDE DEF S!In1
    <2>. QED BY <1>1, <2>2 DEF S!Xor, S!InvStatus
  <1>4. S!Xor(C, S!Xor(S!In2Of(r, p.C), S!InvControl)) \cap ControlBits = S!Xor(C, p.C)
    <2>1. S!In2Of(r, p.C) = S!Xor(p.C, S!InvControl \cap ControlBits) \cup (r.dcr \cap {4, 5})
      BY DEF S!In2Of
    <2>2. S!In2Of(r, p.C) \cap ControlBits = S!Xor(p.C, S!InvControl \cap ControlBits)
      BY <1>1, <2>1, LineBits DEF S!Xor
    <2>. QED BY <1>1, <2>2 DEF S!Xor
  <1>. QED BY <1>2, <1>3, <1>4 DEF p

\* What a line reads is what its register has, for all lines, or a bit is different.
Agrees(r) == \A l \in S!Lines : S!IsHigh(r, l, fault) <=> S!PortBit(r, l)

LEMMA XorEmpty ==
  ASSUME NEW X, NEW Y
  PROVE  S!Xor(X, Y) = {} <=> X = Y
  BY DEF S!Xor

LEMMA VerdictOf ==
  ASSUME NEW r \in S!Device, ~S!Direct(r)
  PROVE  S!Differs(r, r.portD, r.portC, r.portB) = {} <=> Agrees(r)
  <1>1. r.portD \in SUBSET Data /\ r.portC \in SUBSET Status /\ r.portB \in SUBSET ControlBits
    BY DEF S!Device
  <1>2. S!Differs(r, r.portD, r.portC, r.portB) = {}
          <=> S!Reads(r, fault).D = r.portD /\ S!Reads(r, fault).S = r.portC /\ S!Reads(r, fault).C = r.portB
    <2>1. S!Differs(r, r.portD, r.portC, r.portB) = S!Xor(r.portD, S!Reads(r, fault).D)
            \cup S!Xor(r.portC, S!Reads(r, fault).S) \cup S!Xor(r.portB, S!Reads(r, fault).C)
      BY <1>1, DiffersIs
    <2>2. S!Differs(r, r.portD, r.portC, r.portB) = {} <=>
            S!Xor(r.portD, S!Reads(r, fault).D) = {} /\ S!Xor(r.portC, S!Reads(r, fault).S) = {}
              /\ S!Xor(r.portB, S!Reads(r, fault).C) = {}
      BY <2>1
    <2>. QED BY <2>2, XorEmpty
  <1>3. /\ S!Reads(r, fault).D = {i \in Data : S!IsHigh(r, <<"D", i>>, fault)}
        /\ S!Reads(r, fault).S = {i \in Status : S!IsHigh(r, <<"S", i>>, fault)}
        /\ S!Reads(r, fault).C = {i \in ControlBits : S!IsHigh(r, <<"C", i>>, fault)}
    BY DEF S!Reads
  <1>4. /\ S!Reads(r, fault).D = r.portD <=> \A i \in Data : S!IsHigh(r, <<"D", i>>, fault) <=> i \in r.portD
        /\ S!Reads(r, fault).S = r.portC <=> \A i \in Status : S!IsHigh(r, <<"S", i>>, fault)
             <=> i \in r.portC
        /\ S!Reads(r, fault).C = r.portB <=> \A i \in ControlBits : S!IsHigh(r, <<"C", i>>, fault)
             <=> i \in r.portB
    BY <1>1, <1>3
  <1>5. /\ \A i \in Data : <<"D", i>> \in S!Lines /\ (S!PortBit(r, <<"D", i>>) <=> i \in r.portD)
        /\ \A i \in Status : <<"S", i>> \in S!Lines /\ (S!PortBit(r, <<"S", i>>) <=> i \in r.portC)
        /\ \A i \in ControlBits : <<"C", i>> \in S!Lines /\ (S!PortBit(r, <<"C", i>>) <=> i \in r.portB)
    BY DEF S!Lines, S!PortBit
  <1>6. \A l \in S!Lines : \/ \E i \in Data : l = <<"D", i>>
                           \/ \E i \in Status : l = <<"S", i>>
                           \/ \E i \in ControlBits : l = <<"C", i>>
    BY DEF S!Lines
  <1>. QED BY <1>2, <1>4, <1>5, <1>6 DEF Agrees
-----------------------------------------------------------------------------
\* Faults at the plug

LEMMA FaultIs ==
  ASSUME NEW f \in S!Faults
  PROVE  /\ f.short = {} \/ \E a \in S!Lines, b \in S!Lines \cup {S!Ground} : a # b /\ f.short = {a, b}
         /\ f.short # {} => f.open = {}
         /\ f.open \subseteq S!Lines /\ f.highWins \in BOOLEAN
  <1>1. CASE f \in S!Shorts
    <2>1. /\ f.short = {} \/ f.short \in S!Shorted
          /\ f.open = {} /\ f.highWins \in BOOLEAN
      BY <1>1 DEF S!Shorts
    <2>2. ASSUME f.short # {} PROVE \E a \in S!Lines, b \in S!Lines \cup {S!Ground} : a # b
                   /\ f.short = {a, b}
      <3>1. PICK a \in S!Lines, b \in S!Lines \cup {S!Ground} : f.short = {a, b}
        BY <2>1, <2>2 DEF S!Shorted
      <3>2. \A c \in S!Lines : f.short # {c}
        BY <2>1, <2>2 DEF S!Shorted
      <3>3. a # b
        BY <3>1, <3>2
      <3>. QED BY <3>1, <3>3
    <2>. QED BY <2>1, <2>2
  <1>2. CASE f \in S!Opens
    <2>1. f.short = {} /\ f.open \in {{l} : l \in S!Lines} /\ f.highWins = FALSE
      BY <1>2 DEF S!Opens
    <2>. QED BY <2>1
  <1>. QED BY <1>1, <1>2 DEF S!Faults

LEMMA GroundIsNoLine == S!Ground \notin S!Lines
  BY DEF S!Ground, S!Lines

\* All lines driven: a sound device shows what its registers have, a short shows in the
\* pattern that has one of its lines high alone.
LEMMA DrivenSound ==
  ASSUME NEW r, fault.short = {}, \A l \in S!Lines : S!IsOutput(r, l)
  PROVE  Agrees(r)
  BY GroundIsNoLine DEF Agrees, S!IsHigh, S!Node

LEMMA DrivenShort ==
  ASSUME NEW r, \A l \in S!Lines : S!IsOutput(r, l), NEW a \in S!Lines, NEW b \in S!Lines
           \cup {S!Ground}, a # b,
         fault.short = {a, b},
         \/ \A l \in S!Lines : S!PortBit(r, l) <=> l = a
         \/ b \in S!Lines /\ \A l \in S!Lines : S!PortBit(r, l) <=> l = b
  PROVE  ~Agrees(r)
  <1>1. S!Node(a, fault) = {a, b} /\ (b \in S!Lines => S!Node(b, fault) = {a, b})
    BY DEF S!Node
  <1>2. CASE b = S!Ground
    BY <1>1, <1>2, GroundIsNoLine DEF Agrees, S!IsHigh
  <1>3. CASE b \in S!Lines
    <2>1. S!PortBit(r, a) # S!PortBit(r, b)
      BY <1>3
    <2>2. S!IsHigh(r, a, fault) = S!IsHigh(r, b, fault)
      BY <1>1, <1>3 DEF S!IsHigh
    <2>. QED BY <1>3, <2>1, <2>2 DEF Agrees
  <1>. QED BY <1>2, <1>3

\* All lines pulled up.
LEMMA PulledUp ==
  ASSUME NEW r, fault \in S!Faults, fault.short = {}, \A l \in S!Lines : ~S!IsOutput(r, l) /\ S!PortBit(r, l)
  PROVE  Agrees(r) <=> fault.open = {}
  <1>1. \A l \in S!Lines : S!IsHigh(r, l, fault) <=> l \notin fault.open
    BY GroundIsNoLine DEF S!IsHigh, S!Node
  <1>. QED BY <1>1, FaultIs DEF Agrees
-----------------------------------------------------------------------------
\* The lines in their order

LEMMA Numbered ==
  /\ \A l \in S!Lines : S!Number(l) \in Nat
  /\ \A l, k \in S!Lines : S!Number(l) = S!Number(k) => l = k
  /\ \A l, k \in S!Lines : k[1] = "C" /\ l[1] # "C" => S!Number(l) < S!Number(k)
  <1>1. ASSUME NEW l \in S!Lines
        PROVE  \/ \E i \in 0 .. 7 : l = <<"D", i>> /\ S!Number(l) = i
               \/ \E i \in 3 .. 7 : l = <<"S", i>> /\ S!Number(l) = i + 8
               \/ \E i \in 0 .. 3 : l = <<"C", i>> /\ S!Number(l) = i + 16
    <2>1. \/ \E i \in Data : l = <<"D", i>>
          \/ \E i \in Status : l = <<"S", i>>
          \/ \E i \in ControlBits : l = <<"C", i>>
      BY DEF S!Lines
    <2>2. CASE \E i \in Data : l = <<"D", i>>
      <3>1. PICK i \in Data : l = <<"D", i>>
        BY <2>2
      <3>2. i \in 0 .. 7
        BY LineBits
      <3>3. S!Number(l) = i + 0
        BY <3>1 DEF S!Number
      <3>. QED BY <3>1, <3>2, <3>3
    <2>3. CASE \E i \in Status : l = <<"S", i>>
      <3>1. PICK i \in Status : l = <<"S", i>>
        BY <2>3
      <3>2. i \in 3 .. 7
        BY LineBits
      <3>3. S!Number(l) = i + 8
        BY <3>1 DEF S!Number
      <3>. QED BY <3>1, <3>2, <3>3
    <2>4. CASE \E i \in ControlBits : l = <<"C", i>>
      <3>1. PICK i \in ControlBits : l = <<"C", i>>
        BY <2>4
      <3>2. i \in 0 .. 3
        BY LineBits
      <3>3. S!Number(l) = i + 16
        BY <3>1 DEF S!Number
      <3>. QED BY <3>1, <3>2, <3>3
    <2>. QED BY <2>1, <2>2, <2>3, <2>4
  <1>. QED BY <1>1

LEMMA LeastOf ==
  ASSUME NEW X \in SUBSET Nat, X # {}
  PROVE  \E k \in X : \A m \in X : k <= m
  <1>. DEFINE Less == {p \in Nat \X Nat : p[1] < p[2]}
  <1>1. IsWellFoundedOn(Less, Nat)
    BY NatLessThanWellFounded DEF OpToRel
  <1>. HIDE DEF Less
  <1>2. PICK n \in X : \A m \in X : ~(<<m, n>> \in Less)
    BY <1>1, WFMin
  <1>3. \A m \in X : ~(m < n)
    BY <1>2 DEF Less
  <1>. QED BY <1>3

LEMMA FirstIs ==
  ASSUME NEW X \in SUBSET S!Lines, X # {}
  PROVE  S!FirstOf(X) \in X /\ \A k \in X : S!Number(S!FirstOf(X)) <= S!Number(k)
  <1> DEFINE N == {S!Number(l) : l \in X}
  <1>1. N \in SUBSET Nat /\ N # {}
    BY Numbered
  <1>2. PICK n \in N : \A m \in N : n <= m
    BY <1>1, LeastOf
  <1>3. PICK l \in X : S!Number(l) = n
    BY <1>2
  <1>4. \A k \in X : S!Number(l) <= S!Number(k)
    BY <1>2, <1>3
  <1>. QED BY <1>4 DEF S!FirstOf

LEMMA SomeLine == S!Lines # {} /\ \E l \in S!Lines : l[1] = "C"
  <1>1. PICK c \in ControlBits : TRUE
    BY ProgramsAssumption DEF S!PortLinesAssumption
  <1>2. <<"C", c>> \in S!Lines /\ <<"C", c>>[1] = "C"
    BY DEF S!Lines
  <1>. QED BY <1>2

\* The last line is one of the control port.
LEMMA LastIsControl ==
  ASSUME NEW l \in S!Lines, S!Behind(l) = {}
  PROVE  l[1] = "C" /\ \A k \in S!Lines : S!Number(k) <= S!Number(l)
  <1>1. \A k \in S!Lines : S!Number(k) <= S!Number(l)
    BY Numbered DEF S!Behind
  <1>2. PICK k \in S!Lines : k[1] = "C"
    BY SomeLine
  <1>3. ASSUME l[1] # "C" PROVE FALSE
    <2>1. S!Number(l) < S!Number(k) /\ S!Number(k) <= S!Number(l)
      BY <1>1, <1>2, <1>3, Numbered
    <2>. QED BY <2>1, Numbered
  <1>. QED BY <1>1, <1>3

LEMMA BitsAreLines ==
  /\ \A i \in Data : <<"D", i>> \in S!Lines
  /\ \A i \in Status : <<"S", i>> \in S!Lines
  /\ \A i \in ControlBits : <<"C", i>> \in S!Lines
  /\ \A l \in S!Lines : \/ \E i \in Data : l = <<"D", i>>
                        \/ \E i \in Status : l = <<"S", i>>
                        \/ \E i \in ControlBits : l = <<"C", i>>
  BY DEF S!Lines

\* The registers after a pattern.
LEMMA PatternIs ==
  ASSUME NEW r, NEW l \in S!Lines, NEW level \in BOOLEAN,
         r.portD = S!Pattern(l, level).D, r.portC = S!Pattern(l, level).S, r.portB = S!Pattern(l, level).C
  PROVE  \A k \in S!Lines : S!PortBit(r, k) <=> (k = l) = level
  <1>1. ASSUME NEW i \in Data PROVE S!PortBit(r, <<"D", i>>) <=> (<<"D", i>> = l) = level
    BY DEF S!PortBit, S!Pattern
  <1>2. ASSUME NEW i \in Status PROVE S!PortBit(r, <<"S", i>>) <=> (<<"S", i>> = l) = level
    BY DEF S!PortBit, S!Pattern
  <1>3. ASSUME NEW i \in ControlBits PROVE S!PortBit(r, <<"C", i>>) <=> (<<"C", i>> = l) = level
    BY DEF S!PortBit, S!Pattern
  <1>. QED BY <1>1, <1>2, <1>3, BitsAreLines

LEMMA PatternTyped ==
  ASSUME NEW l, NEW level
  PROVE  S!Pattern(l, level).D \subseteq Data /\ S!Pattern(l, level).S \subseteq Status
           /\ S!Pattern(l, level).C \subseteq ControlBits
  BY DEF S!Pattern

AllOut(r) == r.ddrD = Data /\ r.ddrC = Status /\ r.ddrB = ControlBits

LEMMA AllOutputs ==
  ASSUME NEW r, AllOut(r)
  PROVE  \A l \in S!Lines : S!IsOutput(r, l)
  <1>1. /\ \A i \in Data : S!IsOutput(r, <<"D", i>>)
        /\ \A i \in Status : S!IsOutput(r, <<"S", i>>)
        /\ \A i \in ControlBits : S!IsOutput(r, <<"C", i>>)
    BY DEF AllOut, S!IsOutput
  <1>. QED BY <1>1, BitsAreLines
-----------------------------------------------------------------------------
\* The test, step by step

Sound == fault.short = {} /\ fault.open = {}
Passed(l) == S!Number(l) < S!Number(test.line) \/ (l = test.line /\ ~test.high)

\* What the test saves of a sound device.
SavedRight ==
  /\ test.saved.data = before.portD
  /\ ~S!Direct(before) => test.saved.status \cap Status = S!Xor(before.portC, S!InvStatus \cap Status)
  /\ ~S!Direct(before) => test.saved.control = S!Xor(before.portB, S!InvControl \cap ControlBits)
       \cup (before.dcr \cap {4, 5})
  /\ test.saved.mode = before.mode /\ test.saved.feature = before.feature
  /\ test.saved.dirD = before.ddrD /\ test.saved.dirC = before.ddrC /\ test.saved.dirB = before.ddrB

TestInv ==
  test # NoTest =>
    /\ fault \in S!Faults /\ Promised(before, {})
    /\ Sound => test.fail = {} /\ SavedRight
    /\ test.at = "patterns" =>
         AllOut(regs) /\ \A l \in fault.short \cap S!Lines : Passed(l) => test.fail # {}
    /\ test.at = "pullups" => regs.portD = Data
    /\ test.at # "patterns" /\ fault.short # {} => test.fail # {}
    /\ test.at \notin {"patterns", "pullups"} /\ fault.open # {} => test.fail # {}
    /\ test.at = "restore" /\ test.fail = {} => regs.ddrC = Status
    /\ test.at = "done" /\ Sound /\ ~S!Input(before) /\ ~S!Direct(before)
         => regs = [before EXCEPT !.timeout = regs.timeout]

LinesInv == PromiseInv /\ before \in S!Device /\ TestRuns

LEMMA RegSetIs ==
  ASSUME regs \in S!Device
  PROVE  /\ Plain(S!RegSet(regs)) /\ S!RegSet(regs).ddrC = Status
         /\ Promised(regs, {}) /\ past = {} => AllOut(S!RegSet(regs)) /\ Promised(S!RegSet(regs), {})
         /\ Promised(regs, past) => Promised(S!RegSet(regs), Everything)
  <1> DEFINE q == S!Out407(regs, {})
             t == S!Out402(q, 0)
             r == S!Out405(t, Status)
  <1>1. q \in S!Device /\ q.feature = {}
    <2>1. S!FeatureControl(regs, {}).feature = {}
      BY DEF S!FeatureControl, S!FeatureData, S!Device
    <2>2. S!LptOn(S!FeatureControl(regs, {})).feature = {}
      BY <2>1, FeatureSets, FeatureTyped DEF S!LptOn, S!OnPortB, S!OnC, S!OnDirC, S!LptSetDataDir,
         S!DataDirFirst, S!Device
    <2>. QED BY <2>1, <2>2, FeatureSets, FeatureTyped DEF S!Out407
  <1>2. t \in S!Device /\ t.mode = 0 /\ Spp(t) /\ t.feature = {}
    <2>1. t \in S!Device /\ t.mode = 0 /\ Spp(t)
      BY <1>1, LineBits, ModeTyped, ModeKeepsSpp
    <2>. HIDE DEF q
    <2>2. t.feature = q.feature
      BY <1>1 DEF S!Out402, S!Out402Dcr, S!Out402First, S!LptSetDataDir, S!DataDirFirst, S!Device
    <2>. QED BY <1>1, <2>1, <2>2
  <1>3. /\ ~S!Direct(t) /\ ~S!Input(t)
        /\ r = [t EXCEPT !.ddrC = Status, !.portC = t.portC]
    <2>. HIDE DEF t
    <2>1. ~S!Direct(t) /\ ~S!Input(t)
      BY <1>2 DEF S!Direct, Spp
    <2>2. Status \cap Status = Status /\ t.portC \cup (Status \ Status) = t.portC
      OBVIOUS
    <2>. QED BY <1>2, <2>1, <2>2 DEF S!Out405, S!Out405Dir, S!Device
  <1>4. S!RegSet(regs) = r
    BY DEF S!RegSet
  <1>. HIDE DEF q, t, r
  <1>5. /\ r \in S!Device /\ Plain(r) /\ r.ddrC = Status /\ r.feature = {} /\ ~S!Input(r)
        /\ \A f \in {"portD", "ddrD", "portB", "ddrB", "dcr", "data"} : r[f] = t[f]
    BY <1>2, <1>3 DEF Plain, S!Input, S!Device
  <1>6. ASSUME NEW beyond, Promised(t, beyond)
        PROVE  Promised(r, beyond)
    BY <1>2, <1>3, <1>5, <1>6 DEF Promised, S!Direct, S!Input, S!DrivenData
  <1>7. ASSUME NEW beyond, Promised(q, beyond)
        PROVE  \E p \in SUBSET beyond : Promised(t, p)
    BY <1>1, <1>7, ModePromised DEF t
  <1>8. ASSUME NEW p, NEW beyond, p \subseteq beyond, NEW g, Promised(g, p)
        PROVE  Promised(g, beyond)
    BY <1>8 DEF Promised
  <1>9. S!RawAfter(15, {}) \subseteq past
    BY DEF S!RawAfter
  <1>10. Promised(regs, past) => Promised(q, S!RawAfter(15, {}))
    BY FeatureSets, FeaturePromised, LeavingPromised DEF q
  <1>11. ASSUME Promised(regs, past) PROVE Promised(r, past)
    BY <1>6, <1>7, <1>8, <1>9, <1>10, <1>11
  <1>12. ASSUME Promised(regs, past), past = {} PROVE AllOut(r)
    <2>1. Promised(r, {})
      BY <1>11, <1>12
    <2>. QED BY <1>5, <2>1 DEF Promised, AllOut, S!Direct, S!DrivenData
  <1>13. ASSUME Promised(regs, past) PROVE Promised(r, Everything)
    BY <1>11, <1>13 DEF Promised, Everything
  <1>. QED BY <1>4, <1>5, <1>11, <1>12, <1>13

LEMMA SoundReads ==
  ASSUME NEW r \in S!Device, NEW f, f.short = {}, f.open = {}
  PROVE  S!Reads(r, f).D = r.portD /\ S!Reads(r, f).S = r.portC /\ S!Reads(r, f).C = r.portB
  <1>1. \A l \in S!Lines : S!IsHigh(r, l, f) <=> S!PortBit(r, l)
    BY GroundIsNoLine DEF S!IsHigh, S!Node
  <1>2. /\ \A i \in Data : S!IsHigh(r, <<"D", i>>, f) <=> i \in r.portD
        /\ \A i \in Status : S!IsHigh(r, <<"S", i>>, f) <=> i \in r.portC
        /\ \A i \in ControlBits : S!IsHigh(r, <<"C", i>>, f) <=> i \in r.portB
    <2>1. /\ \A i \in Data : S!PortBit(r, <<"D", i>>) <=> i \in r.portD
          /\ \A i \in Status : S!PortBit(r, <<"S", i>>) <=> i \in r.portC
          /\ \A i \in ControlBits : S!PortBit(r, <<"C", i>>) <=> i \in r.portB
      BY DEF S!PortBit
    <2>. QED BY <1>1, <2>1, BitsAreLines
  <1>. QED BY <1>2 DEF S!Reads, S!Device

LEMMA XorOfInts ==
  ASSUME NEW A, NEW B, A \subseteq Int, B \subseteq Int
  PROVE  S!Xor(A, B) \subseteq Int
  BY DEF S!Xor

LEMMA SavedTyped ==
  ASSUME NEW r \in S!Device, NEW f
  PROVE  S!Saved(r, f) \in Regsave
  <1> DEFINE p == S!Reads(r, f)
  <1>1. p.D \subseteq Data /\ p.S \subseteq Status /\ p.C \subseteq ControlBits
    BY ReadsTyped
  <1>. HIDE DEF p
  <1>2. Status \subseteq Int /\ ControlBits \subseteq Int
    BY LineBits
  <1>3. S!In1(r, p) \subseteq Int
    <2>1. (S!InvStatus \cap Status) \subseteq Int /\ p.S \subseteq Int
      BY <1>1, <1>2
    <2>2. S!Xor(p.S, S!InvStatus \cap Status) \subseteq Int
      BY <2>1, XorOfInts
    <2>3. {0, 1, 2} \subseteq Int
      OBVIOUS
    <2>. QED BY <2>1, <2>2, <2>3 DEF S!In1
  <1>4. S!In2Of(r, p.C) \subseteq Int
    <2>1. S!Xor(p.C, S!InvControl \cap ControlBits) \subseteq Int /\ p.C \subseteq Int
            /\ (r.dcr \cap {4, 5}) \subseteq Int
      <3>1. p.C \subseteq Int /\ (S!InvControl \cap ControlBits) \subseteq Int
        BY <1>1, <1>2
      <3>2. (r.dcr \cap {4, 5}) \subseteq Int
        OBVIOUS
      <3>. QED BY <3>1, <3>2, XorOfInts
    <2>. QED BY <2>1 DEF S!In2Of
  <1>. QED BY <1>1, <1>3, <1>4 DEF S!Saved, Regsave, S!Device, p

LEMMA StartStep ==
  ASSUME LinesInv, NEW f \in S!Faults, S!Start(f)
  PROVE  LinesInv' /\ (Careful /\ TestInv => TestInv')
  <1>1. /\ regs \in S!Device /\ test = NoTest /\ cycle = NoCycle /\ (Careful => past = {})
        /\ regs' = S!RegSet(regs) /\ test' = S!Begun(S!Saved(regs, f)) /\ fault' = f /\ before' = regs
        /\ past' = Everything /\ UNCHANGED <<cycle, high, failed, commands>>
    BY DEF S!Start, S!Begin, LinesInv, PromiseInv, S!TypeOK, Everything
  <1>2. test' \in Tests
    <2>1. S!FirstOf(S!Lines) \in S!Lines
      BY SomeLine, FirstIs
    <2>2. (Status \cap {3, 4, 5}) \ S!RegSet(regs).ddrC \in SUBSET Int
      OBVIOUS
    <2>. QED BY <1>1, <2>1, <2>2, SavedTyped DEF S!Begun, Tests
  <1>3. Plain(regs') /\ regs'.ddrC = Status
    BY <1>1, RegSetIs
  <1>4. LinesInv'
    <2>1. Careful => Promised(regs', Everything)
      BY <1>1, RegSetIs DEF LinesInv, PromiseInv, Rest
    <2>. QED BY <1>1, <1>2, <1>3, <2>1
             DEF LinesInv, PromiseInv, S!TypeOK, Rest, TestRuns, Plain, Spp, Everything
  <1>5. ASSUME Careful PROVE TestInv'
    <2>1. AllOut(regs') /\ Promised(before', {})
      BY <1>1, <1>5, RegSetIs DEF LinesInv, PromiseInv, Rest
    <2>2. /\ test'.at = "patterns" /\ test'.line = S!FirstOf(S!Lines) /\ test'.high = TRUE
               /\ test'.saved = S!Saved(regs, f)
          /\ test'.fail = (Status \cap {3, 4, 5}) \ regs'.ddrC
      BY <1>1 DEF S!Begun
    <2>3. test'.fail = {}
      BY <1>3, <2>2
    <2>4. \A l \in S!Lines : ~Passed(l)'
      <3>1. S!FirstOf(S!Lines) \in S!Lines /\ \A l \in S!Lines : S!Number(S!FirstOf(S!Lines)) <= S!Number(l)
        BY SomeLine, FirstIs
      <3>. QED BY <2>2, <3>1, Numbered DEF Passed
    <2>5. ASSUME f.short = {}, f.open = {} PROVE SavedRight'
      <3> DEFINE p == S!Reads(regs, f)
      <3>1. p.D = regs.portD /\ p.S = regs.portC /\ p.C = regs.portB
        BY <1>1, <2>5, SoundReads
      <3>. HIDE DEF p
      <3>2. S!Saved(regs, f) = [data |-> p.D, status |-> S!In1(regs, p), control |-> S!In2Of(regs, p.C),
                           mode |-> regs.mode, dirD |-> regs.ddrD, dirC |-> regs.ddrC, dirB |-> regs.ddrB, feature |-> regs.feature]
        BY DEF S!Saved, p
      <3>3. ~S!Direct(regs) => S!In1(regs, p) \cap Status = S!Xor(regs.portC, S!InvStatus \cap Status)
        <4>1. ~S!Direct(regs) => S!In1(regs, p) = S!Xor(regs.portC, S!InvStatus \cap Status)
                \cup {1, 2} \cup (IF regs.timeout THEN {0} ELSE {})
          BY <3>1 DEF S!In1
        <4>2. regs.portC \subseteq Status
          BY <1>1 DEF S!Device
        <4>. QED BY <4>1, <4>2, LineBits DEF S!Xor
      <3>4. ~S!Direct(regs) => S!In2Of(regs, p.C) = S!Xor(regs.portB, S!InvControl \cap ControlBits) \cup (regs.dcr \cap {4, 5})
        BY <3>1 DEF S!In2Of
      <3>5. /\ test'.saved.data = regs.portD
            /\ test'.saved.status = S!In1(regs, p) /\ test'.saved.control = S!In2Of(regs, p.C)
            /\ test'.saved.mode = regs.mode /\ test'.saved.feature = regs.feature
            /\ test'.saved.dirD = regs.ddrD /\ test'.saved.dirC = regs.ddrC
            /\ test'.saved.dirB = regs.ddrB
        BY <2>2, <3>1, <3>2
      <3>6. before' = regs
        BY <1>1
      <3>. QED BY <3>3, <3>4, <3>5, <3>6 DEF SavedRight
    <2>. QED BY <1>1, <2>1, <2>2, <2>3, <2>4, <2>5 DEF TestInv, Sound
  <1>. QED BY <1>4, <1>5

\* After a Check the registers are plain, and as promised.
LEMMA BundlePlain ==
  ASSUME NEW r, Plain(r), NEW D \in SUBSET Data, NEW St, NEW C
  PROVE  Plain(S!OutBundle(r, D, St, C)) /\ Promised(S!OutBundle(r, D, St, C), Everything)
  <1> DEFINE x == S!Out0(r, D)
             y == S!Out1(x, S!Xor(St, {7}) \cup {0, 1, 2})
             z == S!Out2(y, S!Xor(C, S!InvControl))
  <1>1. Plain(x)
    BY PlainData
  <1>2. Plain(y) /\ y.portC = (S!Xor(S!Xor(St, {7}) \cup {0, 1, 2}, S!InvStatus) \cup (Status \ x.ddrC)) \cap Status
        /\ y.ddrC = x.ddrC
    <2>. HIDE DEF x
    <2>. QED BY <1>1, PlainStatus DEF Plain, S!Device
  <1>3. Plain(z) /\ z.dcr = (S!Xor(C, S!InvControl) \ {5}) \cap S!DcrBits /\ z.portC = y.portC
          /\ z.ddrC = y.ddrC
        /\ z.portB = S!Xor(S!Xor(C, S!InvControl), S!InvControl) \cap ControlBits
    <2>. HIDE DEF y
    <2>1. /\ z = [y EXCEPT !.dcr = (S!Xor(C, S!InvControl) \ {5}) \cap S!DcrBits,
                           !.portB = S!Xor(S!Xor(C, S!InvControl), S!InvControl) \cap ControlBits]
          /\ Plain(z)
      BY <1>2, PlainControl
    <2>2. y \in S!Device
      BY <1>2 DEF Plain
    <2>. HIDE DEF z
    <2>. QED BY <2>1, <2>2 DEF S!Device
  <1>4. S!OutBundle(r, D, St, C) = z
    BY DEF S!OutBundle
  <1>. HIDE DEF x, y, z
  <1>5. Status \ z.ddrC \subseteq z.portC
    BY <1>2, <1>3
  <1>6. S!Xor((S!Xor(C, S!InvControl) \ {5}) \cap S!DcrBits, S!InvControl) \cap ControlBits
          = S!Xor(S!Xor(C, S!InvControl), S!InvControl) \cap ControlBits
    <2>1. ASSUME NEW i \in ControlBits
          PROVE  i \in (S!Xor(C, S!InvControl) \ {5}) \cap S!DcrBits <=> i \in S!Xor(C, S!InvControl)
      BY LineBits DEF S!DcrBits
    <2>. HIDE DEF S!InvControl
    <2>. QED BY <2>1 DEF S!Xor
  <1>. QED BY <1>3, <1>4, <1>5, <1>6 DEF Promised, Everything

LEMMA CheckTyped ==
  ASSUME NEW r, NEW D \in SUBSET Data, NEW St, NEW C, test.fail \in SUBSET Int
  PROVE  S!CheckOut(r, D, St, C) \in SUBSET Int
  <1> DEFINE p == S!Reads(r, fault)
             s == S!Xor(St, S!Xor(S!In1(r, p), {7})) \cap Status
             c == S!Xor(C, S!Xor(S!In2Of(r, p.C), S!InvControl)) \cap ControlBits
  <1>1. s \subseteq Int /\ c \subseteq Int
    <2>1. Status \subseteq Int /\ ControlBits \subseteq Int
      BY LineBits
    <2>. QED BY <2>1
  <1>2. p.D \subseteq Data /\ Data \subseteq Int
    BY LineBits, ReadsTyped
  <1>3. S!Differs(r, D, St, C) = S!Xor(D, p.D) \cup s \cup c
    BY DEF S!Differs
  <1>. HIDE DEF p, s, c
  <1>. QED BY <1>1, <1>2, <1>3 DEF S!CheckOut, S!Xor

\* A step that leaves the registers plain, and nothing but them and the test's state.
LEMMA TestStepTyped ==
  ASSUME LinesInv, test # NoTest, test' \in Tests, Plain(regs'), Promised(regs', Everything),
         UNCHANGED <<before, past, cycle, high, failed, commands>>
  PROVE  LinesInv'
  BY DEF LinesInv, PromiseInv, S!TypeOK, Rest, TestRuns, Plain, Spp, Everything

LEMMA PatternStep ==
  ASSUME LinesInv, S!Patterned
  PROVE  /\ LinesInv' /\ (Careful /\ TestInv => TestInv')
         /\ cycle' = NoCycle /\ regs'.mode = 0
  <1> DEFINE w == S!Pattern(test.line, test.high)
             r == S!OutBundle(regs, w.D, S!Wanted(regs, w.S), w.C)
             last == S!Behind(test.line) = {}
  <1>1. /\ regs \in S!Device /\ test # NoTest /\ test.at = "patterns" /\ test \in Tests
        /\ regs.feature = {} /\ regs.mode = 0
        /\ UNCHANGED <<fault, before, past, cycle, high, failed, commands>>
    BY DEF S!Patterned, S!At, LinesInv, PromiseInv, S!TypeOK, TestRuns
  <1>2. /\ regs' = r
        /\ test' = [test EXCEPT !.fail = S!CheckOut(r, w.D, S!Wanted(regs, w.S), w.C), !.high = ~@,
                               !.line = IF test.high \/ last THEN @ ELSE S!FirstOf(S!Behind(@)),
                               !.at = IF ~test.high /\ last THEN "pullups" ELSE @]
    BY DEF S!Patterned
  <1>3. Plain(regs)
    BY <1>1 DEF Plain, LinesInv, PromiseInv, Spp
  <1>4. w.D \subseteq Data /\ w.S \subseteq Status /\ w.C \subseteq ControlBits
    BY PatternTyped
  <1>5. test.line \in S!Lines /\ test.high \in BOOLEAN /\ test.fail \in SUBSET Int
    BY <1>1 DEF Tests
  <1>6. ~last => S!FirstOf(S!Behind(test.line)) \in S!Behind(test.line)
          /\ S!Behind(test.line) \subseteq S!Lines
                 /\ \A k \in S!Behind(test.line) : S!Number(S!FirstOf(S!Behind(test.line))) <= S!Number(k)
    BY FirstIs DEF S!Behind
  <1>. HIDE DEF w
  <1>7. Plain(r) /\ Promised(r, Everything)
    BY <1>3, <1>4, BundlePlain
  <1>8. S!CheckOut(r, w.D, S!Wanted(regs, w.S), w.C) \in SUBSET Int
    BY <1>4, <1>5, CheckTyped
  <1>. HIDE DEF r, last
  <1>9. /\ test' \in Tests
        /\ test'.fail = S!CheckOut(r, w.D, S!Wanted(regs, w.S), w.C) /\ test'.high = ~test.high
        /\ test'.line = (IF test.high \/ last THEN test.line ELSE S!FirstOf(S!Behind(test.line)))
        /\ test'.at = (IF ~test.high /\ last THEN "pullups" ELSE "patterns")
        /\ test'.saved = test.saved
    BY <1>1, <1>2, <1>5, <1>6, <1>8 DEF Tests
  <1>10. LinesInv'
    BY <1>1, <1>2, <1>7, <1>9, TestStepTyped DEF LinesInv
  <1>11. ASSUME Careful, TestInv PROVE TestInv'
    <2>1. /\ fault \in S!Faults /\ Promised(before, {}) /\ AllOut(regs)
          /\ Sound => test.fail = {} /\ SavedRight
          /\ \A l \in fault.short \cap S!Lines : Passed(l) => test.fail # {}
      BY <1>1, <1>11 DEF TestInv
    <2>2. S!Wanted(regs, w.S) = w.S
      BY <2>1 DEF S!Wanted, AllOut
    <2>3. r.portD = w.D /\ r.portC = w.S /\ r.portB = w.C /\ AllOut(r)
      <3>1. r = S!OutBundle(regs, w.D, w.S, w.C)
        BY <2>2 DEF r
      <3>2. regs.ddrC = Status
        BY <2>1 DEF AllOut
      <3>3. /\ r.portD = w.D /\ r.portC = w.S /\ r.portB = w.C
            /\ r.ddrD = regs.ddrD /\ r.ddrC = regs.ddrC /\ r.ddrB = regs.ddrB
        <4>1. w.D \in SUBSET Data /\ w.S \in SUBSET Status /\ w.C \in SUBSET ControlBits
          BY <1>4
        <4>2. BundleDrives(regs, w.D, w.S, w.C)
          BY <1>3, <3>2, <4>1, BundleIs
        <4>. QED BY <3>1, <4>2 DEF BundleDrives
      <3>. QED BY <2>1, <3>3 DEF AllOut
    <2>4. test'.fail = test.fail \cup S!Differs(r, r.portD, r.portC, r.portB)
      BY <1>9, <2>2, <2>3 DEF S!CheckOut
    <2>5. S!Differs(r, r.portD, r.portC, r.portB) = {} <=> Agrees(r)
      BY <1>7, PlainIs, VerdictOf
    <2>6. \A k \in S!Lines : S!PortBit(r, k) <=> (k = test.line) = test.high
      BY <1>5, <2>3, PatternIs DEF w
    <2>7. \A l \in S!Lines : S!IsOutput(r, l)
      BY <2>3, AllOutputs
    <2>8. Sound => test'.fail = {}
      BY <2>1, <2>4, <2>5, <2>7, DrivenSound DEF Sound
    <2>9. ASSUME test.high, test.line \in fault.short PROVE test'.fail # {}
      <3>1. PICK a \in S!Lines, b \in S!Lines \cup {S!Ground} : a # b /\ fault.short = {a, b}
        BY <2>1, <2>9, FaultIs
      <3>2. \A k \in S!Lines : S!PortBit(r, k) <=> k = test.line
        BY <2>6, <2>9
      <3>3. test.line = a \/ (b \in S!Lines /\ test.line = b)
        BY <1>5, <2>9, <3>1
      <3>4. ~Agrees(r)
        BY <2>7, <3>1, <3>2, <3>3, DrivenShort
      <3>. QED BY <2>4, <2>5, <3>4
    <2>10. test.fail \subseteq test'.fail
      BY <2>4
    <2>11. \A l \in fault.short \cap S!Lines : Passed(l)' /\ test'.at = "patterns" => test'.fail # {}
      <3> SUFFICES ASSUME NEW l \in fault.short \cap S!Lines, Passed(l)', test'.at = "patterns"
                   PROVE  test'.fail # {}
        OBVIOUS
      <3>1. CASE test.high
        <4>1. S!Number(l) < S!Number(test.line) \/ l = test.line
          BY <1>9, <3>1 DEF Passed
        <4>. QED BY <2>1, <2>9, <2>10, <3>1, <4>1 DEF Passed
      <3>2. CASE ~test.high
        <4>1. ~last /\ test'.line = S!FirstOf(S!Behind(test.line)) /\ test'.high
          BY <1>5, <1>9, <3>2
        <4>2. S!Number(l) < S!Number(S!FirstOf(S!Behind(test.line)))
          BY <4>1 DEF Passed
        <4>3. l \notin S!Behind(test.line)
          BY <1>6, <4>1, <4>2, Numbered
        <4>4. S!Number(l) <= S!Number(test.line)
          BY <1>5, <4>3, Numbered DEF S!Behind
        <4>5. Passed(l)
          BY <1>5, <3>2, <4>4, Numbered DEF Passed
        <4>. QED BY <2>1, <2>10, <4>5
      <3>. QED BY <1>5, <3>1, <3>2
    <2>12. ASSUME test'.at = "pullups" PROVE r.portD = Data /\ (fault.short # {} => test'.fail # {})
      <3>1. ~test.high /\ S!Behind(test.line) = {}
        BY <1>9, <2>12 DEF last
      <3>2. test.line[1] = "C" /\ \A k \in S!Lines : S!Number(k) <= S!Number(test.line)
        BY <1>5, <3>1, LastIsControl
      <3>3. w.D = Data
        BY <1>5, <3>1, <3>2 DEF w, S!Pattern
      <3>4. ASSUME fault.short # {} PROVE test'.fail # {}
        <4>1. PICK a \in S!Lines : a \in fault.short
          BY <2>1, <3>4, FaultIs
        <4>2. S!Number(a) <= S!Number(test.line)
          BY <3>2
        <4>3. Passed(a)
          BY <1>5, <3>1, <4>2, Numbered DEF Passed
        <4>. QED BY <2>1, <2>10, <4>1, <4>3
      <3>. QED BY <2>3, <3>3, <3>4
    <2>13. Sound' = Sound /\ SavedRight' = SavedRight
      BY <1>1, <1>9 DEF Sound, SavedRight
    <2>14. test'.at \in {"patterns", "pullups"}
      BY <1>9
    <2>. QED BY <1>1, <1>2, <2>1, <2>3, <2>8, <2>11, <2>12, <2>13, <2>14 DEF TestInv
  <1>12. cycle' = NoCycle /\ regs'.mode = 0
    BY <1>1, <1>2, <1>7 DEF Plain, LinesInv, TestRuns
  <1>. QED BY <1>10, <1>11, <1>12

\* All lines inputs, and pulled up.
LEMMA ClearedIs ==
  ASSUME Plain(regs)
  PROVE  /\ Plain(S!DdrClr(regs)) /\ Promised(S!DdrClr(regs), Everything)
         /\ S!DdrClr(regs).portD = regs.portD /\ S!DdrClr(regs).portC = Status
              /\ S!DdrClr(regs).portB = ControlBits
         /\ S!DdrClr(regs).ddrD = {} /\ S!DdrClr(regs).ddrC = {} /\ S!DdrClr(regs).ddrB = {}
  <1> DEFINE x == S!Out2(regs, {2, 4, 5})
             y == S!Out404(x, {})
             z == S!Out405(y, {})
             r == S!Out406(z, {})
  <1>1. Plain(x) /\ x.portB = S!Xor({2, 4, 5}, S!InvControl) \cap ControlBits /\ x.portD = regs.portD
        /\ x.dcr = ({2, 4, 5} \ {5}) \cap S!DcrBits
    <2>1. x = [regs EXCEPT !.dcr = ({2, 4, 5} \ {5}) \cap S!DcrBits, !.portB = S!Xor({2, 4, 5}, S!InvControl) \cap ControlBits]
          /\ Plain(x)
      BY PlainControl
    <2>. HIDE DEF x
    <2>. QED BY <2>1 DEF Plain, S!Device
  <1>2. x.portB = ControlBits /\ S!Xor(x.dcr, S!InvControl) \cap ControlBits = ControlBits
    <2>1. ASSUME NEW i \in ControlBits PROVE i \in S!Xor({2, 4, 5}, S!InvControl)
                   /\ i \in S!Xor(x.dcr, S!InvControl)
      <3>1. i \in {0, 1, 2, 3} /\ i \in S!DcrBits
        BY LineBits DEF S!DcrBits
      <3>2. i \in x.dcr <=> i = 2
        BY <1>1, <3>1
      <3>. HIDE DEF x
      <3>. QED BY <3>1, <3>2 DEF S!Xor, S!InvControl
    <2>. HIDE DEF x
    <2>. QED BY <1>1, <2>1
  <1>. HIDE DEF x
  <1>3. y = [x EXCEPT !.ddrD = {}]
    BY DEF S!Out404
  <1>4. y \in S!Device /\ ~S!Direct(y)
    BY <1>1, <1>3 DEF Plain, S!Device, S!Direct
  <1>5. z = [y EXCEPT !.ddrC = {}, !.portC = Status]
    <2>1. {} \cap Status = {} /\ y.portC \cup (Status \ {}) = Status
      BY <1>4 DEF S!Device
    <2>. HIDE DEF y
    <2>. QED BY <1>4, <2>1 DEF S!Out405, S!Out405Dir, S!Device
  <1>6. r = [z EXCEPT !.ddrB = {}]
    BY DEF S!Out406
  <1>7. S!DdrClr(regs) = r
    BY DEF S!DdrClr, x
  <1>. HIDE DEF y, z, r
  <1>8. /\ y \in S!Device /\ y.feature = {} /\ y.mode = 0 /\ y.dcr = x.dcr /\ y.portD = regs.portD
             /\ y.portB = ControlBits /\ y.ddrD = {}
    BY <1>1, <1>2, <1>3 DEF Plain, S!Device
  <1>9. /\ z \in S!Device /\ z.feature = {} /\ z.mode = 0 /\ z.dcr = x.dcr /\ z.portD = regs.portD
             /\ z.portB = ControlBits /\ z.ddrD = {}
        /\ z.ddrC = {} /\ z.portC = Status
    BY <1>5, <1>8 DEF S!Device
  <1>10. /\ r \in S!Device /\ r.feature = {} /\ r.mode = 0 /\ r.dcr = x.dcr /\ r.portD = regs.portD
              /\ r.portB = ControlBits /\ r.ddrD = {}
        /\ r.ddrC = {} /\ r.portC = Status /\ r.ddrB = {}
    BY <1>6, <1>9 DEF S!Device
  <1>11. ~S!Input(r)
    BY <1>1, <1>10 DEF Plain, S!Input
  <1>12. Promised(r, Everything)
    BY <1>2, <1>10 DEF Promised, Everything
  <1>. QED BY <1>7, <1>10, <1>11, <1>12 DEF Plain

LEMMA PullUpStep ==
  ASSUME LinesInv, S!PullUps
  PROVE  /\ LinesInv' /\ (Careful /\ TestInv => TestInv')
         /\ cycle' = NoCycle /\ regs'.mode = 0
  <1> DEFINE r == S!DdrClr(regs)
  <1>1. /\ regs \in S!Device /\ test # NoTest /\ test.at = "pullups" /\ test \in Tests
        /\ regs.feature = {} /\ regs.mode = 0
        /\ UNCHANGED <<fault, before, past, cycle, high, failed, commands>>
    BY DEF S!PullUps, S!At, LinesInv, PromiseInv, S!TypeOK, TestRuns
  <1>2. regs' = r /\ test' = [test EXCEPT !.fail = S!CheckOut(r, Data, Status, ControlBits), !.at = "leds"]
    BY DEF S!PullUps
  <1>3. Plain(regs)
    BY <1>1 DEF Plain, LinesInv, PromiseInv, Spp
  <1>4. /\ Plain(r) /\ Promised(r, Everything)
        /\ r.portD = regs.portD /\ r.portC = Status /\ r.portB = ControlBits
        /\ r.ddrD = {} /\ r.ddrC = {} /\ r.ddrB = {}
    BY <1>3, ClearedIs
  <1>. HIDE DEF r
  <1>5. S!CheckOut(r, Data, Status, ControlBits) \in SUBSET Int
    <2>1. test.fail \in SUBSET Int
      BY <1>1 DEF Tests
    <2>. QED BY <2>1, CheckTyped
  <1>6. /\ test' \in Tests /\ test'.fail = S!CheckOut(r, Data, Status, ControlBits) /\ test'.at = "leds"
        /\ test'.saved = test.saved
    BY <1>1, <1>2, <1>5 DEF Tests
  <1>7. LinesInv'
    BY <1>1, <1>2, <1>4, <1>6, TestStepTyped DEF LinesInv
  <1>8. ASSUME Careful, TestInv PROVE TestInv'
    <2>1. /\ fault \in S!Faults /\ Promised(before, {}) /\ regs.portD = Data
          /\ Sound => test.fail = {} /\ SavedRight
          /\ fault.short # {} => test.fail # {}
      BY <1>1, <1>8 DEF TestInv
    <2>2. test'.fail = test.fail \cup S!Differs(r, r.portD, r.portC, r.portB)
      BY <1>4, <1>6, <2>1 DEF S!CheckOut
    <2>3. S!Differs(r, r.portD, r.portC, r.portB) = {} <=> Agrees(r)
      BY <1>4, PlainIs, VerdictOf
    <2>4. \A l \in S!Lines : ~S!IsOutput(r, l) /\ S!PortBit(r, l)
      <3>1. /\ \A i \in Data : ~S!IsOutput(r, <<"D", i>>) /\ S!PortBit(r, <<"D", i>>)
            /\ \A i \in Status : ~S!IsOutput(r, <<"S", i>>) /\ S!PortBit(r, <<"S", i>>)
            /\ \A i \in ControlBits : ~S!IsOutput(r, <<"C", i>>) /\ S!PortBit(r, <<"C", i>>)
        BY <1>4, <2>1 DEF S!IsOutput, S!PortBit
      <3>. QED BY <3>1, BitsAreLines
    <2>5. fault.short = {} => (Agrees(r) <=> fault.open = {})
      BY <2>1, <2>4, PulledUp
    <2>6. fault.open # {} => fault.short = {}
      BY <2>1, FaultIs
    <2>7. /\ Sound => test'.fail = {}
          /\ fault.short # {} \/ fault.open # {} => test'.fail # {}
      BY <2>1, <2>2, <2>3, <2>5, <2>6 DEF Sound
    <2>8. Sound' = Sound /\ SavedRight' = SavedRight
      BY <1>1, <1>6 DEF Sound, SavedRight
    <2>. QED BY <1>1, <1>6, <2>1, <2>7, <2>8 DEF TestInv
  <1>9. cycle' = NoCycle /\ regs'.mode = 0
    BY <1>1, <1>2, <1>4 DEF Plain, LinesInv, TestRuns
  <1>. QED BY <1>7, <1>8, <1>9

LEMMA LedStep ==
  ASSUME LinesInv, S!Leds
  PROVE  /\ LinesInv' /\ (Careful /\ TestInv => TestInv')
         /\ cycle' = NoCycle /\ regs'.mode = 0
  <1> DEFINE y == S!Out404(regs, Data)
             z == S!Out405(y, Status)
             r == S!Out406(z, ControlBits)
  <1>1. /\ regs \in S!Device /\ test # NoTest /\ test.at = "leds" /\ test \in Tests
        /\ regs.feature = {} /\ regs.mode = 0
        /\ UNCHANGED <<fault, before, past, cycle, high, failed, commands>>
    BY DEF S!Leds, S!At, LinesInv, PromiseInv, S!TypeOK, TestRuns
  <1>2. regs' = (IF test.fail = {} THEN r ELSE regs) /\ test' = [test EXCEPT !.at = "restore"]
    BY DEF S!Leds
  <1>3. Plain(regs) /\ (Careful => Promised(regs, Everything))
    <2>1. cycle = NoCycle /\ past = Everything
      BY <1>1 DEF LinesInv, TestRuns
    <2>. QED BY <1>1, <2>1 DEF Plain, LinesInv, PromiseInv, Spp, Rest
  <1>4. y \in S!Device /\ y = [regs EXCEPT !.ddrD = Data] /\ ~S!Direct(y)
    BY <1>1, BackDoorTyped DEF S!Out404, S!Device, S!Direct
  <1>. HIDE DEF y
  <1>5. z = [y EXCEPT !.ddrC = Status, !.portC = y.portC \cup (Status \ Status)]
    <2>1. Status \cap Status = Status
      OBVIOUS
    <2>. QED BY <1>4, <2>1 DEF S!Out405, S!Out405Dir, S!Device
  <1>6. r = [z EXCEPT !.ddrB = ControlBits]
    <2>1. ControlBits \cap ControlBits = ControlBits
      OBVIOUS
    <2>. QED BY <2>1 DEF S!Out406
  <1>. HIDE DEF z, r
  <1>7. z \in S!Device /\ z.feature = regs.feature /\ z.mode = regs.mode /\ z.dcr = regs.dcr
          /\ z.portB = regs.portB /\ z.ddrC = Status
    BY <1>4, <1>5 DEF S!Device
  <1>8. r \in S!Device /\ r.feature = regs.feature /\ r.mode = regs.mode /\ r.dcr = regs.dcr
          /\ r.portB = regs.portB /\ r.ddrC = Status
    BY <1>6, <1>7 DEF S!Device
  <1>9. Plain(r) /\ (Promised(regs, Everything) => Promised(r, Everything))
    BY <1>3, <1>8 DEF Plain, S!Input, Promised, S!Direct, Everything
  <1>10. test' \in Tests /\ test'.fail = test.fail /\ test'.at = "restore" /\ test'.saved = test.saved
    BY <1>1, <1>2 DEF Tests
  <1>11. LinesInv'
    <2>1. Plain(regs') /\ (Careful => Promised(regs', Everything))
      BY <1>2, <1>3, <1>9
    <2>. QED BY <1>1, <1>10, <2>1 DEF LinesInv, PromiseInv, S!TypeOK, Rest, TestRuns, Plain, Spp,
       Everything
  <1>12. ASSUME Careful, TestInv PROVE TestInv'
    <2>1. /\ fault \in S!Faults /\ Promised(before, {})
          /\ Sound => test.fail = {} /\ SavedRight
          /\ fault.short # {} \/ fault.open # {} => test.fail # {}
      BY <1>1, <1>12 DEF TestInv
    <2>2. Sound' = Sound /\ SavedRight' = SavedRight
      BY <1>1, <1>10 DEF Sound, SavedRight
    <2>. QED BY <1>1, <1>2, <1>8, <1>10, <2>1, <2>2 DEF TestInv
  <1>13. cycle' = NoCycle /\ regs'.mode = 0
    BY <1>1, <1>2, <1>3, <1>9 DEF Plain, LinesInv, TestRuns
  <1>. QED BY <1>11, <1>12, <1>13

\* The registers written back.
Restored(r, s) == S!LastFour(S!FirstFour(r, s), s)

RestoredFields(q, r, s) ==
  /\ q \in S!Device
  /\ q.portD = s.data /\ q.data = s.data
  /\ q.ddrD = IF S!OpenData \in s.feature /\ S!DirectIO \notin s.feature THEN Data \ s.data ELSE s.dirD
  /\ q.portC = ((S!Xor(s.status, S!InvStatus) \cup (Status \ r.ddrC)) \cap Status) \cup (Status \ s.dirC)
  /\ q.ddrC = s.dirC
  /\ q.portB = S!Xor(s.control, S!InvControl) \cap ControlBits
  /\ q.ddrB = IF S!OpenControl \in s.feature
       /\ S!DirectIO \notin s.feature THEN ControlBits \ q.portB ELSE s.dirB
  /\ q.dcr = (s.control \ {5}) \cap S!DcrBits
  /\ q.mode = s.mode /\ q.feature = s.feature

LEMMA RestoredIs ==
  ASSUME NEW r, Plain(r), NEW s \in Regsave
  PROVE  RestoredFields(Restored(r, s), r, s)
  <1> DEFINE a == S!Out0(r, s.data)
             b == S!Out1(a, s.status)
             c == S!Out2(b, s.control)
             m == S!Out402(c, s.mode)
             x == S!Out404(m, s.dirD)
             y == S!Out405(x, s.dirC)
             z == S!Out406(y, s.dirB)
             t == S!FeatureData(z, s.feature)
             q == S!FeatureControl(z, s.feature)
  <1>1. Restored(r, s) = S!Out407(z, s.feature)
    BY DEF Restored, S!LastFour, S!FirstFour
  <1>2. /\ r \in S!Device
        /\ s.data \subseteq Data /\ s.dirD \subseteq Data /\ s.dirC \subseteq Status
             /\ s.dirB \subseteq ControlBits
        /\ s.mode \in PortModes /\ s.feature \in PortFeatures
    BY DEF Plain, Regsave
  <1>3. Plain(a) /\ a.portD = s.data /\ a.data = s.data /\ a.ddrC = r.ddrC
    <2>1. a = [r EXCEPT !.data = s.data, !.portD = s.data] /\ Plain(a)
      BY <1>2, PlainData
    <2>. HIDE DEF a
    <2>. QED BY <1>2, <2>1 DEF S!Device
  <1>. HIDE DEF a
  <1>4. Plain(b) /\ b.portD = s.data /\ b.data = s.data
        /\ b.portC = (S!Xor(s.status, S!InvStatus) \cup (Status \ r.ddrC)) \cap Status
    <2>1. b = [a EXCEPT !.portC = (S!Xor(s.status, S!InvStatus) \cup (Status \ a.ddrC)) \cap Status]
            /\ Plain(b)
      BY <1>3, PlainStatus
    <2>. HIDE DEF b
    <2>. QED BY <1>3, <2>1 DEF Plain, S!Device
  <1>. HIDE DEF b
  <1>5. Plain(c) /\ c.portD = s.data /\ c.data = s.data /\ c.portC = b.portC
        /\ c.dcr = (s.control \ {5}) \cap S!DcrBits
             /\ c.portB = S!Xor(s.control, S!InvControl) \cap ControlBits
    <2>1. c = [b EXCEPT !.dcr = (s.control \ {5}) \cap S!DcrBits, !.portB = S!Xor(s.control, S!InvControl) \cap ControlBits]
          /\ Plain(c)
      BY <1>4, PlainControl
    <2>. HIDE DEF c
    <2>. QED BY <1>4, <2>1 DEF Plain, S!Device
  <1>. HIDE DEF c
  <1>6. /\ m \in S!Device /\ m.feature = {} /\ ~S!Input(m)
        /\ m.portD = s.data /\ m.data = s.data /\ m.portC = b.portC /\ m.portB = c.portB /\ m.dcr = c.dcr
        /\ m.mode = s.mode
    <2>1. m = [c EXCEPT !.mode = s.mode, !.timeout = s.mode # 4]
      BY <1>5 DEF S!Out402, S!Fixed, Plain, S!Out402First
    <2>. HIDE DEF m
    <2>. QED BY <1>2, <1>5, <2>1 DEF Plain, S!Device, S!Input
  <1>. HIDE DEF m
  <1>7. /\ x \in S!Device /\ x.feature = {} /\ ~S!Input(x) /\ x.ddrD = s.dirD
        /\ x.portD = s.data /\ x.data = s.data /\ x.portC = b.portC /\ x.portB = c.portB /\ x.dcr = c.dcr
        /\ x.mode = s.mode
    BY <1>2, <1>6 DEF S!Out404, S!Device, S!Input
  <1>. HIDE DEF x
  <1>8. /\ y \in S!Device /\ y.feature = {} /\ ~S!Input(y) /\ y.ddrD = s.dirD
        /\ y.portD = s.data /\ y.data = s.data /\ y.portB = c.portB /\ y.dcr = c.dcr /\ y.mode = s.mode
        /\ y.ddrC = s.dirC /\ y.portC = b.portC \cup (Status \ s.dirC)
    <2>1. ~S!Direct(x) /\ s.dirC \cap Status = s.dirC
      BY <1>2, <1>7 DEF S!Direct
    <2>2. y = [x EXCEPT !.ddrC = s.dirC, !.portC = x.portC \cup (Status \ s.dirC)]
      BY <1>7, <2>1 DEF S!Out405, S!Out405Dir, S!Device
    <2>. HIDE DEF y
    <2>. QED BY <1>2, <1>7, <2>2 DEF S!Device, S!Input
  <1>. HIDE DEF y
  <1>9. /\ z \in S!Device /\ z.feature = {} /\ ~S!Input(z) /\ z.ddrD = s.dirD
        /\ z.portD = s.data /\ z.data = s.data /\ z.portB = c.portB /\ z.dcr = c.dcr /\ z.mode = s.mode
        /\ z.ddrC = s.dirC /\ z.portC = b.portC \cup (Status \ s.dirC) /\ z.ddrB = s.dirB
    <2>1. z = [y EXCEPT !.ddrB = s.dirB]
      <3>1. s.dirB \cap ControlBits = s.dirB
        BY <1>2
      <3>. QED BY <3>1 DEF S!Out406
    <2>. HIDE DEF z
    <2>. QED BY <1>2, <1>8, <2>1 DEF S!Device, S!Input
  <1>. HIDE DEF z
  <1>10. S!Changed(z, s.feature, S!OpenData) = (S!OpenData \in s.feature)
         /\ S!Changed(z, s.feature, S!OpenControl) = (S!OpenControl \in s.feature)
              /\ ~S!LeavesDirect(z, s.feature)
    BY <1>9 DEF S!Changed, S!LeavesDirect, S!Direct
  <1>11. /\ t \in S!Device /\ t.feature = s.feature
         /\ t.ddrD = IF S!OpenData \in s.feature /\ S!DirectIO \notin s.feature THEN Data \ s.data ELSE s.dirD
         /\ t.portD = s.data /\ t.data = s.data /\ t.portB = c.portB /\ t.dcr = c.dcr /\ t.mode = s.mode
         /\ t.ddrC = s.dirC /\ t.portC = z.portC /\ t.ddrB = s.dirB
    <2>1. t \in S!Device
      BY <1>2, <1>9, FeatureTyped
    <2>. QED BY <1>2, <1>9, <1>10, <2>1 DEF S!FeatureData, S!DrivenData, S!Device
  <1>12. q = IF S!OpenControl \in s.feature /\ S!DirectIO \notin s.feature
             THEN [t EXCEPT !.ddrB = ControlBits \ t.portB] ELSE t
    <2>. HIDE DEF t
    <2>1. q = IF S!Changed(z, s.feature, S!OpenControl) /\ S!DirectIO \notin s.feature
              THEN [t EXCEPT !.ddrB = IF S!OpenControl \in s.feature THEN ControlBits \ t.portB ELSE ControlBits] ELSE t
      BY DEF S!FeatureControl, t
    <2>. QED BY <1>10, <2>1
  <1>13. S!Out407(z, s.feature) = q
    BY <1>10 DEF S!Out407
  <1>14. q \in S!Device
    BY <1>2, <1>9, FeatureTyped
  <1>. HIDE DEF t, q
  <1>15. /\ q.feature = s.feature /\ q.ddrD = t.ddrD /\ q.portD = s.data /\ q.data = s.data
         /\ q.portB = c.portB /\ q.dcr = c.dcr /\ q.mode = s.mode /\ q.ddrC = s.dirC /\ q.portC = z.portC
         /\ q.ddrB = IF S!OpenControl \in s.feature
              /\ S!DirectIO \notin s.feature THEN ControlBits \ c.portB ELSE s.dirB
    BY <1>11, <1>12 DEF S!Device
  <1>16. RestoredFields(q, r, s)
    BY <1>4, <1>5, <1>9, <1>11, <1>14, <1>15 DEF RestoredFields
  <1>. QED BY <1>1, <1>13, <1>16

LEMMA RestoredPromises ==
  ASSUME NEW r, NEW s \in Regsave, NEW q, RestoredFields(q, r, s)
  PROVE  ~S!Input(q) /\ Promised(q, Everything)
  <1>1. ~S!Input(q)
    BY DEF RestoredFields, S!Input
  <1>2. q.portB = S!Xor(q.dcr, S!InvControl) \cap ControlBits
    <2>1. ASSUME NEW i \in ControlBits PROVE i \in (s.control \ {5}) \cap S!DcrBits <=> i \in s.control
      BY LineBits DEF S!DcrBits
    <2>. HIDE DEF S!InvControl
    <2>. QED BY <2>1 DEF RestoredFields, S!Xor
  <1>3. Status \ q.ddrC \subseteq q.portC
    BY DEF RestoredFields
  <1>. QED BY <1>1, <1>2, <1>3 DEF Promised, Everything

\* What is saved is what is found, if the device is sound.
LEMMA RestoredRight ==
  ASSUME NEW r, r.ddrC = Status, test.saved \in Regsave, NEW q, RestoredFields(q, r, test.saved),
         before \in S!Device, Promised(before, {}), SavedRight, ~S!Input(before), ~S!Direct(before)
  PROVE  q = [before EXCEPT !.timeout = q.timeout]
  <1> DEFINE s == test.saved
  <1>1. /\ before.ddrD = S!DrivenData(before) /\ before.portD = before.data
        /\ before.portB = S!Xor(before.dcr, S!InvControl) \cap ControlBits
        /\ before.ddrB = IF S!OpenControl \in before.feature THEN ControlBits \ before.portB ELSE ControlBits
        /\ Status \ before.ddrC \subseteq before.portC
    BY DEF Promised
  <1>2. /\ s.data = before.portD /\ s.mode = before.mode /\ s.feature = before.feature
        /\ s.dirD = before.ddrD /\ s.dirC = before.ddrC /\ s.dirB = before.ddrB
        /\ s.status \cap Status = S!Xor(before.portC, S!InvStatus \cap Status)
        /\ s.control = S!Xor(before.portB, S!InvControl \cap ControlBits) \cup (before.dcr \cap {4, 5})
    BY DEF SavedRight
  <1>3. S!DirectIO \notin before.feature /\ 5 \notin before.dcr
    BY DEF S!Direct, S!Input
  <1>. HIDE DEF s
  <1>4. RestoredFields(q, r, s)
    BY DEF s
  <1>5. q.portD = before.portD /\ q.data = before.data /\ q.ddrD = before.ddrD
        /\ q.mode = before.mode /\ q.feature = before.feature /\ q.ddrC = before.ddrC
    BY <1>1, <1>2, <1>3, <1>4 DEF RestoredFields, S!DrivenData
  <1>6. q.portC = before.portC
    <2>1. before.portC \subseteq Status
      BY DEF S!Device
    <2>2. q.portC = (S!Xor(s.status, S!InvStatus) \cap Status) \cup (Status \ before.ddrC)
      BY <1>2, <1>4 DEF RestoredFields
    <2>3. ASSUME NEW i \in Status PROVE i \in S!Xor(s.status, S!InvStatus) <=> i \in before.portC
      <3>1. i \in s.status <=> i \in S!Xor(before.portC, S!InvStatus \cap Status)
        BY <1>2
      <3>. HIDE DEF S!InvStatus
      <3>. QED BY <3>1 DEF S!Xor
    <2>. QED BY <1>1, <2>1, <2>2, <2>3
  <1>7. q.dcr = before.dcr
    <2>1. before.dcr \subseteq S!DcrBits /\ q.dcr = (s.control \ {5}) \cap S!DcrBits
      BY <1>4 DEF RestoredFields, S!Device
    <2>2. ASSUME NEW i \in S!DcrBits PROVE i \in q.dcr <=> i \in before.dcr
      <3>1. CASE i \in ControlBits
        <4>1. i \notin {4, 5} /\ (i \in before.portB <=> i \in S!Xor(before.dcr, S!InvControl))
          BY <1>1, <3>1, LineBits
        <4>2. i \in s.control <=> i \in S!Xor(before.portB, S!InvControl \cap ControlBits)
          BY <1>2, <4>1
        <4>. HIDE DEF S!InvControl
        <4>3. i \in s.control <=> i \in before.dcr
          BY <3>1, <4>1, <4>2 DEF S!Xor
        <4>. QED BY <2>1, <4>1, <4>3
      <3>2. CASE i \in {4, 5}
        <4>1. i \notin ControlBits
          BY <3>2, LineBits
        <4>2. i \notin S!Xor(before.portB, S!InvControl \cap ControlBits)
          BY <1>1, <4>1 DEF S!Xor
        <4>. QED BY <1>2, <1>3, <2>1, <3>2, <4>2
      <3>. QED BY <3>1, <3>2 DEF S!DcrBits
    <2>. QED BY <2>1, <2>2
  <1>8. q.portB = before.portB
    <2>1. q.portB = S!Xor(q.dcr, S!InvControl) \cap ControlBits
      <3>1. ASSUME NEW i \in ControlBits PROVE i \in (s.control \ {5}) \cap S!DcrBits <=> i \in s.control
        BY LineBits DEF S!DcrBits
      <3>. HIDE DEF S!InvControl
      <3>. QED BY <1>4, <3>1 DEF RestoredFields, S!Xor
    <2>. QED BY <1>1, <1>7, <2>1
  <1>9. q.ddrB = before.ddrB
    BY <1>1, <1>2, <1>3, <1>4, <1>8 DEF RestoredFields
  <1>10. q \in S!Device
    BY <1>4 DEF RestoredFields
  <1>. QED BY <1>5, <1>6, <1>7, <1>8, <1>9, <1>10 DEF S!Device

LEMMA RestoreStep ==
  ASSUME LinesInv, S!Restore
  PROVE  /\ LinesInv' /\ (Careful /\ TestInv => TestInv')
         /\ cycle' = NoCycle /\ (regs'.mode = 4 => ~failed')
  <1> DEFINE s == test.saved
  <1>1. /\ regs \in S!Device /\ test # NoTest /\ test.at = "restore" /\ test \in Tests
        /\ regs.feature = {} /\ regs.mode = 0 /\ s \in Regsave
        /\ cycle = NoCycle /\ past = Everything
        /\ UNCHANGED <<fault, before, past, cycle, high, commands>>
    BY DEF S!Restore, S!At, LinesInv, PromiseInv, S!TypeOK, TestRuns, Tests
  <1>2. regs' = Restored(regs, s) /\ test' = [test EXCEPT !.at = "done"] /\ failed' = (failed /\ s.mode # 4)
    BY DEF S!Restore, Restored
  <1>3. Plain(regs)
    BY <1>1 DEF Plain, LinesInv, PromiseInv, Spp
  <1>. HIDE DEF s
  <1>4. RestoredFields(regs', regs, s)
    BY <1>1, <1>2, <1>3, RestoredIs
  <1>5. ~S!Input(regs') /\ Promised(regs', Everything) /\ regs' \in S!Device
    <2>1. regs' \in S!Device
      BY <1>4 DEF RestoredFields
    <2>. QED BY <1>1, <1>4, <2>1, RestoredPromises
  <1>6. /\ test' \in Tests /\ test'.fail = test.fail /\ test'.at = "done" /\ test'.saved = test.saved
    BY <1>1, <1>2 DEF Tests
  <1>7. LinesInv'
    <2>1. S!TypeOK'
      BY <1>1, <1>2, <1>5 DEF LinesInv, PromiseInv, S!TypeOK
    <2>2. Spp(regs') /\ Promised(Rest(regs', cycle'), past')
      BY <1>1, <1>5 DEF Spp, Rest
    <2>3. TestRuns' /\ before' \in S!Device
      BY <1>1, <1>6 DEF TestRuns, LinesInv
    <2>. QED BY <2>1, <2>2, <2>3 DEF LinesInv, PromiseInv
  <1>8. ASSUME Careful, TestInv PROVE TestInv'
    <2>1. /\ fault \in S!Faults /\ Promised(before, {})
          /\ Sound => test.fail = {} /\ SavedRight
          /\ fault.short # {} \/ fault.open # {} => test.fail # {}
          /\ test.fail = {} => regs.ddrC = Status
      BY <1>1, <1>8 DEF TestInv
    <2>2. Sound' = Sound /\ SavedRight' = SavedRight
      BY <1>1, <1>6 DEF Sound, SavedRight
    <2>3. ASSUME Sound, ~S!Input(before), ~S!Direct(before)
          PROVE  regs' = [before EXCEPT !.timeout = regs'.timeout]
      <3>1. regs.ddrC = Status /\ SavedRight /\ before \in S!Device
        BY <2>1, <2>3 DEF LinesInv
      <3>2. test.saved \in Regsave /\ RestoredFields(regs', regs, test.saved)
        BY <1>1, <1>4 DEF s
      <3>. QED BY <2>1, <2>3, <3>1, <3>2, RestoredRight
    <2>. QED BY <1>1, <1>6, <2>1, <2>2, <2>3 DEF TestInv
  <1>9. cycle' = NoCycle /\ (regs'.mode = 4 => ~failed')
    BY <1>1, <1>2, <1>4 DEF RestoredFields
  <1>. QED BY <1>7, <1>8, <1>9
-----------------------------------------------------------------------------
(* The device, and the test in it *)

LEMMA InitLinesInv ==
  S!TestInit => LinesInv /\ TestInv
  BY InitPromise, InitLines DEF S!TestInit, LinesInv, TestRuns, TestInv

LEMMA NextLinesInv ==
  ASSUME LinesInv, [S!TestNext]_<<S!vars, S!testVars>>
  PROVE  LinesInv' /\ (Careful /\ TestInv => TestInv')
  <1>1. CASE test = NoTest /\ S!Next /\ UNCHANGED S!testVars
    BY <1>1, NextPromise DEF LinesInv, S!testVars, TestRuns, TestInv
  <1>2. ASSUME NEW f \in S!Faults, S!Start(f) PROVE LinesInv' /\ (Careful /\ TestInv => TestInv')
    BY <1>2, StartStep
  <1>3. CASE S!Patterned
    BY <1>3, PatternStep
  <1>4. CASE S!PullUps
    BY <1>4, PullUpStep
  <1>5. CASE S!Leds
    BY <1>5, LedStep
  <1>6. CASE S!Restore
    BY <1>6, RestoreStep
  <1>7. CASE UNCHANGED <<S!vars, S!testVars>>
    BY <1>7 DEF S!vars, S!testVars, LinesInv, PromiseInv, S!TypeOK, TestRuns, TestInv, Sound,
       SavedRight,
       AllOut, Passed
  <1>. QED BY <1>1, <1>2, <1>3, <1>4, <1>5, <1>6, <1>7 DEF S!TestNext

\* A test leaves no cycle under way, and the time-out bit says nothing outside mode 4.
LEMMA TestInTime ==
  ASSUME LinesInv, LinesInv', TimeInv,
         \/ \E f \in S!Faults : S!Start(f)
         \/ S!Patterned \/ S!PullUps \/ S!Leds \/ S!Restore
  PROVE  TimeInv'
  <1>1. S!TypeOK' /\ S!TypeOK
    BY DEF LinesInv, PromiseInv
  <1>2. ASSUME NEW f \in S!Faults, S!Start(f) PROVE cycle' = NoCycle /\ regs'.mode = 0
    BY <1>1, <1>2, RegSetIs DEF S!Start, S!Begin, Plain, S!TypeOK
  <1>3. CASE S!Patterned \/ S!PullUps \/ S!Leds
    BY <1>3, PatternStep, PullUpStep, LedStep, <1>1 DEF TimeInv, Answered
  <1>4. CASE S!Restore
    BY <1>4, RestoreStep, <1>1 DEF TimeInv, Answered
  <1>. QED BY <1>1, <1>2, <1>3, <1>4 DEF TimeInv, Answered

LEMMA NextTimeInv ==
  ASSUME TimelyHost, LinesInv, LinesInv', TimeInv, [S!TestNext]_<<S!vars, S!testVars>>
  PROVE  TimeInv'
  <1>1. CASE test = NoTest /\ S!Next /\ UNCHANGED S!testVars
    BY <1>1, NextInTime
  <1>2. CASE UNCHANGED <<S!vars, S!testVars>>
    BY <1>2 DEF S!vars, TimeInv, S!TypeOK, Answered
  <1>. QED BY <1>1, <1>2, TestInTime DEF S!TestNext
-----------------------------------------------------------------------------
LEMMA LinesInvariant == S!TestSpec => []LinesInv
  <1>1. S!TestInit => LinesInv
    BY InitLinesInv
  <1>2. LinesInv /\ [S!TestNext]_<<S!vars, S!testVars>> => LinesInv'
    BY NextLinesInv
  <1>. QED BY <1>1, <1>2, PTL DEF S!TestSpec

LEMMA TestInvariant == ASSUME Careful PROVE S!TestSpec => []TestInv
  <1>1. S!TestInit => TestInv
    BY InitLinesInv
  <1>2. LinesInv /\ TestInv /\ [S!TestNext]_<<S!vars, S!testVars>> => TestInv'
    BY NextLinesInv
  <1>. QED BY <1>1, <1>2, LinesInvariant, PTL DEF S!TestSpec

LEMMA TimeInvariant == ASSUME TimelyHost PROVE S!TestSpec => []TimeInv
  <1>1. S!TestInit => TimeInv
    BY InitLines DEF S!TestInit, S!Init, TimeInv, Answered
  <1>2. LinesInv /\ LinesInv' /\ TimeInv /\ [S!TestNext]_<<S!vars, S!testVars>> => TimeInv'
    BY NextTimeInv
  <1>. QED BY <1>1, <1>2, LinesInvariant, PTL DEF S!TestSpec

\* Whatever the commands, and during a test, the registers stay registers (USB2LPT6's out and
\* in routines).
THEOREM LinesTyped == S!TestSpec => []S!TypeOK
  <1>1. LinesInv => S!TypeOK
    BY DEF LinesInv, PromiseInv
  <1>. QED BY <1>1, LinesInvariant, PTL

\* Whatever a careful host sends, the lines are what the registers and Feature promise between
\* two EPP cycles (LptSetDataDir, LptOn, out0 to out407).
THEOREM LinesPromised == ASSUME Careful PROVE S!TestSpec => []PromisesKept
  <1>1. LinesInv => PromisesKept
    BY DEF LinesInv, PromiseInv, Rest, Promised, PromisesKept, S!PromisesKept, S!DataAsPromised,
       S!ControlAsPromised, S!StatusPulled
  <1>. QED BY <1>1, LinesInvariant, PTL

\* No routine drives a line of the data port to a level it has neither before nor after, and a
\* bit command on the latch changes its bit alone, whatever holds the lines.
THEOREM LinesUndisturbed == S!TestSpec => []OutputsSafe
  <1>1. LinesInv => S!OutputsSafe
    BY GlitchFree, LatchSafe DEF LinesInv, PromiseInv, S!TypeOK, S!OutputsSafe
  <1>2. LinesInv => OutputsSafe
    BY <1>1 DEF OutputsSafe
  <1>. QED BY <1>2, LinesInvariant, PTL

\* With a peripheral that takes the byte when the strobe falls, a clear time-out bit means that
\* every EPP cycle since has been answered and the byte is there (epp_io).
THEOREM TimeoutsTold == ASSUME TimelyHost PROVE S!TestSpec => []TimeoutTells
  <1>1. TimeInv => TimeoutTells
    BY DEF TimeInv, TimeoutTells, S!TimeoutTells
  <1>. QED BY <1>1, TimeInvariant, PTL

\* The short-circuit test finds a fault exactly if there is one, and leaves a sound port as it
\* was (RunSelfTest, Check).
THEOREM TestTold == ASSUME Careful PROVE S!TestSpec => []SelfTestTrue
  <1>1. TestInv => SelfTestTrue
    BY DEF TestInv, SelfTestTrue, S!SelfTestTrue, S!TestTellsFaults, S!TestRestores, S!At, Sound
  <1>. QED BY <1>1, TestInvariant, PTL
-----------------------------------------------------------------------------
(* The page Monitor *)

\* Nobody else changes Feature while the page is used, and the mirror is not trusted blindly.
PageAlone == ~Trusting /\ Others \subseteq M!Shown \cup {10}

LEMMA PageBits ==
  /\ Data \subseteq 0 .. 7 /\ Status \subseteq 3 .. 7 /\ Control \subseteq 0 .. 3
  /\ 0 \in Modes /\ Modes \subseteq {0, 1, 4, 5, 7}
  BY ProgramsAssumption DEF M!PortLinesAssumption

\* What the routines do to the registers.
Turns(r, q) ==
  /\ q \in M!Device
  /\ q.data = r.data /\ q.dcr = r.dcr /\ q.mode = r.mode /\ q.feature = r.feature
  /\ q.portB = r.portB /\ q.ddrB = r.ddrB
  /\ ~M!Input(r) => /\ q.portD = r.data
                    /\ q.ddrD = IF M!OpenData \in r.feature THEN Data \ r.data ELSE Data

LEMMA DirWrites ==
  ASSUME NEW r \in M!Device
  PROVE  Turns(r, M!LptSetDataDir(r))
  BY DEF Turns, M!Device, M!LptSetDataDir, M!DataDirFirst, M!DrivenData

DataWritten(r, b, q) ==
  /\ q \in M!Device
  /\ q.data = b /\ q.dcr = r.dcr /\ q.mode = r.mode /\ q.feature = r.feature
  /\ q.portB = r.portB /\ q.ddrB = r.ddrB
  /\ M!Input(r) => q.portD = r.portD /\ q.ddrD = r.ddrD
  /\ ~M!Input(r) => /\ q.portD = b
                    /\ q.ddrD = IF M!OpenData \in r.feature THEN Data \ b ELSE r.ddrD

LEMMA DataWrites ==
  ASSUME NEW r \in M!Device, NEW b \in SUBSET Data
  PROVE  DataWritten(r, b, M!Out0(r, b))
  BY DEF DataWritten, M!Device, M!Out0, M!Out0Port

ControlWritten(r, b, q) ==
  /\ q \in M!Device
  /\ q.data = r.data /\ q.dcr = M!NewDcr(r, b) \cap M!DcrBits
  /\ q.mode = r.mode /\ q.feature = r.feature
  /\ q.portB = (IF M!Direct(r) THEN M!NewDcr(r, b)
                ELSE M!Xor(M!NewDcr(r, b), M!InvControl)) \cap Control
  /\ q.ddrB = IF M!OpenControl \in r.feature THEN Control \ q.portB ELSE r.ddrB
  /\ ~M!Turned(r, b) => q.portD = r.portD /\ q.ddrD = r.ddrD
  /\ M!Turned(r, b) /\ ~M!Input(q) =>
       /\ q.portD = r.data
       /\ q.ddrD = IF M!OpenData \in r.feature THEN Data \ r.data ELSE Data

LEMMA ControlWrites ==
  ASSUME NEW r \in M!Device, NEW b
  PROVE  ControlWritten(r, b, M!Out2(r, b))
  <1>1. DEFINE s == M!Out2Dcr(r, b)
               t == M!Out2Dir(r, b)
               p == M!Out2Port(r, b)
               q == M!Out2(r, b)
  <1>2. /\ s \in M!Device /\ s.dcr = M!NewDcr(r, b) \cap M!DcrBits
        /\ s.data = r.data /\ s.mode = r.mode /\ s.feature = r.feature /\ s.portB = r.portB
        /\ s.ddrB = r.ddrB /\ s.portD = r.portD /\ s.ddrD = r.ddrD
    BY DEF M!Out2Dcr, M!Device
  <1>3. /\ t \in M!Device /\ t.dcr = s.dcr /\ t.data = r.data /\ t.mode = r.mode
        /\ t.feature = r.feature /\ t.ddrB = r.ddrB
        /\ ~M!Turned(r, b) => t.portD = r.portD /\ t.ddrD = r.ddrD
        /\ M!Turned(r, b) /\ ~M!Input(s) =>
              /\ t.portD = r.data
              /\ t.ddrD = IF M!OpenData \in r.feature THEN Data \ r.data ELSE Data
    <2>1. Turns(s, M!LptSetDataDir(s))
      BY <1>2, DirWrites
    <2>. QED BY <1>2, <2>1 DEF Turns, M!Out2Dir
  <1>4. /\ p = [t EXCEPT !.portB = p.portB]
        /\ p.portB = (IF M!Direct(r) THEN M!NewDcr(r, b)
                      ELSE M!Xor(M!NewDcr(r, b), M!InvControl)) \cap Control
    BY <1>3 DEF M!Out2Port, M!Device
  <1>. HIDE DEF s, t, p, q
  <1>5. /\ p \in M!Device /\ p.dcr = s.dcr /\ p.data = r.data /\ p.mode = r.mode
        /\ p.feature = r.feature /\ p.ddrB = r.ddrB /\ p.portD = t.portD /\ p.ddrD = t.ddrD
    BY <1>3, <1>4 DEF M!Device
  <1>6. q = IF M!OpenControl \in r.feature THEN [p EXCEPT !.ddrB = Control \ p.portB] ELSE p
    BY DEF M!Out2, p, q
  <1>7. /\ q \in M!Device /\ q.dcr = p.dcr /\ q.data = p.data /\ q.mode = p.mode
        /\ q.feature = p.feature /\ q.portB = p.portB /\ q.portD = p.portD /\ q.ddrD = p.ddrD
        /\ q.ddrB = IF M!OpenControl \in r.feature THEN Control \ q.portB ELSE p.ddrB
    BY <1>5, <1>6 DEF M!Device
  <1>8. M!Input(q) = M!Input(s)
    BY <1>5, <1>7 DEF M!Input
  <1>9. ControlWritten(r, b, q)
    BY <1>2, <1>3, <1>4, <1>5, <1>7, <1>8 DEF ControlWritten
  <1>. QED BY <1>9 DEF q

ModeWritten(r, m, q) ==
  /\ q \in M!Device
  /\ q.data = r.data /\ q.mode = m /\ q.feature = r.feature
  /\ q.portB = r.portB /\ q.ddrB = r.ddrB
  /\ ~M!Fixed(r, m) => q.dcr = r.dcr /\ q.portD = r.portD /\ q.ddrD = r.ddrD
  /\ M!Fixed(r, m) =>
       /\ ~M!Input(q) /\ q.portD = r.data
       /\ q.ddrD = IF M!OpenData \in r.feature THEN Data \ r.data ELSE Data

LEMMA ModeWrites ==
  ASSUME NEW r \in M!Device, NEW m \in Modes
  PROVE  ModeWritten(r, m, M!Out402(r, m))
  <1>1. DEFINE s == M!Out402First(r, m)
               t == M!Out402Dcr(r, m)
               q == M!Out402(r, m)
  <1>2. /\ s \in M!Device /\ s.data = r.data /\ s.mode = m /\ s.feature = r.feature
        /\ s.portB = r.portB /\ s.ddrB = r.ddrB /\ s.portD = r.portD /\ s.ddrD = r.ddrD
        /\ s.dcr = r.dcr
    BY DEF M!Out402First, M!Device
  <1>3. t = [s EXCEPT !.dcr = s.dcr \ {5}]
    BY DEF M!Out402Dcr
  <1>. HIDE DEF s, t, q
  <1>4. /\ t \in M!Device /\ t.data = r.data /\ t.mode = m /\ t.feature = r.feature
        /\ t.portB = r.portB /\ t.ddrB = r.ddrB /\ ~M!Input(t)
    BY <1>2, <1>3 DEF M!Device, M!Input
  <1>5. q = IF M!Fixed(r, m) THEN M!LptSetDataDir(t) ELSE s
    BY DEF M!Out402, s, t, q
  <1>6. ASSUME M!Fixed(r, m) PROVE ModeWritten(r, m, q)
    <2>1. q = M!LptSetDataDir(t) /\ Turns(t, M!LptSetDataDir(t))
      BY <1>4, <1>5, <1>6, DirWrites
    <2>2. M!Input(q) = M!Input(t)
      BY <2>1 DEF M!Input, Turns
    <2>. QED BY <1>4, <1>6, <2>1, <2>2 DEF Turns, ModeWritten
  <1>7. ASSUME ~M!Fixed(r, m) PROVE ModeWritten(r, m, q)
    BY <1>2, <1>5, <1>7 DEF ModeWritten
  <1>8. ModeWritten(r, m, q)
    BY <1>6, <1>7
  <1>. QED BY <1>8 DEF q

BackDoorWritten(r, addr, q) ==
  /\ q \in M!Device
  /\ q.data = r.data /\ q.dcr = r.dcr /\ q.mode = r.mode /\ q.feature = r.feature
  /\ q.portD = r.portD /\ q.portB = r.portB
  /\ addr # 12 => q.ddrD = r.ddrD
  /\ addr # 14 => q.ddrB = r.ddrB

LEMMA BackDoorWrites ==
  ASSUME NEW r \in M!Device, NEW b, NEW addr \in {1, 12, 13, 14}
  PROVE  BackDoorWritten(r, addr, M!SetByte(r, addr, b))
  <1>1. CASE addr = 1
    <2>1. M!SetByte(r, addr, b) = M!Out1(r, b)
      BY <1>1 DEF M!SetByte
    <2>2. M!Out1(r, b) \in M!Device
      BY DEF M!Out1, M!Device, M!Xor
    <2>. QED BY <1>1, <2>1, <2>2 DEF BackDoorWritten, M!Out1, M!Device
  <1>2. CASE addr = 12
    <2>1. M!SetByte(r, addr, b) = M!Out404(r, b \cap Data)
      BY <1>2 DEF M!SetByte
    <2>. QED BY <1>2, <2>1 DEF BackDoorWritten, M!Out404, M!Device
  <1>3. CASE addr = 13
    <2>1. M!SetByte(r, addr, b) = M!Out405(r, b)
      BY <1>3 DEF M!SetByte
    <2>2. M!Out405(r, b) \in M!Device
      BY DEF M!Out405, M!Out405Dir, M!Device
    <2>. QED BY <1>3, <2>1, <2>2 DEF BackDoorWritten, M!Out405, M!Out405Dir, M!Device
  <1>4. CASE addr = 14
    <2>1. M!SetByte(r, addr, b) = M!Out406(r, b)
      BY <1>4 DEF M!SetByte
    <2>. QED BY <1>4, <2>1 DEF BackDoorWritten, M!Out406, M!Device
  <1>. QED BY <1>1, <1>2, <1>3, <1>4

\* The mirror b of the data port is what the device has: the lines carry it, or will when the
\* direction is turned.
Held0(r, b) ==
  /\ b \cap Data = r.data
  /\ (~M!Input(r) \/ M!Direct(r)) =>
       /\ r.portD = r.data
       /\ M!OpenData \in r.feature => r.ddrD = Data \ r.portD
\* The mirror of the control port is what the lines carry, and the direction.
Held2(r, b) ==
  /\ r.portB = (IF M!Direct(r) THEN b ELSE M!Xor(b, M!InvControl)) \cap Control
  /\ M!OpenControl \in r.feature => r.ddrB = Control \ r.portB
  /\ (5 \in b) <=> M!Input(r)
\* The modes 0 and 2 have no input direction.
SppIsOutput(r) == r.mode \in {0, 2} => ~M!Input(r)

LEMMA DataHeld ==
  ASSUME NEW r \in M!Device, NEW b \in SUBSET Data, NEW q, DataWritten(r, b, q)
  PROVE  /\ \A c : ~(M!Input(r) /\ M!Direct(r)) /\ c \cap Data = b => Held0(q, c)
         /\ \A c : Held2(r, c) => Held2(q, c)
         /\ (SppIsOutput(r) => SppIsOutput(q))
  <1>1. M!Direct(q) = M!Direct(r) /\ M!Input(q) = M!Input(r)
    BY DEF DataWritten, M!Direct, M!Input
  <1>. QED BY <1>1 DEF DataWritten, Held0, Held2, SppIsOutput

LEMMA ControlHeld ==
  ASSUME NEW r \in M!Device, NEW b, NEW q, ControlWritten(r, b, q)
  PROVE  /\ ~(5 \in b /\ r.mode \in {0, 2}) => Held2(q, b)
         /\ \A c : Held0(r, c) => Held0(q, c)
         /\ SppIsOutput(q)
  <1>1. M!Input(q) <=> (5 \in M!NewDcr(r, b))
    BY DEF ControlWritten, M!Input, M!DcrBits
  <1>2. M!Direct(q) = M!Direct(r)
    BY DEF ControlWritten, M!Direct
  <1>3. SppIsOutput(q)
    BY <1>1 DEF ControlWritten, SppIsOutput, M!NewDcr
  <1>4. ASSUME ~(5 \in b /\ r.mode \in {0, 2}) PROVE Held2(q, b)
    <2>1. M!NewDcr(r, b) = b
      BY <1>4 DEF M!NewDcr
    <2>. QED BY <1>1, <1>2, <2>1 DEF ControlWritten, Held2
  <1>5. ASSUME NEW c, Held0(r, c) PROVE Held0(q, c)
    <2>1. M!Turned(r, b) <=> ~M!Direct(r) /\ M!Input(r) # M!Input(q)
      BY DEF ControlWritten, M!Turned, M!Out2Dcr, M!Device, M!Input
    <2>2. CASE M!Turned(r, b)
      BY <1>2, <1>5, <2>1, <2>2 DEF ControlWritten, Held0
    <2>3. CASE ~M!Turned(r, b)
      BY <1>2, <1>5, <2>1, <2>3 DEF ControlWritten, Held0
    <2>. QED BY <2>2, <2>3
  <1>. QED BY <1>3, <1>4, <1>5

LEMMA ModeHeld ==
  ASSUME NEW r \in M!Device, NEW m \in Modes, NEW q, ModeWritten(r, m, q)
  PROVE  /\ \A c : Held0(r, c) => Held0(q, c)
         /\ \A c : ~M!Fixed(r, m) /\ Held2(r, c) => Held2(q, c)
         /\ SppIsOutput(q)
  <1>1. M!Direct(q) = M!Direct(r)
    BY DEF ModeWritten, M!Direct
  <1>2. CASE M!Fixed(r, m)
    BY <1>1, <1>2 DEF ModeWritten, Held0, SppIsOutput
  <1>3. CASE ~M!Fixed(r, m)
    <2>1. M!Input(q) = M!Input(r)
      BY <1>3 DEF ModeWritten, M!Input
    <2>. QED BY <1>1, <1>3, <2>1 DEF ModeWritten, Held0, Held2, SppIsOutput, M!Fixed
  <1>. QED BY <1>2, <1>3

LEMMA BackDoorHeld ==
  ASSUME NEW r \in M!Device, NEW addr \in {1, 12, 13, 14}, NEW q, BackDoorWritten(r, addr, q)
  PROVE  /\ \A c : ~(addr = 12 /\ M!OpenData \in r.feature) /\ Held0(r, c) => Held0(q, c)
         /\ \A c : ~(addr = 14 /\ M!OpenControl \in r.feature) /\ Held2(r, c) => Held2(q, c)
         /\ (SppIsOutput(r) => SppIsOutput(q))
  <1>1. M!Direct(q) = M!Direct(r) /\ M!Input(q) = M!Input(r)
    BY DEF BackDoorWritten, M!Direct, M!Input
  <1>. QED BY <1>1 DEF BackDoorWritten, Held0, Held2, SppIsOutput

\* To write what the mirror holds changes no line.
LEMMA HeldIsMirror ==
  ASSUME NEW r \in M!Device, SppIsOutput(r), NEW b
  PROVE  /\ Held0(r, b) => M!Lines(M!SetByte(r, 0, b)) = M!Lines(r)
         /\ Held2(r, b) => M!Lines(M!SetByte(r, 2, b)) = M!Lines(r)
  <1>1. ASSUME Held0(r, b) PROVE M!Lines(M!SetByte(r, 0, b)) = M!Lines(r)
    <2>1. M!SetByte(r, 0, b) = M!Out0(r, r.data) /\ r.data \in SUBSET Data
      <3>1. M!SetByte(r, 0, b) = M!Out0(r, b \cap Data)
        BY DEF M!SetByte
      <3>. QED BY <1>1, <3>1 DEF Held0
    <2>2. DataWritten(r, r.data, M!Out0(r, r.data))
      BY <2>1, DataWrites
    <2>. QED BY <1>1, <2>1, <2>2 DEF DataWritten, Held0, M!Lines
  <1>2. ASSUME Held2(r, b) PROVE M!Lines(M!SetByte(r, 2, b)) = M!Lines(r)
    <2>1. M!SetByte(r, 2, b) = M!Out2(r, b) /\ M!NewDcr(r, b) = b
      BY <1>2 DEF Held2, SppIsOutput, M!SetByte, M!NewDcr
    <2>2. ~M!Turned(r, b)
      BY <1>2, <2>1 DEF Held2, M!Turned, M!Out2Dcr, M!Device, M!Input, M!DcrBits
    <2>3. ControlWritten(r, b, M!Out2(r, b))
      BY ControlWrites
    <2>. QED BY <1>2, <2>1, <2>2, <2>3 DEF ControlWritten, Held2, M!Lines
  <1>. QED BY <1>1, <1>2

\* A byte put out by the page or by another program.
Register(addr, b) ==
  addr \in M!Shown \cup {10} /\ (addr = 10 => \E m \in Modes : b = {m})

LEMMA ByteHeld ==
  ASSUME NEW addr, NEW b, Register(addr, b), d \in M!Device, NEW q, q = M!OutByte(d, addr, b)
  PROVE  /\ q \in M!Device /\ q.feature = d.feature
         /\ SppIsOutput(d) => SppIsOutput(q)
         /\ addr = 0 /\ ~(M!Input(d) /\ M!Direct(d)) => Held0(q, b)
         /\ addr = 2 /\ ~(5 \in b /\ d.mode \in {0, 2}) => Held2(q, b)
         /\ \A c : addr # 0 /\ 0 \notin M!Simulated(addr) /\ Held0(d, c) => Held0(q, c)
         /\ \A c : /\ addr # 2 /\ 2 \notin M!Simulated(addr) /\ Held2(d, c)
                   /\ ~(addr = 10 /\ \E m \in b : M!Fixed(d, m))
                   => Held2(q, c)
  <1>1. CASE addr = 10
    <2>1. PICK m \in Modes : b = {m}
      BY <1>1 DEF Register
    <2>2. q = M!Out402(d, m)
      BY <1>1, <2>1 DEF M!OutByte
    <2>3. ModeWritten(d, m, q)
      BY <2>2, ModeWrites
    <2>. QED BY <1>1, <2>1, <2>3, ModeHeld DEF ModeWritten
  <1>2. CASE addr = 0
    <2>1. q = M!Out0(d, b \cap Data)
      BY <1>2 DEF M!OutByte, M!SetByte
    <2>2. DataWritten(d, b \cap Data, q) /\ b \cap Data \in SUBSET Data
      BY <2>1, DataWrites
    <2>. QED BY <1>2, <2>2, DataHeld DEF DataWritten
  <1>3. CASE addr = 2
    <2>1. q = M!Out2(d, b)
      BY <1>3 DEF M!OutByte, M!SetByte
    <2>2. ControlWritten(d, b, q)
      BY <2>1, ControlWrites
    <2>3. /\ ~(5 \in b /\ d.mode \in {0, 2}) => Held2(q, b)
          /\ \A c : Held0(d, c) => Held0(q, c)
          /\ SppIsOutput(q)
      BY <2>2, ControlHeld
    <2>. QED BY <1>3, <2>2, <2>3 DEF ControlWritten
  <1>4. CASE addr \in {1, 12, 13, 14}
    <2>1. q = M!SetByte(d, addr, b)
      BY <1>4 DEF M!OutByte
    <2>2. BackDoorWritten(d, addr, q)
      BY <1>4, <2>1, BackDoorWrites
    <2>3. /\ 0 \notin M!Simulated(addr) => ~(addr = 12 /\ M!OpenData \in d.feature)
          /\ 2 \notin M!Simulated(addr) => ~(addr = 14 /\ M!OpenControl \in d.feature)
      BY DEF M!Simulated
    <2>. QED BY <1>4, <2>2, <2>3, BackDoorHeld DEF BackDoorWritten
  <1>. QED BY <1>1, <1>2, <1>3, <1>4 DEF Register, M!Shown

\* What is read of lines that are all driven is what was written.
LEMMA ReadHeld ==
  ASSUME NEW r \in M!Device, ext \in M!Pins
  PROVE  /\ M!Driven0(r) => Held0(r, M!InByte(r, 0))
         /\ M!Driven2(r) => Held2(r, M!InByte(r, 2))
  <1>1. ASSUME M!Driven0(r) PROVE Held0(r, M!InByte(r, 0))
    <2>1. M!InByte(r, 0) = r.portD
      BY <1>1 DEF M!InByte, M!GetByte, M!PinsNow, M!Driven0, M!Pins, M!Device
    <2>. QED BY <1>1, <2>1 DEF Held0, M!Driven0, M!Device
  <1>2. ASSUME M!Driven2(r) PROVE Held2(r, M!InByte(r, 2))
    <2>1. M!PinsNow(r).C = r.portB
      BY <1>2 DEF M!PinsNow, M!Driven2, M!Pins, M!Device
    <2>2. M!InByte(r, 2) = M!In2Of(r, r.portB)
      BY <2>1 DEF M!InByte, M!GetByte
    <2>3. r.portB \subseteq Control
      BY DEF M!Device
    <2>4. M!In2Of(r, r.portB) = (IF M!Direct(r) THEN r.portB ELSE M!Xor(r.portB, M!InvControl \cap Control)) \cup (r.dcr \cap {4, 5})
      BY DEF M!In2Of
    <2>5. (5 \in M!InByte(r, 2)) <=> M!Input(r)
      BY <2>2, <2>3, <2>4, PageBits DEF M!Input, M!Xor
    <2>6. r.portB = (IF M!Direct(r) THEN M!InByte(r, 2) ELSE M!Xor(M!InByte(r, 2), M!InvControl)) \cap Control
      BY <2>2, <2>3, <2>4, PageBits DEF M!Xor
    <2>. QED BY <1>2, <2>5, <2>6 DEF Held2, M!Driven2
  <1>. QED BY <1>1, <1>2

MirrorHeld ==
  /\ 0 \in valid \ stale => Held0(d, wr[0])
  /\ 2 \in valid \ stale => Held2(d, wr[2])
\* What the circles show is what was read, and after an update this is what there is.
CirclesRead ==
  active =>
    /\ M!Read \ {0} \subseteq valid
    /\ M!Readable(M!Mode(rd)) => 0 \in valid
    /\ rd[15] = d.feature
    /\ \A pin \in M!PlugPins : shown[pin] = M!Circle(rd, pin)
    /\ settled => \A addr \in M!Read : (addr = 0 => M!Readable(d.mode)) => rd[addr] = M!InByte(d, addr)
ModeSets == {{m} : m \in Modes}
PageTypes ==
  /\ d \in M!Device /\ SppIsOutput(d) /\ ext \in M!Pins
  /\ DOMAIN rd = M!Read /\ DOMAIN wr = M!Read /\ rd[10] \in ModeSets
  /\ valid \subseteq M!Read /\ DOMAIN typed = M!Fields /\ armed \subseteq M!Fields
  /\ DOMAIN shown = M!PlugPins
  /\ 10 \in armed => typed[10] \in ModeSets
PageInv == PageTypes /\ MirrorHeld /\ CirclesRead

\* A write of the page's own that the mirror notes.
LEMMA WroteHeld ==
  ASSUME NEW addr, NEW b, Register(addr, b), d \in M!Device, SppIsOutput(d), MirrorHeld,
         addr \in DOMAIN wr, DOMAIN wr = M!Read,
         d' = M!OutByte(d, addr, b), stale' = M!Wrote(addr, b), valid' \subseteq valid \cup {addr},
         wr'[addr] = b \/ addr \notin {0, 2}, \A k \in {0, 2} \ {addr} : wr'[k] = wr[k]
  PROVE  MirrorHeld' /\ d' \in M!Device /\ SppIsOutput(d)' /\ d'.feature = d.feature
  <1>1. /\ d' \in M!Device /\ d'.feature = d.feature /\ SppIsOutput(d')
        /\ addr = 0 /\ ~(M!Input(d) /\ M!Direct(d)) => Held0(d', b)
        /\ addr = 2 /\ ~(5 \in b /\ d.mode \in {0, 2}) => Held2(d', b)
    BY ByteHeld
  <1>2. \A c : addr # 0 /\ 0 \notin M!Simulated(addr) /\ Held0(d, c) => Held0(d', c)
    BY ByteHeld
  <1>3. \A c : /\ addr # 2 /\ 2 \notin M!Simulated(addr) /\ Held2(d, c)
               /\ ~(addr = 10 /\ \E m \in b : M!Fixed(d, m))
               => Held2(d', c)
    BY ByteHeld
  <1>4. ASSUME 0 \in valid' \ stale' PROVE Held0(d', wr'[0])
    <2>1. CASE addr = 0
      BY <1>1, <1>4, <2>1 DEF M!Wrote
    <2>2. CASE addr # 0
      <3>1. 0 \in valid \ stale /\ 0 \notin M!Simulated(addr) /\ wr'[0] = wr[0]
        BY <1>4, <2>2 DEF M!Wrote
      <3>. QED BY <1>2, <2>2, <3>1 DEF MirrorHeld
    <2>. QED BY <2>1, <2>2
  <1>5. ASSUME 2 \in valid' \ stale' PROVE Held2(d', wr'[2])
    <2>1. CASE addr = 2
      BY <1>1, <1>5, <2>1 DEF M!Wrote
    <2>2. CASE addr # 2
      <3>1. 2 \in valid \ stale /\ 2 \notin M!Simulated(addr) /\ wr'[2] = wr[2]
        BY <1>5, <2>2 DEF M!Wrote
      <3>2. ~(addr = 10 /\ \E m \in b : M!Fixed(d, m))
        BY <1>5 DEF M!Wrote
      <3>. QED BY <1>3, <2>2, <3>1, <3>2 DEF MirrorHeld
    <2>. QED BY <2>1, <2>2
  <1>. QED BY <1>1, <1>4, <1>5 DEF MirrorHeld, SppIsOutput

LEMMA Circles ==
  ASSUME NEW p, NEW q, NEW pin \in M!PlugPins, p[10] = q[10], p[15] = q[15],
         pin[2] \in p[pin[1]] <=> pin[2] \in q[pin[1]]
  PROVE  M!Circle(p, pin) = M!Circle(q, pin)
  BY DEF M!Circle, M!Mode

LEMMA ModeIs ==
  ASSUME NEW p, NEW m, p[10] = {m}
  PROVE  M!Mode(p) = m
  BY DEF M!Mode

\* The circles of an update: painted for what has changed, and all for a new mode.
LEMMA PaintedRead ==
  ASSUME PageTypes, CirclesRead, NEW got, DOMAIN got \subseteq M!Read, NEW q,
         q = M!Now(got), q[15] = d.feature,
         10 \in DOMAIN got \/ active,
         active \/ M!Repaint(got)
  PROVE  /\ DOMAIN M!Painted(got) = M!PlugPins
         /\ \A pin \in M!PlugPins : M!Painted(got)[pin] = M!Circle(q, pin)
  <1>1. DOMAIN M!Painted(got) = M!PlugPins
    BY DEF M!Painted
  <1>2. ASSUME NEW pin \in M!PlugPins PROVE M!Painted(got)[pin] = M!Circle(q, pin)
    <2>1. CASE M!Repaint(got) \/ (~M!First(pin[1]) /\ (pin[2] \in q[pin[1]]) # (pin[2] \in rd[pin[1]]))
      BY <2>1 DEF M!Painted
    <2>2. CASE ~(M!Repaint(got) \/ (~M!First(pin[1]) /\ (pin[2] \in q[pin[1]]) # (pin[2] \in rd[pin[1]])))
      <3>1. active /\ M!Painted(got)[pin] = shown[pin] /\ shown[pin] = M!Circle(rd, pin)
        BY <2>2 DEF M!Painted, CirclesRead
      <3>2. 10 \in M!Read /\ 10 # 0 /\ pin[1] \in M!Read
        BY DEF M!Read, M!Shown, M!PlugPins
      <3>3. q[10] = rd[10] /\ q[15] = rd[15]
        BY <2>2, <3>1, <3>2 DEF M!Repaint, M!Now, CirclesRead
      <3>4. CASE M!First(pin[1])
        <4>1. pin[1] = 0 /\ ~M!Readable(M!Mode(rd))
          BY <3>1, <3>2, <3>4 DEF M!First, CirclesRead
        <4>2. M!Mode(q) = M!Mode(rd)
          BY <3>3 DEF M!Mode
        <4>. QED BY <3>1, <4>1, <4>2 DEF M!Circle
      <3>5. CASE ~M!First(pin[1])
        BY <2>2, <3>1, <3>3, <3>5, Circles
      <3>. QED BY <3>4, <3>5
    <2>. QED BY <2>1, <2>2
  <1>. QED BY <1>1, <1>2

LEMMA SameReads ==
  ASSUME d' = d, ext' = ext
  PROVE  \A addr : M!InByte(d, addr)' = M!InByte(d, addr)
  BY DEF M!InByte, M!PinsNow

LEMMA GotIs ==
  ASSUME NEW got, got = M!Got(d)
  PROVE  /\ M!Read \ {0} \subseteq DOMAIN got /\ DOMAIN got \subseteq M!Read
         /\ 0 \in DOMAIN got <=> M!Readable(d.mode)
         /\ \A addr \in DOMAIN got : got[addr] = M!InByte(d, addr)
         /\ got[10] = {d.mode} /\ got[15] = d.feature
  <1>1. DOMAIN got = (M!Read \ {0}) \cup (IF M!Readable(d.mode) THEN {0} ELSE {})
    BY DEF M!Got
  <1>2. \A addr \in DOMAIN got : got[addr] = M!InByte(d, addr)
    BY DEF M!Got
  <1>3. {0, 10, 15} \subseteq M!Read /\ 10 # 0 /\ 15 # 0
    BY DEF M!Read, M!Shown
  <1>4. M!InByte(d, 10) = {d.mode} /\ M!InByte(d, 15) = d.feature
    BY DEF M!InByte, M!GetByte, M!InBackDoor
  <1>. QED BY <1>1, <1>2, <1>3, <1>4

LEMMA UpdateKeeps ==
  ASSUME PageInv, M!Update(d), UNCHANGED <<d, ext, typed, armed>>, active'
  PROVE  PageInv'
  <1>1. DEFINE got == M!Got(d)
  <1>2. /\ M!Read \ {0} \subseteq DOMAIN got /\ DOMAIN got \subseteq M!Read
        /\ 0 \in DOMAIN got <=> M!Readable(d.mode)
        /\ \A addr \in DOMAIN got : got[addr] = M!InByte(d, addr)
        /\ got[10] = {d.mode} /\ got[15] = d.feature
    BY GotIs
  <1>3. /\ rd' = M!Now(got) /\ wr' = M!MirrorAll(got) /\ shown' = M!Painted(got)
        /\ valid' = ((IF active THEN valid ELSE {}) \cup DOMAIN got)
                      \ (IF M!Repaint(got) THEN {0} \ DOMAIN got ELSE {})
        /\ stale' = M!StaleAfter(got, d)
    BY DEF M!Update
  <1>. HIDE DEF got
  <1>4. {0, 2, 10, 15} \subseteq M!Read /\ 10 # 0 /\ 15 # 0 /\ 2 # 0
    BY DEF M!Read, M!Shown
  <1>5. /\ DOMAIN rd' = M!Read /\ \A addr \in DOMAIN got : rd'[addr] = M!InByte(d, addr)
        /\ rd'[10] = {d.mode} /\ rd'[15] = d.feature
    BY <1>2, <1>3, <1>4 DEF M!Now
  <1>6. /\ DOMAIN wr' = M!Read
        /\ (0 \in DOMAIN got /\ (M!First(0) \/ M!Repaint(got))) => wr'[0] = got[0]
        /\ ~(0 \in DOMAIN got /\ (M!First(0) \/ M!Repaint(got))) => wr'[0] = wr[0]
        /\ wr'[2] = IF M!First(2) THEN got[2] ELSE wr[2]
    <2>1. /\ DOMAIN M!Mirror(got) = M!Read
          /\ M!Mirror(got)[0] = IF 0 \in DOMAIN got /\ M!First(0) THEN got[0] ELSE wr[0]
          /\ M!Mirror(got)[2] = IF M!First(2) THEN got[2] ELSE wr[2]
      BY <1>2, <1>4 DEF M!Mirror
    <2>. QED BY <1>3, <1>4, <2>1 DEF M!MirrorAll
  <1>7. PageTypes'
    <2>1. d.mode \in Modes
      BY DEF PageInv, PageTypes, M!Device
    <2>2. valid' \subseteq M!Read
      BY <1>2, <1>3 DEF PageInv, PageTypes
    <2>3. DOMAIN shown' = M!PlugPins
      BY <1>3 DEF M!Painted
    <2>. QED BY <1>5, <1>6, <2>1, <2>2, <2>3 DEF PageInv, PageTypes, ModeSets
  <1>8. MirrorHeld'
    <2>1. ASSUME 0 \in valid' \ stale' PROVE Held0(d, wr'[0])
      <3>1. CASE 0 \in DOMAIN got /\ (M!First(0) \/ M!Repaint(got))
        <4>1. M!Driven0(d)
          BY <1>3, <2>1, <3>1 DEF M!StaleAfter
        <4>. QED BY <1>2, <1>6, <3>1, <4>1, ReadHeld DEF PageInv, PageTypes
      <3>2. CASE ~(0 \in DOMAIN got /\ (M!First(0) \/ M!Repaint(got)))
        <4>1. 0 \in valid
          BY <1>3, <2>1, <3>2 DEF M!First
        <4>2. 0 \notin stale
          BY <1>3, <2>1, <3>2 DEF M!StaleAfter
        <4>. QED BY <1>6, <3>2, <4>1, <4>2 DEF PageInv, MirrorHeld
      <3>. QED BY <3>1, <3>2
    <2>2. ASSUME 2 \in valid' \ stale' PROVE Held2(d, wr'[2])
      <3>1. CASE M!First(2)
        <4>1. M!Driven2(d)
          BY <1>2, <1>3, <1>4, <2>2, <3>1 DEF M!StaleAfter
        <4>. QED BY <1>2, <1>4, <1>6, <3>1, <4>1, ReadHeld DEF PageInv, PageTypes
      <3>2. CASE ~M!First(2)
        <4>1. 2 \in valid /\ 2 \notin stale
          BY <1>3, <1>4, <2>2, <3>2 DEF M!First, M!StaleAfter
        <4>. QED BY <1>6, <3>2, <4>1 DEF PageInv, MirrorHeld
      <3>. QED BY <3>1, <3>2
    <2>. QED BY <2>1, <2>2 DEF MirrorHeld
  <1>9. CirclesRead'
    <2>1. M!Read \ {0} \subseteq valid' /\ (M!Readable(d.mode) => 0 \in valid')
      BY <1>2, <1>3
    <2>2. M!Mode(rd') = d.mode
      BY <1>5, ModeIs
    <2>3. \A pin \in M!PlugPins : shown'[pin] = M!Circle(rd', pin)
      <3>1. active \/ M!Repaint(got)
        BY <1>2, <1>4 DEF M!Repaint, M!First
      <3>. QED BY <1>2, <1>3, <1>4, <1>5, <3>1, PaintedRead DEF PageInv
    <2>4. \A addr \in M!Read : (addr = 0 => M!Readable(d.mode)) => rd'[addr] = M!InByte(d, addr)'
      BY <1>2, <1>5, SameReads
    <2>. QED BY <1>5, <2>1, <2>2, <2>3, <2>4 DEF CirclesRead
  <1>. QED BY <1>7, <1>8, <1>9 DEF PageInv

\* An action that reads nothing, and settles nothing, leaves what the circles show.
LEMMA CirclesStay ==
  ASSUME CirclesRead, d'.feature = d.feature, UNCHANGED <<rd, shown>>,
         active' => active, 0 \in valid => 0 \in valid', M!Read \cap valid \subseteq valid',
         settled' => settled /\ UNCHANGED <<d, ext>>
  PROVE  CirclesRead'
  <1>1. ASSUME settled', active'
        PROVE  \A addr \in M!Read : (addr = 0 => M!Readable(d'.mode)) => rd'[addr] = M!InByte(d, addr)'
    BY <1>1, SameReads DEF CirclesRead
  <1>2. M!Readable(M!Mode(rd')) => M!Readable(M!Mode(rd))
    OBVIOUS
  <1>. QED BY <1>1, <1>2 DEF CirclesRead

LEMMA RegisterOf ==
  /\ \A addr \in M!Shown : \A b : Register(addr, b)
  /\ \A addr \in M!Fields \ {10} : \A b : Register(addr, b)
  /\ \A addr \in M!Fields \cup M!Shown : \A b \in M!BytesFor(addr) :
       Register(addr, b) /\ (addr = 10 => b \in ModeSets)
  /\ M!Shown \cup M!Fields \subseteq M!Read /\ 15 \notin M!Shown
  BY DEF Register, M!Shown, M!Fields, M!BytesFor, M!Read, ModeSets

LEMMA ToggleKeeps ==
  ASSUME PageInv, NEW addr \in M!Shown, NEW bit, M!ToggleBit(addr, bit)
  PROVE  PageInv'
  <1>1. DEFINE b == M!Xor(wr[addr], {bit})
               got == [k \in {addr} |-> M!InByte(d', k)]
  <1>2. /\ active /\ active' /\ d' = M!OutByte(d, addr, b)
        /\ rd' = M!Now(got) /\ valid' = valid \cup {addr} /\ shown' = M!Painted(got)
        /\ wr' = [wr EXCEPT ![addr] = IF M!First(addr) \/ addr \in {12, 13, 14} THEN got[addr] ELSE b]
        /\ typed' = (IF addr < 3 THEN [typed EXCEPT ![addr] = b] ELSE typed)
        /\ armed' = armed \ {addr}
        /\ stale' = (IF M!First(addr) THEN M!StaleAfter(got, d') ELSE M!Wrote(addr, b))
        /\ ~settled' /\ ext' = ext
    BY DEF M!ToggleBit
  <1>3. DOMAIN got = {addr} /\ got[addr] = M!InByte(d', addr)
    OBVIOUS
  <1>. HIDE DEF b, got
  <1>4. Register(addr, b) /\ addr \in M!Read /\ 10 \in M!Read /\ 15 \in M!Read /\ addr # 10 /\ addr # 15
    BY RegisterOf DEF M!Shown, M!Read
  <1>5. d' \in M!Device /\ SppIsOutput(d') /\ d'.feature = d.feature
    BY <1>2, <1>4, ByteHeld DEF PageInv, PageTypes
  <1>6. M!First(addr) => addr = 0
    BY <1>2, <1>4 DEF PageInv, CirclesRead, M!First
  <1>7. DOMAIN rd' = M!Read /\ rd'[10] = rd[10] /\ rd'[15] = rd[15]
    BY <1>2, <1>3, <1>4 DEF M!Now
  <1>8. MirrorHeld'
    <2>1. CASE M!First(addr)
      <3>1. addr = 0 /\ stale' = M!StaleAfter(got, d')
        BY <1>2, <1>6, <2>1
      <3>2. wr'[0] = got[0] /\ wr'[2] = wr[2]
        BY <1>2, <1>4, <2>1, <3>1 DEF PageInv, PageTypes
      <3>3. 0 \in valid' \ stale' => M!Driven0(d')
        BY <1>3, <2>1, <3>1 DEF M!StaleAfter
      <3>4. M!Driven0(d') => Held0(d', M!InByte(d', 0))
        <4>1. M!Driven0(d') => Held0(d', M!InByte(d', 0))
          BY <1>5, ReadHeld DEF PageInv, PageTypes
        <4>. QED BY <4>1
      <3>5. 2 \in valid' \ stale' => 2 \in valid \ stale
        BY <1>2, <1>3, <3>1 DEF M!StaleAfter
      <3>6. 2 \in valid \ stale => Held2(d', wr[2])
        <4>1. \A c : addr # 2 /\ 2 \notin M!Simulated(addr) /\ Held2(d, c)
                 /\ ~(addr = 10 /\ \E m \in b : M!Fixed(d, m)) => Held2(d', c)
          BY <1>2, <1>4, ByteHeld DEF PageInv, PageTypes
        <4>2. 2 \notin M!Simulated(0)
          BY DEF M!Simulated
        <4>. QED BY <3>1, <4>1, <4>2 DEF PageInv, MirrorHeld
      <3>. QED BY <1>3, <3>1, <3>2, <3>3, <3>4, <3>5, <3>6 DEF MirrorHeld
    <2>2. CASE ~M!First(addr)
      <3>1. addr \in {0, 2} => wr'[addr] = b
        BY <1>2, <1>4, <2>2 DEF PageInv, PageTypes
      <3>2. \A k \in {0, 2} \ {addr} : wr'[k] = wr[k]
        BY <1>2 DEF PageInv, PageTypes
      <3>. QED BY <1>2, <1>4, <2>2, <3>1, <3>2, WroteHeld DEF PageInv, PageTypes
    <2>. QED BY <2>1, <2>2
  <1>9. PageTypes'
    <2>1. DOMAIN wr' = M!Read /\ DOMAIN typed' = M!Fields
      BY <1>2 DEF PageInv, PageTypes
    <2>2. 10 \in armed' => typed'[10] = typed[10]
      BY <1>2, <1>4, <2>1 DEF PageInv, PageTypes, M!Fields
    <2>3. DOMAIN shown' = M!PlugPins
      BY <1>2 DEF M!Painted
    <2>. QED BY <1>2, <1>4, <1>5, <1>7, <2>1, <2>2, <2>3 DEF PageInv, PageTypes
  <1>10. CirclesRead'
    <2>1. \A pin \in M!PlugPins : shown'[pin] = M!Circle(rd', pin)
      <3>1. rd'[15] = d.feature /\ DOMAIN got \subseteq M!Read
        BY <1>2, <1>3, <1>4, <1>7 DEF PageInv, CirclesRead
      <3>. QED BY <1>2, <3>1, PaintedRead DEF PageInv
    <2>2. M!Mode(rd') = M!Mode(rd)
      BY <1>7 DEF M!Mode
    <2>. QED BY <1>2, <1>5, <1>7, <2>1, <2>2 DEF PageInv, CirclesRead
  <1>. QED BY <1>8, <1>9, <1>10 DEF PageInv

LEMMA TypeKeeps ==
  ASSUME PageInv, NEW addr \in M!Fields, NEW b \in M!BytesFor(addr), M!Type(addr, b)
  PROVE  PageInv'
  <1>1. /\ typed' = [typed EXCEPT ![addr] = b] /\ armed' = armed \cup {addr}
        /\ UNCHANGED <<d, ext, rd, wr, valid, active, shown, stale, settled>>
    BY DEF M!Type, M!port
  <1>2. PageTypes'
    BY <1>1, RegisterOf DEF PageInv, PageTypes
  <1>3. MirrorHeld'
    BY <1>1 DEF PageInv, MirrorHeld
  <1>4. CirclesRead'
    BY <1>1, CirclesStay DEF PageInv
  <1>. QED BY <1>2, <1>3, <1>4 DEF PageInv

LEMMA FireKeeps ==
  ASSUME PageInv, NEW addr \in M!Fields, M!Fire(addr)
  PROVE  PageInv'
  <1>1. /\ addr \in armed /\ armed' = armed \ {addr}
        /\ UNCHANGED <<ext, rd, valid, typed, active, shown>>
    BY DEF M!Fire
  <1>2. addr \in M!Read /\ (addr = 10 => typed[10] \in ModeSets)
    BY <1>1, RegisterOf DEF PageInv, PageTypes
  <1>3. Register(addr, typed[addr])
    BY <1>2, RegisterOf DEF Register, M!Shown, M!Fields, ModeSets
  <1>4. CASE UNCHANGED <<d, wr, stale, settled>>
    <2>1. PageTypes' /\ MirrorHeld'
      BY <1>1, <1>4 DEF PageInv, PageTypes, MirrorHeld
    <2>2. CirclesRead'
      BY <1>1, <1>4, CirclesStay DEF PageInv
    <2>. QED BY <2>1, <2>2 DEF PageInv
  <1>5. CASE /\ wr' = [wr EXCEPT ![addr] = typed[addr]] /\ d' = M!OutByte(d, addr, typed[addr])
             /\ settled' = FALSE /\ stale' = M!Wrote(addr, typed[addr])
    <2>1. /\ DOMAIN wr' = M!Read /\ wr'[addr] = typed[addr]
          /\ \A k \in {0, 2} \ {addr} : wr'[k] = wr[k]
      BY <1>2, <1>5 DEF PageInv, PageTypes
    <2>2. MirrorHeld' /\ d' \in M!Device /\ SppIsOutput(d)' /\ d'.feature = d.feature
      BY <1>1, <1>2, <1>3, <1>5, <2>1, WroteHeld DEF PageInv, PageTypes
    <2>3. PageTypes'
      BY <1>1, <2>1, <2>2 DEF PageInv, PageTypes
    <2>4. CirclesRead'
      BY <1>1, <1>5, <2>2, CirclesStay DEF PageInv
    <2>. QED BY <2>2, <2>3, <2>4 DEF PageInv
  <1>6. CASE /\ wr' = [wr EXCEPT ![addr] = typed[addr]] /\ UNCHANGED <<d, settled>>
             /\ stale' = stale \cup ({addr} \cap {0, 2})
    <2>1. DOMAIN wr' = M!Read /\ \A k \in {0, 2} \ {addr} : wr'[k] = wr[k]
      BY <1>6 DEF PageInv, PageTypes
    <2>2. MirrorHeld'
      BY <1>1, <1>6, <2>1 DEF PageInv, MirrorHeld
    <2>3. PageTypes'
      BY <1>1, <1>6, <2>1 DEF PageInv, PageTypes
    <2>4. CirclesRead'
      BY <1>1, <1>6, CirclesStay DEF PageInv
    <2>. QED BY <2>2, <2>3, <2>4 DEF PageInv
  <1>. QED BY <1>4, <1>5, <1>6 DEF M!Fire

LEMMA ChooseKeeps ==
  ASSUME PageInv, NEW m \in Modes, M!Choose(m)
  PROVE  PageInv'
  <1>1. /\ active /\ d' = M!OutByte(d, 10, {m}) /\ wr' = [wr EXCEPT ![10] = {m}]
        /\ typed' = [typed EXCEPT ![10] = {m}] /\ armed' = armed \ {10}
        /\ stale' = M!Wrote(10, {m}) /\ ~settled'
        /\ UNCHANGED <<ext, rd, valid, active, shown>>
    <2>1. M!OutByte(d, 10, {m}) = M!Out402(d, m)
      BY DEF M!OutByte
    <2>. QED BY <2>1 DEF M!Choose
  <1>2. Register(10, {m}) /\ 10 \in M!Read
    BY DEF Register, M!Read
  <1>3. DOMAIN wr' = M!Read /\ \A k \in {0, 2} \ {10} : wr'[k] = wr[k]
    BY <1>1 DEF PageInv, PageTypes
  <1>4. MirrorHeld' /\ d' \in M!Device /\ SppIsOutput(d)' /\ d'.feature = d.feature
    BY <1>1, <1>2, <1>3, WroteHeld DEF PageInv, PageTypes
  <1>5. PageTypes'
    BY <1>1, <1>3, <1>4 DEF PageInv, PageTypes
  <1>6. CirclesRead'
    BY <1>1, <1>4, CirclesStay DEF PageInv
  <1>. QED BY <1>4, <1>5, <1>6 DEF PageInv

LEMMA OutputKeeps ==
  ASSUME PageInv, NEW b \in SUBSET Data, M!Output(b)
  PROVE  PageInv'
  <1>1. DEFINE q0 == M!Out0(d, b)
               q1 == M!Out2(q0, wr[2] \cup {0})
               c  == wr[2] \ {0}
  <1>2. /\ active /\ d' = M!Out2(q1, c) /\ wr' = [wr EXCEPT ![0] = b, ![2] = c]
        /\ typed' = [typed EXCEPT ![0] = b] /\ armed' = armed \ {0}
        /\ stale' = (M!Wrote(2, wr[2]) \ {0}) \cup (M!Wrote(0, b) \cap {0}) /\ ~settled'
        /\ UNCHANGED <<ext, rd, valid, active, shown>>
    BY DEF M!Output
  <1>3. DataWritten(d, b, q0) /\ ControlWritten(q0, wr[2] \cup {0}, q1)
    BY DataWrites, ControlWrites DEF PageInv, PageTypes, DataWritten
  <1>. HIDE DEF q0, q1, c
  <1>4. ControlWritten(q1, c, d')
    <2>1. q1 \in M!Device
      BY <1>3 DEF ControlWritten
    <2>. QED BY <1>2, <2>1, ControlWrites
  <1>5. d \in M!Device /\ q0 \in M!Device /\ q1 \in M!Device /\ d' \in M!Device
    BY <1>3, <1>4 DEF DataWritten, ControlWritten, PageInv, PageTypes
  <1>6. d'.feature = d.feature /\ q1.mode = d.mode
    BY <1>3, <1>4 DEF DataWritten, ControlWritten
  <1>7. DOMAIN wr' = M!Read /\ wr'[0] = b /\ wr'[2] = c
    BY <1>2, RegisterOf DEF PageInv, PageTypes, M!Fields
  <1>8. MirrorHeld'
    <2>1. ASSUME 0 \in valid' \ stale' PROVE Held0(d', b)
      <3>1. ~(M!Input(d) /\ M!Direct(d))
        BY <1>2, <2>1 DEF M!Wrote
      <3>2. Held0(q0, b)
        <4>1. b \cap Data = b
          OBVIOUS
        <4>. QED BY <1>3, <1>5, <3>1, <4>1, DataHeld
      <3>3. Held0(q1, b)
        BY <1>3, <1>5, <3>2, ControlHeld
      <3>. QED BY <1>4, <1>5, <3>3, ControlHeld
    <2>2. ASSUME 2 \in valid' \ stale' PROVE Held2(d', c)
      <3>1. ~(5 \in wr[2] /\ d.mode \in {0, 2})
        BY <1>2, <2>2 DEF M!Wrote
      <3>. QED BY <1>4, <1>5, <1>6, <3>1, ControlHeld DEF c
    <2>. QED BY <1>7, <2>1, <2>2 DEF MirrorHeld
  <1>9. PageTypes'
    <2>1. SppIsOutput(d')
      BY <1>4, <1>5, ControlHeld
    <2>2. typed'[10] = typed[10] /\ DOMAIN typed' = M!Fields
      BY <1>2, <2>1 DEF PageInv, PageTypes, M!Fields
    <2>. QED BY <1>2, <1>5, <1>7, <2>1, <2>2 DEF PageInv, PageTypes
  <1>10. CirclesRead'
    BY <1>2, <1>6, CirclesStay DEF PageInv
  <1>. QED BY <1>8, <1>9, <1>10 DEF PageInv

LEMMA ReadDataKeeps ==
  ASSUME PageInv, M!ReadData
  PROVE  PageInv'
  <1>1. DEFINE got == [k \in {0} |-> M!InByte(d, 0)]
  <1>2. /\ active /\ ~M!Readable(M!Mode(rd))
        /\ rd' = M!Now(got) /\ wr' = M!Mirror(got) /\ valid' = valid \cup {0}
        /\ shown' = M!Painted(got) /\ stale' = M!StaleAfter(got, d)
        /\ UNCHANGED <<d, ext, typed, armed, active, settled>>
    BY DEF M!ReadData
  <1>3. DOMAIN got = {0} /\ got[0] = M!InByte(d, 0)
    OBVIOUS
  <1>. HIDE DEF got
  <1>4. {0, 2, 10, 15} \subseteq M!Read
    BY DEF M!Read, M!Shown
  <1>5. DOMAIN rd' = M!Read /\ rd'[0] = M!InByte(d, 0) /\ \A k \in M!Read \ {0} : rd'[k] = rd[k]
    BY <1>2, <1>3, <1>4 DEF M!Now
  <1>6. DOMAIN wr' = M!Read /\ wr'[2] = wr[2] /\ wr'[0] = IF M!First(0) THEN got[0] ELSE wr[0]
    BY <1>2, <1>3, <1>4 DEF M!Mirror
  <1>7. PageTypes'
    <2>1. DOMAIN shown' = M!PlugPins
      BY <1>2 DEF M!Painted
    <2>. QED BY <1>2, <1>4, <1>5, <1>6, <2>1 DEF PageInv, PageTypes
  <1>8. MirrorHeld'
    <2>1. ASSUME 0 \in valid' \ stale' PROVE Held0(d, wr'[0])
      <3>1. CASE M!First(0)
        <4>1. M!Driven0(d)
          BY <1>2, <1>3, <2>1, <3>1 DEF M!StaleAfter
        <4>. QED BY <1>3, <1>6, <3>1, <4>1, ReadHeld DEF PageInv, PageTypes
      <3>2. CASE ~M!First(0)
        <4>1. 0 \in valid /\ ~M!Repaint(got)
          BY <1>2, <1>3, <3>2 DEF M!First, M!Repaint
        <4>2. 0 \notin stale
          BY <1>2, <2>1, <3>2, <4>1 DEF M!StaleAfter
        <4>. QED BY <1>6, <3>2, <4>1, <4>2 DEF PageInv, MirrorHeld
      <3>. QED BY <3>1, <3>2
    <2>2. 2 \in valid' \ stale' => 2 \in valid \ stale
      BY <1>2, <1>3 DEF M!StaleAfter
    <2>. QED BY <1>2, <1>6, <2>1, <2>2 DEF PageInv, MirrorHeld
  <1>9. CirclesRead'
    <2>1. rd'[10] = rd[10] /\ rd'[15] = d.feature
      BY <1>2, <1>4, <1>5 DEF PageInv, CirclesRead
    <2>2. \A pin \in M!PlugPins : shown'[pin] = M!Circle(rd', pin)
      BY <1>2, <1>3, <1>4, <2>1, PaintedRead DEF PageInv
    <2>3. M!Mode(rd') = M!Mode(rd)
      BY <2>1 DEF M!Mode
    <2>4. settled => \A addr \in M!Read : (addr = 0 => M!Readable(d.mode)) => rd'[addr] = M!InByte(d, addr)'
      BY <1>2, <1>5, SameReads DEF PageInv, CirclesRead
    <2>. QED BY <1>2, <2>1, <2>2, <2>3, <2>4 DEF PageInv, CirclesRead
  <1>. QED BY <1>7, <1>8, <1>9 DEF PageInv

LEMMA OtherKeeps ==
  ASSUME PageInv, NEW addr \in M!Shown \cup {10}, NEW b \in M!BytesFor(addr), M!Other(addr, b)
  PROVE  PageInv'
  <1>1. /\ d' = M!OutByte(d, addr, b) /\ ~settled'
        /\ stale' = stale \cup ({addr} \cap {0, 2}) \cup M!Simulated(addr)
                      \cup (IF addr = 10 /\ M!Input(d) THEN {2} ELSE {})
        /\ UNCHANGED <<ext, rd, wr, valid, typed, armed, active, shown>>
    BY DEF M!Other, M!page
  <1>2. Register(addr, b)
    BY RegisterOf DEF M!Fields
  <1>3. /\ d' \in M!Device /\ SppIsOutput(d') /\ d'.feature = d.feature
    BY <1>1, <1>2, ByteHeld DEF PageInv, PageTypes
  <1>4. MirrorHeld'
    <2>1. ASSUME 0 \in valid' \ stale' PROVE Held0(d', wr[0])
      <3>1. addr # 0 /\ 0 \notin M!Simulated(addr) /\ Held0(d, wr[0])
        BY <1>1, <2>1 DEF PageInv, MirrorHeld
      <3>2. \A c : addr # 0 /\ 0 \notin M!Simulated(addr) /\ Held0(d, c) => Held0(d', c)
        BY <1>1, <1>2, ByteHeld DEF PageInv, PageTypes
      <3>. QED BY <3>1, <3>2
    <2>2. ASSUME 2 \in valid' \ stale' PROVE Held2(d', wr[2])
      <3>1. addr # 2 /\ 2 \notin M!Simulated(addr) /\ Held2(d, wr[2]) /\ ~(addr = 10 /\ M!Input(d))
        BY <1>1, <2>2 DEF PageInv, MirrorHeld
      <3>2. \A c : /\ addr # 2 /\ 2 \notin M!Simulated(addr) /\ Held2(d, c)
                   /\ ~(addr = 10 /\ \E m \in b : M!Fixed(d, m))
                   => Held2(d', c)
        BY <1>1, <1>2, ByteHeld DEF PageInv, PageTypes
      <3>. QED BY <3>1, <3>2 DEF M!Fixed
    <2>. QED BY <1>1, <2>1, <2>2 DEF MirrorHeld
  <1>5. PageTypes'
    BY <1>1, <1>3 DEF PageInv, PageTypes
  <1>6. CirclesRead'
    BY <1>1, <1>3, CirclesStay DEF PageInv
  <1>. QED BY <1>4, <1>5, <1>6 DEF PageInv

LEMMA PageNext ==
  ASSUME PageAlone, PageInv, [M!MonNext]_<<M!port, M!monVars, ops>>
  PROVE  PageInv'
  <1>1. CASE M!Timer
    <2>1. M!Update(d) /\ UNCHANGED <<d, ext, typed, armed>> /\ active'
      BY <1>1 DEF M!Timer
    <2>. QED BY <2>1, UpdateKeeps
  <1>2. CASE M!Enter
    <2>1. M!Update(d) /\ UNCHANGED <<d, ext, typed, armed>> /\ active'
      BY <1>2 DEF M!Enter
    <2>. QED BY <2>1, UpdateKeeps
  <1>3. CASE M!Leave
    <2>1. UNCHANGED <<d, ext, rd, wr, valid, typed, armed, shown, stale, settled>> /\ ~active'
      BY <1>3 DEF M!Leave, M!port
    <2>. QED BY <2>1 DEF PageInv, PageTypes, MirrorHeld, CirclesRead
  <1>4. CASE M!Peripheral
    <2>1. UNCHANGED <<d, rd, wr, valid, typed, armed, active, shown, stale>> /\ ~settled'
            /\ ext' \in M!Pins
      BY <1>4 DEF M!Peripheral, M!port, M!page
    <2>2. CirclesRead'
      BY <2>1, CirclesStay DEF PageInv
    <2>. QED BY <2>1, <2>2 DEF PageInv, PageTypes, MirrorHeld
  <1>5. CASE UNCHANGED <<M!port, M!monVars, ops>>
    <2>1. UNCHANGED <<d, ext, rd, wr, valid, typed, armed, active, shown, stale, settled>>
      BY <1>5 DEF M!port, M!monVars, M!page
    <2>2. CirclesRead'
      BY <2>1, CirclesStay DEF PageInv
    <2>. QED BY <2>1, <2>2 DEF PageInv, PageTypes, MirrorHeld
  <1>6. ASSUME NEW addr \in Others, NEW b \in M!BytesFor(addr), M!Other(addr, b)
        PROVE  PageInv'
    BY <1>6, OtherKeeps DEF PageAlone
  <1>. QED
    BY <1>1, <1>2, <1>3, <1>4, <1>5, <1>6, ReadDataKeeps, ToggleKeeps, TypeKeeps, FireKeeps,
       ChooseKeeps, OutputKeeps DEF M!MonNext

LEMMA StartOfPage ==
  ASSUME M!MonInit
  PROVE  PageInv
  <1>1. PICK f \in Features, m \in Modes :
           d = M!Out402(M!LptOn([portD |-> {}, ddrD |-> {}, portC |-> {}, ddrC |-> {},
                                 portB |-> {}, ddrB |-> {}, data |-> {}, dcr |-> {2, 3} \cap Control,
                                 mode |-> m, timeout |-> TRUE, feature |-> f]), m)
    BY DEF M!MonInit, M!Init
  <1>2. DEFINE r == [portD |-> {}, ddrD |-> {}, portC |-> {}, ddrC |-> {},
                     portB |-> {}, ddrB |-> {}, data |-> {}, dcr |-> {2, 3} \cap Control,
                     mode |-> m, timeout |-> TRUE, feature |-> f]
  <1>3. r \in M!Device
    BY DEF M!Device, M!DcrBits
  <1>. HIDE DEF r
  <1>4. M!LptOn(r) \in M!Device
    <2>1. Turns(r, M!LptSetDataDir(r))
      BY <1>3, DirWrites
    <2>2. M!LptSetDataDir(r) \in M!Device
      BY <2>1 DEF Turns
    <2>. QED BY <1>3, <2>2 DEF M!LptOn, M!OnPortB, M!OnC, M!OnDirC, M!Device
  <1>5. ModeWritten(M!LptOn(r), m, d)
    BY <1>1, <1>4, ModeWrites DEF r
  <1>6. d \in M!Device /\ SppIsOutput(d)
    BY <1>4, <1>5, ModeHeld DEF ModeWritten
  <1>7. ext \in M!Pins
    BY DEF M!MonInit, M!Pins
  <1>8. DOMAIN rd = M!Read /\ rd[10] = {0} /\ wr = rd
    BY DEF M!MonInit, M!Read
  <1>. QED BY <1>6, <1>7, <1>8, PageBits
       DEF M!MonInit, PageInv, PageTypes, MirrorHeld, CirclesRead, ModeSets

LEMMA PageInvariant == ASSUME PageAlone PROVE M!MonSpec => []PageInv
  <1>. QED BY StartOfPage, PageNext, PTL DEF M!MonSpec

LEMMA MirrorIsTrue ==
  ASSUME PageAlone, PageInv
  PROVE  M!MirrorTrue
  <1>1. ASSUME {0, 2} \subseteq valid, NEW addr \in {0, 2} \ stale
        PROVE  M!Lines(M!SetByte(d, addr, wr[addr])) = M!Lines(d)
    BY <1>1, HeldIsMirror DEF PageInv, PageTypes, MirrorHeld
  <1>. QED BY <1>1 DEF M!MirrorTrue, PageAlone

LEMMA CirclesAreTrue ==
  ASSUME PageInv
  PROVE  M!ShownIsTrue
  <1>1. SUFFICES ASSUME active, settled
                 PROVE  /\ \A addr \in M!Read \ {0} : rd[addr] = M!InByte(d, addr)
                        /\ \A pin \in M!PlugPins :
                             shown[pin] = IF pin[1] = 0 /\ ~M!Readable(d.mode) THEN "grey"
                                          ELSE IF M!Level(pin) THEN "high" ELSE "low"
    BY DEF M!ShownIsTrue
  <1>2. \A addr \in M!Read : (addr = 0 => M!Readable(d.mode)) => rd[addr] = M!InByte(d, addr)
    BY <1>1 DEF PageInv, CirclesRead
  <1>3. {0, 1, 2, 10} \subseteq M!Read
    BY DEF M!Read, M!Shown
  <1>4. M!Mode(rd) = d.mode /\ rd[15] = d.feature
    <2>1. M!InByte(d, 10) = {d.mode}
      BY DEF M!InByte
    <2>2. rd[10] = {d.mode}
      BY <1>2, <1>3, <2>1
    <2>. QED BY <1>1, <2>2, ModeIs DEF PageInv, CirclesRead
  <1>5. ASSUME NEW pin \in M!PlugPins
        PROVE  shown[pin] = IF pin[1] = 0 /\ ~M!Readable(d.mode) THEN "grey"
                            ELSE IF M!Level(pin) THEN "high" ELSE "low"
    <2>1. shown[pin] = M!Circle(rd, pin)
      BY <1>1 DEF PageInv, CirclesRead
    <2>2. CASE pin[1] = 0 /\ ~M!Readable(d.mode)
      BY <1>4, <2>1, <2>2 DEF M!Circle
    <2>3. CASE ~(pin[1] = 0 /\ ~M!Readable(d.mode))
      <3>1. rd[pin[1]] = M!InByte(d, pin[1])
        BY <1>2, <1>3, <2>3 DEF M!PlugPins
      <3>2. (pin[2] \in M!InByte(d, pin[1])) # (M!DirectIO \notin d.feature /\ M!Inverted(pin[1], pin[2]))
              <=> M!Level(pin)
        <4>1. CASE pin \in {0} \X Data
          <5>1. pin[1] = 0 /\ ~M!Inverted(0, pin[2])
            BY <4>1 DEF M!Inverted
          <5>2. M!InByte(d, 0) = M!PinsNow(d).D /\ (M!Level(pin) <=> pin[2] \in M!PinsNow(d).D)
            BY <5>1 DEF M!InByte, M!GetByte, M!Level
          <5>. QED BY <5>1, <5>2
        <4>2. CASE pin \in {1} \X Status
          <5>1. pin[1] = 1 /\ pin[2] \in Status /\ pin[2] \in 3 .. 7
            BY <4>2, PageBits
          <5>2. M!InByte(d, 1) = M!In1(d, M!PinsNow(d))
            BY DEF M!InByte, M!GetByte
          <5>3. M!Inverted(1, pin[2]) <=> pin[2] = 7
            BY <5>1 DEF M!Inverted
          <5>4. M!Level(pin) <=> pin[2] \in M!PinsNow(d).S
            BY <5>1 DEF M!Level
          <5>. QED BY <5>1, <5>2, <5>3, <5>4 DEF M!In1, M!Direct, M!InvStatus, M!Xor
        <4>3. CASE pin \in {2} \X Control
          <5>1. pin[1] = 2 /\ pin[2] \in Control /\ pin[2] \in 0 .. 3
            BY <4>3, PageBits
          <5>2. M!InByte(d, 2) = M!In2Of(d, M!PinsNow(d).C)
            BY DEF M!InByte, M!GetByte
          <5>3. M!Inverted(2, pin[2]) <=> pin[2] \in {0, 1, 3}
            BY <5>1 DEF M!Inverted
          <5>4. M!Level(pin) <=> pin[2] \in M!PinsNow(d).C
            BY <5>1 DEF M!Level
          <5>. QED BY <5>1, <5>2, <5>3, <5>4 DEF M!In2Of, M!Direct, M!InvControl, M!Xor
        <4>. QED BY <4>1, <4>2, <4>3 DEF M!PlugPins
      <3>. QED BY <1>4, <2>1, <2>3, <3>1, <3>2 DEF M!Circle
    <2>. QED BY <2>2, <2>3
  <1>. QED BY <1>2, <1>5

\* The page's mirror is what was written, and its circles are the levels at the plug, for any
\* bits of the ports and any use by the user and by other programs that leave Feature alone
\* (update, ToggleBit, TimerUpdate).
THEOREM PageStaysTrue == ASSUME PageAlone PROVE M!MonSpec => []PageIsTrue
  <1>1. PageInv => PageIsTrue
    BY MirrorIsTrue, CirclesAreTrue DEF PageIsTrue
  <1>. QED BY <1>1, PageInvariant, PTL
-----------------------------------------------------------------------------
(* PortTalk *)

\* One program at a time reads from a HID, transfers succeed, and the addresses are those of
\* the first eight registers (the findings say what else happens).
TalkAlone == ~Shared /\ ~TransfersFail /\ Addresses \subseteq 888 .. 895

TalkTypes ==
  /\ hAccess \in [Users -> T!Handles \cup {"none"}]
  /\ DOMAIN reading = Users /\ DOMAIN answer = Users /\ DOMAIN should = Users
  /\ DOMAIN reg = T!Handles /\ DOMAIN replies = 1 .. Len(replies) /\ replies \in Seq(Int)
  /\ \A h \in T!Handles : reg[h] \in [T!Registers -> Int]
  /\ uses \in Int
\* Who reads from the HID is alone, and its answer is the one there.
OneReads ==
  \A p \in Users : reading[p] # 0 =>
    /\ replies = <<should[p]>>
    /\ \A q \in Users : reading[q] # 0 => q = p
TalkInv == TalkTypes /\ OneReads /\ T!CallsServed

LEMMA CommandsMeant ==
  ASSUME NEW a \in 888 .. 895
  PROVE  /\ T!Command(a) = T!Meant(a) /\ T!Command(a) \in T!Registers
         /\ T!ReadCommand(a) \in 16 .. 31 /\ T!ReadCommand(a) - 16 = T!Meant(a)
  <1>1. T!Command(a) = a - 888 /\ T!Meant(a) = a - 888
    BY DEF T!Command, T!Meant
  <1>2. (T!Command(a) \div 16) % 2 = 0
    BY <1>1
  <1>. QED BY <1>1, <1>2 DEF T!ReadCommand, T!Registers

LEMMA OpenServed ==
  ASSUME TalkInv, NEW p \in Users, T!InitPortTalk(p) \/ T!ExitPortTalk(p)
  PROVE  TalkInv'
  <1>1. CASE T!InitPortTalk(p)
    <2>1. hAccess' \in [Users -> T!Handles \cup {"none"}]
      BY <1>1 DEF T!InitPortTalk, T!Handles, TalkInv, TalkTypes
    <2>. QED BY <1>1, <2>1 DEF T!InitPortTalk, TalkInv, TalkTypes, OneReads, T!CallsServed
  <1>2. CASE T!ExitPortTalk(p)
    BY <1>2 DEF T!ExitPortTalk, TalkInv, TalkTypes, OneReads, T!CallsServed
  <1>. QED BY <1>1, <1>2

LEMMA OutServed ==
  ASSUME TalkAlone, TalkInv, NEW p \in Users, NEW a \in Addresses, T!outport(p, a)
  PROVE  TalkInv'
  <1>1. T!Command(a) = T!Meant(a) /\ T!Command(a) \in T!Registers
    BY CommandsMeant DEF TalkAlone
  <1>2. DEFINE h == hAccess[p]
               v == uses'
  <1>3. h \in T!Handles /\ v \in Int
    BY DEF T!outport, T!Use, TalkInv, TalkTypes
  <1>4. /\ reg' = [reg EXCEPT ![h][T!Command(a)] = v]
        /\ wanted' = [wanted EXCEPT ![h][T!Meant(a)] = v]
        /\ UNCHANGED <<hAccess, replies, reading, answer, should>>
    BY <1>1 DEF T!outport, TalkAlone
  <1>. HIDE DEF h, v
  <1>5. reg' = wanted'
    BY <1>1, <1>4 DEF TalkInv, T!CallsServed
  <1>6. DOMAIN reg' = T!Handles /\ \A k \in T!Handles : reg'[k] \in [T!Registers -> Int]
    BY <1>1, <1>3, <1>4 DEF TalkInv, TalkTypes
  <1>7. uses' \in Int
    BY <1>3 DEF v
  <1>. QED BY <1>4, <1>5, <1>6, <1>7 DEF TalkInv, TalkTypes, OneReads, T!CallsServed

LEMMA InServed ==
  ASSUME TalkAlone, TalkInv, NEW p \in Users, NEW a \in Addresses, T!inport(p, a)
  PROVE  TalkInv'
  <1>1. T!ReadCommand(a) \in 16 .. 31 /\ T!ReadCommand(a) - 16 = T!Meant(a) /\ a # 0
          /\ T!Meant(a) \in T!Registers
    BY CommandsMeant DEF TalkAlone
  <1>2. DEFINE h == hAccess[p]
               v == reg[h][T!Meant(a)]
  <1>3. h \in T!Handles /\ v \in Int /\ \A q \in Users : reading[q] = 0
    BY <1>1 DEF T!inport, T!Use, TalkInv, TalkTypes, TalkAlone
  <1>4. T!Replied(h, T!ReadCommand(a)) = <<v>>
    BY <1>1 DEF T!Replied
  <1>5. /\ should' = [should EXCEPT ![p] = v] /\ uses' \in Int
        /\ UNCHANGED <<hAccess, reg, wanted>>
    BY DEF T!inport, T!Use, TalkInv, TalkTypes
  <1>6. IF h = "hid" THEN /\ replies' = replies \o <<v>> /\ reading' = [reading EXCEPT ![p] = a]
                          /\ UNCHANGED answer
                     ELSE /\ answer' = [answer EXCEPT ![p] = v] /\ UNCHANGED <<replies, reading>>
    <2>1. \E ok \in {TRUE, ~TransfersFail} :
             LET bytes == IF ok THEN T!Replied(h, T!ReadCommand(a)) ELSE <<>>
             IN  IF h = "hid"
                 THEN /\ replies' = replies \o bytes /\ reading' = [reading EXCEPT ![p] = a]
                      /\ UNCHANGED answer
                 ELSE T!Answered(p, bytes, a) /\ UNCHANGED <<replies, reading>>
      BY DEF T!inport
    <2>2. IF h = "hid" THEN /\ replies' = replies \o <<v>> /\ reading' = [reading EXCEPT ![p] = a]
                            /\ UNCHANGED answer
                       ELSE T!Answered(p, <<v>>, a) /\ UNCHANGED <<replies, reading>>
      <3>. HIDE DEF h, v
      <3>. QED BY <1>4, <2>1 DEF TalkAlone
    <2>3. T!Answered(p, <<v>>, a) => answer' = [answer EXCEPT ![p] = v]
      <3>. HIDE DEF v
      <3>. QED BY DEF T!Answered
    <2>. QED BY <2>2, <2>3
  <1>. HIDE DEF h, v
  <1>7. replies = <<>>
    BY <1>3 DEF TalkInv, T!CallsServed
  <1>8. CASE h = "hid"
    <2>1. replies' = <<v>>
      BY <1>3, <1>6, <1>7, <1>8
    <2>. QED BY <1>1, <1>3, <1>5, <1>6, <1>8, <2>1 DEF TalkInv, TalkTypes, OneReads, T!CallsServed
  <1>9. CASE h # "hid"
    BY <1>3, <1>5, <1>6, <1>9 DEF TalkInv, TalkTypes, OneReads, T!CallsServed
  <1>. QED BY <1>8, <1>9

LEMMA AnswerServed ==
  ASSUME TalkAlone, TalkInv, NEW p \in Users, T!GetFeature(p)
  PROVE  TalkInv'
  <1>1. /\ reading[p] # 0 /\ replies = <<should[p]>> /\ \A q \in Users \ {p} : reading[q] = 0
    BY DEF T!GetFeature, TalkInv, OneReads
  <1>2. /\ answer' = [answer EXCEPT ![p] = should[p]] /\ replies' = Tail(replies)
        /\ reading' = [reading EXCEPT ![p] = 0]
        /\ UNCHANGED <<hAccess, reg, wanted, should, uses>>
    BY <1>1 DEF T!GetFeature, T!Answered, TalkAlone
  <1>3. replies' = <<>>
    BY <1>1, <1>2 DEF TalkInv, TalkTypes
  <1>. QED BY <1>1, <1>2, <1>3 DEF TalkInv, TalkTypes, OneReads, T!CallsServed

LEMMA TalkInvariant == ASSUME TalkAlone PROVE T!Spec => []TalkInv
  <1>1. T!Init => TalkInv
    BY DEF T!Init, TalkInv, TalkTypes, OneReads, T!CallsServed, T!Handles, T!Registers
  <1>2. TalkInv /\ [T!Next]_(T!talkVars) => TalkInv'
    <2>1. ASSUME TalkInv, UNCHANGED T!talkVars PROVE TalkInv'
      BY <2>1 DEF T!talkVars, TalkInv, TalkTypes, OneReads, T!CallsServed
    <2>. QED BY <2>1, OpenServed, OutServed, InServed, AnswerServed DEF T!Next
  <1>. QED BY <1>1, <1>2, PTL DEF T!Spec

\* Whatever programs open the port, close it and call outport and inport, each register of the
\* device they have opened holds what was last written to its address, and each call of inport
\* returns it (PortTalk.cpp).
THEOREM CallsStayServed == ASSUME TalkAlone PROVE T!Spec => []T!CallsServed
  <1>1. TalkInv => T!CallsServed
    BY DEF TalkInv
  <1>. QED BY <1>1, TalkInvariant, PTL
-----------------------------------------------------------------------------
(* The parts together *)

LEMMA LinesPart ==
  [MCNext]_<<part, vars, talk, monitor, lines>> => [S!TestNext]_<<S!vars, S!testVars>>
  <1>1. lines' = lines => UNCHANGED <<S!vars, S!testVars>>
    BY DEF lines, S!vars, S!testVars
  <1>. QED BY <1>1 DEF MCNext

LEMMA PagePart ==
  [MCNext]_<<part, vars, talk, monitor, lines>> => [M!MonNext]_<<M!port, M!monVars, ops>>
  <1>1. monitor' = monitor => UNCHANGED <<M!port, M!monVars, ops>>
    BY DEF monitor, M!port, M!monVars, M!page
  <1>. QED BY <1>1 DEF MCNext

LEMMA TalkPart ==
  [MCNext]_<<part, vars, talk, monitor, lines>> => [T!Next]_(T!talkVars)
  <1>1. talk' = talk => UNCHANGED T!talkVars
    BY DEF talk, T!talkVars
  <1>. QED BY <1>1 DEF MCNext

\* In the composition that is model-checked the lines are as promised and undisturbed, time-outs
\* are told, the test's verdict and the page are true, and calls are served, as said above.
THEOREM ProgramsKept ==
  ASSUME TimelyHost, PageAlone, TalkAlone
  PROVE  MCSpec => [](/\ PromisesKept /\ OutputsSafe /\ TimeoutTells /\ SelfTestTrue
                      /\ PageIsTrue /\ T!CallsServed)
  <1>1. MCInit => S!TestInit
    BY DEF MCInit
  <1>2. MCSpec => S!TestSpec
    BY <1>1, LinesPart, PTL DEF MCSpec, S!TestSpec
  <1>3. Careful
    BY DEF TimelyHost
  <1>4. MCInit => M!MonInit
    BY DEF MCInit
  <1>5. MCSpec => M!MonSpec
    BY <1>4, PagePart, PTL DEF MCSpec, M!MonSpec
  <1>6. MCInit => T!Init
    BY DEF MCInit
  <1>7. MCSpec => T!Spec
    BY <1>6, TalkPart, PTL DEF MCSpec, T!Spec
  <1>. QED BY <1>2, <1>3, <1>5, <1>7, LinesPromised, LinesUndisturbed, TimeoutsTold, TestTold,
     PageStaysTrue, CallsStayServed, PTL
=============================================================================
