------------------------------ MODULE Monitor ------------------------------
(***************************************************************************)
(* The property sheet's page Monitor (dll/mon.cpp) and the device it       *)
(* shows.  The page reads the registers every 200 ms, keeps what it read   *)
(* (LptRegsRd) and a mirror of what was written (LptRegsWr), and repaints  *)
(* only what has changed.  The user clicks on bits and types bytes; what   *)
(* is typed is put out 500 ms later.  Another program may use the port at  *)
(* the same time, and the page may be left and entered again.              *)
(*                                                                         *)
(* The pins of the plug are painted; the boxes of the bits and the         *)
(* bubble help are left out, as are the buttons in FIFO and EPP mode.      *)
(***************************************************************************)
EXTENDS PortLines

CONSTANTS
  Others,    \* registers that another program writes
  Trusting   \* the mirror is taken for true whatever happened: see MirrorTrue

VARIABLES
  ext,     \* levels the peripheral gives lines that are inputs
  rd, wr,  \* LptRegsRd and LptRegsWr; register 10 holds the mode
  valid,   \* registers that have been read since the page was entered
  combo,   \* the mode in the combo box
  typed,   \* of each edit field: the byte typed
  armed,   \* fields whose timer runs
  active,  \* the page is in front: its timer runs, the handle is open
  shown,   \* the circle painted for each pin
  stale,   \* ghost: data and control port, if the mirror may be wrong
  settled  \* ghost: nothing has changed since the page was updated

port == <<d, raw, epp, wait, lost>>
page == <<rd, wr, valid, combo, typed, armed, active, shown>>
monVars == <<ext, page, stale, settled>>

Shown  == {0, 1, 2, 12, 13, 14}          \* registers with boxes
Read   == Shown \cup {10, 15}
Fields == {0, 1, 2, 10}
PlugPins == ({0} \X Data) \cup ({1} \X Status) \cup ({2} \X Control)

\* What the pins read: outputs as driven, inputs as the peripheral has them.
PinsNow(r) ==
  [D |-> (r.portD \cap r.ddrD) \cup (ext.D \ r.ddrD),
   S |-> (r.portC \cap r.ddrC) \cup (ext.S \ r.ddrC),
   C |-> (r.portB \cap r.ddrB) \cup (ext.C \ r.ddrB)]

InByte(r, reg) == IF reg = 10 THEN {r.mode} ELSE GetByte(r, PinsNow(r), reg, FALSE)
OutByte(r, reg, b) ==
  IF reg = 10 THEN Out402(r, CHOOSE m \in b : TRUE) ELSE SetByte(r, reg, b)
-----------------------------------------------------------------------------
(* What is painted *)

Readable(m) == m < 2 \/ m = 4
\* BitHasInversion, without DirectIO.
Inverted(reg, bit) == <<reg, bit>> \in {<<1, 7>>, <<2, 0>>, <<2, 1>>, <<2, 3>>}
Mode(regs) == CHOOSE m \in regs[10] : TRUE

\* DrawPin: grey where the port cannot be read without side effects.
Circle(regs, pin) ==
  IF pin[1] = 0 /\ ~Readable(Mode(regs)) THEN "grey"
  ELSE IF (pin[2] \in regs[pin[1]]) # (DirectIO \notin regs[15] /\ Inverted(pin[1], pin[2]))
       THEN "high" ELSE "low"

\* Fault: the mirror takes every value that is read.
MirrorRead(got) == [reg \in Read |-> IF reg \in DOMAIN got THEN got[reg] ELSE wr[reg]]

\* update, for the registers in turn: what was read, the mirror at the first time
\* (and always for the directions), and the circles of bits that have changed.
First(reg) == ~active \/ reg \notin valid
Mirror(got) ==
  [reg \in Read |-> IF reg \in DOMAIN got /\ (First(reg) \/ reg \in {12, 13, 14})
                    THEN got[reg] ELSE wr[reg]]
Now(got) == [reg \in Read |-> IF reg \in DOMAIN got THEN got[reg] ELSE rd[reg]]

\* Fault: another mode does not paint the page anew.
NoRepaint(got) == 10 \in DOMAIN got /\ First(10)

\* SetEcrMode paints everything, and has the data port read again.
Repaint(got) == 10 \in DOMAIN got /\ (First(10) \/ got[10] # rd[10])
Painted(got) ==
  [pin \in PlugPins |->
     IF Repaint(got) \/ (~First(pin[1]) /\ (pin[2] \in Now(got)[pin[1]]) # (pin[2] \in rd[pin[1]]))
     THEN Circle(Now(got), pin) ELSE shown[pin]]

\* The mirror is true if the lines that were read are all driven, as they are after a
\* write of the same levels, and the device keeps no other byte (written in input
\* direction with DirectIO, to come out when a mode fixes the direction).
Driven0(r) ==
  /\ r.ddrD = Data /\ (OpenData \in r.feature => r.portD = {})
  /\ r.portD = r.data /\ ~Input(r)
Driven2(r) == r.ddrB = Control /\ (OpenControl \in r.feature => r.portB = {})
StaleAfter(got, r) ==
  LET taken == {reg \in {0, 2} \cap DOMAIN got : First(reg) \/ (reg = 0 /\ Repaint(got))} IN
  (stale \ taken) \cup {reg \in taken : ~(IF reg = 0 THEN Driven0(r) ELSE Driven2(r))}
-----------------------------------------------------------------------------
Do == ops < MaxOps /\ ops' = ops + 1
Quiet == UNCHANGED <<raw, epp, wait, lost>>

\* TimerUpdate: one request for the safe registers, then the data port.
Got(r) ==
  [reg \in (Read \ {0}) \cup (IF Readable(r.mode) THEN {0} ELSE {}) |-> InByte(r, reg)]
\* The data port is read after the mode: a new mode has it mirrored again.
MirrorAll(got) ==
  IF Repaint(got) /\ 0 \in DOMAIN got THEN [Mirror(got) EXCEPT ![0] = got[0]] ELSE Mirror(got)
Update(r) ==
  LET got == Got(r) IN
  /\ rd' = Now(got) /\ wr' = MirrorAll(got) /\ shown' = Painted(got)
  /\ valid' = ((IF active THEN valid ELSE {}) \cup DOMAIN got) \ (IF Repaint(got) THEN {0} \ DOMAIN got ELSE {})
  /\ combo' = IF Repaint(got) THEN r.mode ELSE combo
  /\ stale' = StaleAfter(got, r)
  /\ settled' = TRUE

Timer ==
  /\ active /\ ~settled
  /\ Update(d)
  /\ UNCHANGED <<d, ext, typed, armed, active, ops>> /\ Quiet

\* A write of a direction register past the simulation of open collectors: a write of
\* the port undoes it.
Simulated(reg) ==
  CASE reg = 12 /\ OpenData \in d.feature -> {0} [] reg = 14 /\ OpenControl \in d.feature -> {2}
    [] OTHER -> {}

\* The mirror of a port is true again when all of it is written; but the device
\* drops the direction bit in the SPP modes, and the mirror keeps it; and with
\* DirectIO a byte for input direction is not put out later.
Wrote(reg, b) ==
  (stale \ {reg}) \cup Simulated(reg)
    \cup (IF reg = 0 /\ Input(d) /\ Direct(d) THEN {0} ELSE {})
    \cup (IF \/ reg = 10 /\ \E m \in b : Fixed(d, m)
             \/ reg = 2 /\ 5 \in b /\ d.mode \in {0, 2}
          THEN {2} ELSE {})

\* ToggleBit: the mirror with one bit changed is put out, the register read back.
ToggleBit(reg, bit) ==
  /\ active /\ Do
  /\ LET b == Xor(wr[reg], {bit})
         r == OutByte(d, reg, b)
         got == [k \in {reg} |-> InByte(r, reg)] IN
     /\ d' = r
     /\ rd' = Now(got) /\ valid' = valid \cup {reg}
     /\ wr' = [wr EXCEPT ![reg] = IF First(reg) \/ reg \in {12, 13, 14} THEN got[reg] ELSE b]
     /\ shown' = Painted(got)
     /\ typed' = IF reg < 3 THEN [typed EXCEPT ![reg] = b] ELSE typed
     /\ armed' = armed \ {reg}
     /\ stale' = IF First(reg) THEN StaleAfter(got, r) ELSE Wrote(reg, b)
  /\ settled' = FALSE
  /\ UNCHANGED <<ext, combo, active>> /\ Quiet

\* A byte is typed into a field: EN_CHANGE.
Type(reg, b) ==
  /\ active /\ Do
  /\ typed' = [typed EXCEPT ![reg] = b] /\ armed' = armed \cup {reg}
  /\ UNCHANGED <<port, ext, rd, wr, valid, combo, active, shown, stale, settled>>

\* The field's timer: the byte is put out if the mirror has another.  The timer runs
\* on when the page is left, and the handle is closed then.
Fire(reg) ==
  /\ reg \in armed
  /\ armed' = armed \ {reg}
  /\ IF wr[reg] = typed[reg] THEN UNCHANGED <<d, wr, stale, settled>>
     ELSE /\ wr' = [wr EXCEPT ![reg] = typed[reg]]
          /\ IF active
             THEN /\ d' = OutByte(d, reg, typed[reg]) /\ settled' = FALSE
                  /\ stale' = Wrote(reg, typed[reg])
             ELSE UNCHANGED <<d, settled>> /\ stale' = stale \cup ({reg} \cap {0, 2})
  /\ UNCHANGED <<ext, rd, valid, combo, typed, active, shown, ops>> /\ Quiet

\* The combo box, and the button Output with its strobe in the modes 0 and 1.
Choose(m) ==
  /\ active /\ Do
  /\ d' = Out402(d, m) /\ wr' = [wr EXCEPT ![10] = {m}] /\ combo' = m
  /\ typed' = [typed EXCEPT ![10] = {m}] /\ armed' = armed \ {10}
  /\ stale' = Wrote(10, {m}) /\ settled' = FALSE
  /\ UNCHANGED <<ext, rd, valid, active, shown>> /\ Quiet

Output(b) ==
  /\ active /\ combo \in {0, 1} /\ Do
  /\ d' = Out2(Out2(Out0(d, b), wr[2] \cup {0}), wr[2] \ {0})
  /\ wr' = [wr EXCEPT ![0] = b, ![2] = @ \ {0}]
  /\ typed' = [typed EXCEPT ![0] = b] /\ armed' = armed \ {0}
  /\ stale' = (Wrote(2, wr[2]) \ {0}) \cup (Wrote(0, b) \cap {0}) /\ settled' = FALSE
  /\ UNCHANGED <<ext, rd, valid, combo, active, shown>> /\ Quiet

\* The button Read, for modes in which the timer does not read the data port.
ReadData ==
  /\ active /\ Do /\ ~Readable(Mode(rd))
  /\ LET got == [k \in {0} |-> InByte(d, 0)] IN
     /\ rd' = Now(got) /\ wr' = Mirror(got) /\ valid' = valid \cup {0} /\ shown' = Painted(got)
     /\ stale' = StaleAfter(got, d)
  /\ UNCHANGED <<d, ext, combo, typed, armed, active, settled>> /\ Quiet

\* PSN_KILLACTIVE; PSN_SETACTIVE forgets what has been read and updates at once.
Leave ==
  /\ active /\ Do
  /\ active' = FALSE
  /\ UNCHANGED <<port, ext, rd, wr, valid, combo, typed, armed, shown, stale, settled>>
Enter ==
  /\ ~active /\ Do
  /\ active' = TRUE
  /\ Update(d)
  /\ UNCHANGED <<d, ext, typed, armed>> /\ Quiet

\* The peripheral, and another program.
Peripheral ==
  /\ Do /\ ext' \in Pins /\ ext' # ext
  /\ settled' = FALSE
  /\ UNCHANGED <<port, page, stale>>
Other(reg, b) ==
  /\ Do
  /\ d' = OutByte(d, reg, b)
  /\ stale' = stale \cup ({reg} \cap {0, 2}) \cup Simulated(reg)
                 \cup (IF reg = 10 /\ Input(d) THEN {2} ELSE {})
  /\ settled' = FALSE
  /\ UNCHANGED <<ext, page>> /\ Quiet

BytesFor(reg) == IF reg = 10 THEN {{m} : m \in Modes} ELSE BytesOf(reg)

MonInit ==
  /\ Init
  /\ ext \in {[D |-> {}, S |-> {}, C |-> {}], [D |-> Data, S |-> Status, C |-> Control]}
  /\ rd = [reg \in Read |-> IF reg = 10 THEN {0} ELSE {}] /\ wr = rd
  /\ valid = {} /\ combo = 0 /\ typed = [reg \in Fields |-> {}] /\ armed = {} /\ active = FALSE
  /\ shown = [pin \in PlugPins |-> "none"] /\ stale = {} /\ settled = FALSE

MonNext ==
  \/ Timer \/ ReadData \/ Leave \/ Enter \/ Peripheral
  \/ \E reg \in Shown : \E bit \in BitsOf(reg) \ {4} : ToggleBit(reg, bit)
  \/ \E reg \in Fields : (\E b \in BytesFor(reg) : Type(reg, b)) \/ Fire(reg)
  \/ \E m \in Modes : Choose(m)
  \/ \E b \in SUBSET Data : Output(b)
  \/ \E reg \in Others : \E b \in BytesFor(reg) : Other(reg, b)

MonSpec == MonInit /\ [][MonNext]_<<port, monVars, ops>>
-----------------------------------------------------------------------------
\* LptRegsWr is the "Spiegel der Schreibdaten" (mon.cpp:22): to write it once more
\* changes no line.  So a click on a bit moves this bit only, and a byte that is
\* not put out, because the mirror has it, is there.
Lines(r) == <<r.portD, r.ddrD, r.portB, r.ddrB>>
MirrorTrue ==
  active /\ {0, 2} \subseteq valid =>
    \A reg \in {0, 2} \ (IF Trusting THEN {} ELSE stale) : Lines(SetByte(d, reg, wr[reg])) = Lines(d)

\* After an update the circles show the levels at the plug, and the registers that
\* can be read without side effects are known.
Level(pin) ==
  LET p == PinsNow(d) IN
  CASE pin[1] = 0 -> pin[2] \in p.D [] pin[1] = 1 -> pin[2] \in p.S [] pin[1] = 2 -> pin[2] \in p.C
ShownIsTrue ==
  active /\ settled =>
    /\ \A reg \in Read \ {0} : rd[reg] = InByte(d, reg)
    /\ \A pin \in PlugPins :
         shown[pin] = IF pin[1] = 0 /\ ~Readable(d.mode) THEN "grey"
                      ELSE IF Level(pin) THEN "high" ELSE "low"
=============================================================================
