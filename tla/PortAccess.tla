----------------------------- MODULE PortAccess -----------------------------
(***************************************************************************)
(* How a program's access to a port gets to the driver (sys/Vlpt.c,        *)
(* sys/amd64.asm): by a debug register and INT 1, whose handler guesses    *)
(* the instruction from the two bytes before it; by the redirected         *)
(* functions READ_PORT_UCHAR and so on; under Windows 98 also by a handler *)
(* for each port (IOPM).  With them the part of AllocDR and FreeDR that    *)
(* installs and removes those handlers.                                    *)
(*                                                                         *)
(* An access is one step: what becomes of it in HandleOut and HandleIn is  *)
(* PortIO's part, the debug registers are DebugTrap's.  String and other   *)
(* forms that the driver does not support are one form, "string".          *)
(***************************************************************************)
EXTENDS Integers, FiniteSets, FiniteSetsExt

CONSTANTS
  Systems,   \* of "nt", "win98" and "amd64"
  Devices, Nobody,
  Blocks,    \* base addresses of blocks of four ports
  Ports,     \* of 0 .. 3: the ports of a block that are looked at
  NumDR,     \* slots backed by debug registers (4)
  TableLen,  \* Usage_Len (32)
  MaxAccess, \* bound: accesses
  Coincide,  \* TRUE: a debugger's breakpoint may hit together with the driver's
  Odd66,     \* TRUE: the instruction before may end in a byte 66h
  Push,      \* TRUE: an entry may be pushed out of its place by MakeSpace
  Wide       \* TRUE: a read of four bytes may fail

PortAccessAssumption ==
  /\ Nobody \notin Devices /\ NumDR \in 1 .. 4 /\ TableLen \in Nat /\ TableLen > NumDR
  /\ 0 \notin Blocks /\ Ports \subseteq 0 .. 3 /\ MaxAccess \in Nat
  /\ {Coincide, Odd66, Push, Wide} \subseteq BOOLEAN

VARIABLES
  sys,     \* which build of the driver
  usage,   \* Usage[i]: a block, or 0
  x4dr,    \* X4DR[i]: its device
  foreign, \* debug registers that others use
  dr6,     \* bits 0 to 3 of DR6
  handler, \* handler[b][k]: who handles port k of block b under Windows 98
  hasTrap, \* HasTrap[i]: ports of the slot's block with a handler of the driver's
  locked,  \* devices whose No_Function is set
  fail,    \* X->ac.fail
  lost,    \* ghost: accesses of programs nobody carried out
  wrong,   \* ghost: how accesses have gone wrong
  count    \* accesses so far (bounds the model)

vars == <<sys, usage, x4dr, foreign, dr6, handler, hasTrap, locked, fail, lost, wrong, count>>

Places == 0 .. TableLen - 1
Regs  == 0 .. NumDR - 1
UsageBits == {i \in Places : usage[i] # 0}
SlotOf(b) == {i \in Places : usage[i] = b}
Owner(b) == {x4dr[i] : i \in SlotOf(b)}

Accesses == [b : Blocks, k : Ports, way : {"instr", "user", "call"}, dir : {"in", "out"},
             width : {1, 2, 4}, string : BOOLEAN, odd : BOOLEAN]

Init ==
  /\ sys \in Systems
  /\ usage = [i \in Places |-> 0] /\ x4dr = [i \in Places |-> Nobody]
  /\ foreign \in SUBSET {0} /\ dr6 = {}
  /\ handler \in [Blocks -> [Ports -> {"none", "other"}]]
  /\ sys # "win98" => handler = [b \in Blocks |-> [k \in Ports |-> "none"]]
  /\ hasTrap = [i \in Places |-> {}]
  /\ locked = {}
  /\ fail = [d \in Devices |-> 0] /\ lost = [d \in Devices |-> 0]
  /\ wrong = {} /\ count = 0
-----------------------------------------------------------------------------
(* AllocDR and FreeDR *)

\* InstallIoHandler: ports that have a handler keep it.
Installed(b) == {k \in Ports : handler[b][k] = "none"}
SetHandlers(b, ks, who) == [handler EXCEPT ![b] = [k \in Ports |-> IF k \in ks THEN who ELSE @[k]]]

\* MakeSpace moves the entries from slot NumDR on, the handlers' bits stay.
Pushed(f) == [i \in Places |-> IF i > NumDR THEN f[i - 1] ELSE f[i]]

Enter(b, d, i, u, x) ==
  /\ usage' = [u EXCEPT ![i] = b] /\ x4dr' = [x EXCEPT ![i] = d]
  /\ IF sys = "win98"
     THEN /\ handler' = SetHandlers(b, Installed(b), "driver")
          /\ hasTrap' = [hasTrap EXCEPT ![i] = Installed(b)]
     ELSE UNCHANGED <<handler, hasTrap>>

FreeIn(range) == {i \in range : usage[i] = 0 /\ i \notin foreign}

AllocDR(b, d, debreg) ==
  /\ SlotOf(b) = {}
  /\ LET free == FreeIn(IF debreg THEN Places ELSE Places \ Regs) IN
     IF free # {} THEN Enter(b, d, Min(free), usage, x4dr)
     ELSE Push /\ ~debreg /\ Enter(b, d, NumDR, Pushed(usage), Pushed(x4dr))
  /\ UNCHANGED <<sys, foreign, dr6, locked, fail, lost, wrong, count>>

\* Fault: the address is cleared before the handlers are removed.
RemovedLate(i) == {}

\* RemoveIoHandler, for the ports of the slot that have one.
Removed(i) == hasTrap[i]

FreeDR(b) ==
  /\ \E i \in SlotOf(b) :
       /\ usage' = [usage EXCEPT ![i] = 0] /\ x4dr' = [x4dr EXCEPT ![i] = Nobody]
       /\ handler' = SetHandlers(b, Removed(i), "none")
       /\ hasTrap' = [hasTrap EXCEPT ![i] = {}]
  /\ UNCHANGED <<sys, foreign, dr6, locked, fail, lost, wrong, count>>
-----------------------------------------------------------------------------
(* HandleOut and HandleIn *)

\* A failed read says FFh in each byte of the mask (1 << 8*width) - 1, where the
\* processor takes the count modulo 32.
Ones(width) == width % 4

\* What the device is asked for, against what the program has asked for.
Judged(d, a, width, fails) ==
  (IF d = Nobody THEN {"no device"} ELSE IF {d} # Owner(a.b) THEN {"another device"} ELSE {})
    \cup (IF width # a.width THEN {"width"} ELSE {})
    \cup (IF fails /\ Ones(width) # width THEN {"not all ones"} ELSE {})

Carry(d, a, width) ==
  /\ \E fails \in BOOLEAN :
       /\ fails => a.dir = "in" /\ (width # 4 \/ Wide)
       /\ wrong' = wrong \cup Judged(d, a, width, fails)
  /\ UNCHANGED <<fail, lost>>

\* The access is counted, and has no effect.
Fail(d, a) ==
  /\ wrong' = IF a.string THEN wrong ELSE wrong \cup {"lost"}
  /\ lost' = [lost EXCEPT ![d] = @ + 1]
  /\ fail' = [fail EXCEPT ![d] = @ + 1]

\* The real port is accessed.
Hardware(a) ==
  /\ wrong' = IF a.way = "call" /\ Owner(a.b) \ locked # {} THEN wrong \cup {"hardware"} ELSE wrong
  /\ UNCHANGED <<fail, lost>>
-----------------------------------------------------------------------------
(* INT 1 *)

\* HandleOutIn: the byte before the opcode counts as a prefix if it is 66h; a prefix
\* turns the width of the code segment around.
Guessed32(a) == IF a.width = 1 \/ ~a.odd THEN a.width ELSE 6 - a.width

\* In 64 bit code the width is four bytes, and two with a prefix.
Guessed64(a) == IF a.width = 1 THEN 1 ELSE IF a.width = 2 \/ a.odd THEN 2 ELSE 4

Guessed(a) == IF sys = "amd64" THEN Guessed64(a) ELSE Guessed32(a)

\* DispatchHook and HandleOutIn, with the device of a debug register.
Dispatch(d, a) == IF a.string /\ d # Nobody THEN Fail(d, a) ELSE Carry(d, a, Guessed(a))

\* bsf takes the lowest of all bits.
Lowest(bits) == Min(bits)

\* NewInt1: if a bit is the driver's, all of its bits are cleared, and the lowest bit
\* set decides; otherwise the interrupt is a debugger's.
NewInt1(a, bits) ==
  /\ bits \cap UsageBits \cap Regs # {}
  /\ dr6' = bits \ (UsageBits \cap Regs)
  /\ Dispatch(x4dr[Lowest(bits)], a)

\* The instruction hits the debug register of its block, and perhaps another one.
\* Its context (V86, ring 3 or ring 0) is saved and restored around the handler.
Instruction(a) ==
  LET hit == SlotOf(a.b) \cap Regs
      others == IF Coincide THEN SUBSET foreign ELSE {{}} IN
  IF hit # {}
  THEN \E more \in others : NewInt1(a, dr6 \cup hit \cup more)
  ELSE Hardware(a) /\ UNCHANGED dr6
-----------------------------------------------------------------------------
(* Redirected functions, and handlers for ports *)

\* FindAddr: the slot, if the device is not locked.
Found(b) == {i \in SlotOf(b) : x4dr[i] \notin locked}

\* MyWritePortUchar and its relatives.  Without a device they run the instruction
\* themselves, and that may still hit a debug register.
Call(a) ==
  IF Found(a.b) = {} THEN Instruction(a)
  ELSE LET d == x4dr[Min(Found(a.b))] IN
       /\ UNCHANGED dr6
       /\ IF a.string THEN Fail(d, a) ELSE Carry(d, a, a.width)

\* IOCallback: one byte each, Windows takes wider accesses apart.  Whether FindAddr
\* has found something is not asked, nor whether the device is locked.
IOCallback(a) ==
  LET d == IF SlotOf(a.b) = {} THEN Nobody ELSE x4dr[Min(SlotOf(a.b))] IN
  /\ UNCHANGED dr6
  /\ Carry(d, a, a.width)

\* 64 bit Windows has no such functions, and 32 bit instructions only.
MayAccess(a) ==
  /\ a.way = "user" => sys = "win98"
  /\ a.way = "call" => sys # "amd64"
  /\ a.odd => Odd66 /\ a.way = "instr" /\ a.width \in (IF sys = "amd64" THEN {4} ELSE {2, 4})

Access(a) ==
  /\ count < MaxAccess /\ MayAccess(a)
  /\ count' = count + 1
  /\ CASE a.way = "instr" -> Instruction(a)
       [] a.way = "user" -> IF handler[a.b][a.k] = "driver" THEN IOCallback(a)
                            ELSE Hardware(a) /\ UNCHANGED dr6
       [] a.way = "call" -> Call(a)
  /\ UNCHANGED <<sys, usage, x4dr, foreign, handler, hasTrap, locked>>

\* A debugger's own breakpoint: not one of the driver's bits, so it gets it, and
\* clears the register.
Breakpoint ==
  /\ foreign # {} /\ (dr6 \cup foreign) \cap UsageBits \cap Regs = {}
  /\ dr6' = {}
  /\ UNCHANGED <<sys, usage, x4dr, foreign, handler, hasTrap, locked, fail, lost, wrong, count>>

\* FreeTraps sets No_Function, SetTraps clears it if UC_Function says so.
Lock(d) ==
  /\ locked' = IF d \in locked THEN locked \ {d} ELSE locked \cup {d}
  /\ UNCHANGED <<sys, usage, x4dr, foreign, dr6, handler, hasTrap, fail, lost, wrong, count>>

Next ==
  \/ \E b \in Blocks :
       FreeDR(b) \/ \E d \in Devices, debreg \in BOOLEAN : AllocDR(b, d, debreg)
  \/ \E a \in Accesses : Access(a)
  \/ Breakpoint
  \/ \E d \in Devices : Lock(d)

Spec == Init /\ [][Next]_vars
-----------------------------------------------------------------------------
TypeOK ==
  /\ sys \in Systems /\ usage \in [Places -> Blocks \cup {0}]
  /\ x4dr \in [Places -> Devices \cup {Nobody}] /\ dr6 \subseteq Regs
  /\ handler \in [Blocks -> [Ports -> {"none", "driver", "other"}]]
  /\ hasTrap \in [Places -> SUBSET Ports]

\* An access to a trapped port reaches the device the port is configured for, as
\* wide as the program meant it; a read that fails says FFh in every byte; what the
\* driver cannot carry out is counted as failed ("fail"); and under Windows 98 a port has
\* the driver's handler exactly while its block is in the table, others' are left alone.
AccessAsMeant ==
  /\ wrong = {}
  /\ \A d \in Devices : fail[d] = lost[d]
  /\ sys = "win98" => \A b \in Blocks, k \in Ports :
       /\ handler[b][k] = "driver" => \E i \in SlotOf(b) : k \in hasTrap[i]
       /\ handler[b][k] = "none" => SlotOf(b) = {}
=============================================================================
