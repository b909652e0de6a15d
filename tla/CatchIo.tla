------------------------------ MODULE CatchIo ------------------------------
(***************************************************************************)
(* A program that CatchIo of inpout32.dll runs (inpout32.cpp): its port    *)
(* instructions and its reads of the BIOS data area raise exceptions,      *)
(* which a handler inside the program (mode "vectored") or a debugger      *)
(* outside (mode "debug") answers by calling the exported port functions.  *)
(* A run of the same program on a machine that has the ports is the        *)
(* reference.  Bytes are named by where they come from, so that an access  *)
(* that is repeated, left out or too wide is seen.                         *)
(***************************************************************************)
EXTENDS Integers, Sequences, FiniteSetsExt, SequencesExt

CONSTANTS
  Operations,   \* what programs do, a set of the operators below
  Length,       \* instructions of a program
  NotInjected,  \* the DLL or the debugger may not get into the program
  OwnDebugged   \* a debuggee may have exceptions of its own

\* An adapter with a standard number, and a true port, perhaps on a PCI card.
Usb == "usb"
Card == "card"
Ports == {Usb, Card}

In(port, w) == [op |-> "in", port |-> port, w |-> w]
Out(port, w) == [op |-> "out", port |-> port, w |-> w]
Again == [op |-> "again", port |-> "same", w |-> 1]      \* the same byte access once more
Buffer(port) == [op |-> "buffer", port |-> port, w |-> 1]
Bit(port) == [op |-> "bit", port |-> port, w |-> 1]
Bios(lpt, w) == [op |-> "bios", port |-> lpt, w |-> w]   \* base address of a port, from 40:08 on
Segment == [op |-> "segment", port |-> "none", w |-> 2]  \* mov es,40h
Version == [op |-> "version", port |-> "none", w |-> 4]
OwnFault == [op |-> "fault", port |-> "none", w |-> 4]   \* mov from a bad address, with a handler
OwnTrap == [op |-> "trap", port |-> "none", w |-> 4]     \* another exception, with a handler

CatchIoAssumption ==
  /\ Length \in Nat \ {0} /\ {NotInjected, OwnDebugged} \subseteq BOOLEAN
  /\ Operations \subseteq
       UNION {{In(p, w), Out(p, w), Buffer(p), Bit(p)} : p \in Ports, w \in {1, 2, 4}}
       \cup {Bios(lpt, w) : lpt \in {"LPT1", "LPT2"}, w \in {2, 4}}
       \cup {Again, Segment, Version, OwnFault, OwnTrap}

VARIABLES
  program,   \* what it does, from its first instruction on
  hookMode,  \* the option: [plain: no HookGetVersion, debug: run as debuggee]
  stage,     \* where CatchIoW is: create, inject, hook, resume, run; dead for the program
  injected,  \* the DLL is in the program
  hooked,    \* GetVersionEx of the program is the DLL's
  debugged,  \* the debugger's loop runs
  ip,        \* instructions done
  machine,   \* what the program sees and does: [eax, bus, handled]
  stuck      \* an instruction is repeated for ever

catchVars == <<program, hookMode, stage, injected, hooked, debugged, ip, machine, stuck>>

Zero == <<"zero", 0, 0>>
Start == [eax |-> [i \in 1 .. 4 |-> Zero], bus |-> <<>>, handled |-> 0]

\* A debugger needs nothing inside; without a vectored handler it is the only way.
Init ==
  /\ program \in [1 .. Length -> Operations]
  /\ \A i \in 1 .. Length :
       program[i].op = "again" => i > 1 /\ program[i - 1].op \in {"in", "out", "again"}
                                        /\ program[i - 1].w = 1
  /\ hookMode \in [plain : BOOLEAN, debug : BOOLEAN]
  /\ hookMode.debug /\ (\E i \in 1 .. Length : program[i].op = "trap") => OwnDebugged
  /\ injected = \E i \in 1 .. Length : program[i].op \in {"buffer", "bit"}   \* it has the DLL
  /\ stage = "create" /\ hooked = FALSE /\ debugged = FALSE
  /\ ip = 0 /\ machine = Start /\ stuck = FALSE
-----------------------------------------------------------------------------
(* The port functions, on a machine m. *)

Loaded(eax, w, bytes) == [i \in 1 .. 4 |-> IF i <= w THEN bytes[i] ELSE eax[i]]

Input(m, port, w) ==
  LET bytes == [i \in 1 .. w |-> <<port, Len(m.bus), i>>]
  IN  [m EXCEPT !.eax = Loaded(@, w, bytes), !.bus = Append(@, <<"in", port, bytes>>)]

Output(m, port, w) ==
  [m EXCEPT !.bus = Append(@, <<"out", port, SubSeq(m.eax, 1, w)>>)]

\* Only byte accesses are redirected to the queue of an adapter.
Reached(port, w) == IF w > 1 /\ port = Usb THEN "nobody" ELSE port

\* DlPortReadPortBufferUchar and its like: access by access, here of two bytes.
BufferInput(m, port) == Input(Input(m, port, 1), port, 1)

\* ClrPortBit, SetPortBit, NotPortBit and the shifts: Inp32, a changed bit, Out32.
Changed(byte) == <<"changed", byte[2], byte[3]>>
BitChange(m, port) ==
  LET r == Input(m, port, 1)
  IN  Output([r EXCEPT !.eax[1] = Changed(@)], port, 1)

\* SppDef[i], through the register that ModRM finds, a word or a double word.
GetLpt(m, lpt, w) == [m EXCEPT !.eax = Loaded(@, w, [b \in 1 .. w |-> <<lpt, 0, b>>])]

\* An exception of the program's own reaches its handler.
Handled(m) == [m EXCEPT !.handled = @ + 1]
-----------------------------------------------------------------------------
(* The reference: the instruction on a machine with these ports. *)

\* The instruction a run of repetitions begins with.
FirstOf(i) == program[Max({k \in 1 .. i : program[k].op # "again"})]

Native(m, i) ==
  LET f == FirstOf(i)
  IN  CASE f.op = "in"      -> Input(m, f.port, f.w)
        [] f.op = "out"     -> Output(m, f.port, f.w)
        [] f.op = "buffer"  -> BufferInput(m, f.port)
        [] f.op = "bit"     -> BitChange(m, f.port)
        [] f.op = "bios"    -> GetLpt(m, f.port, f.w)
        [] f.op = "segment" -> m
        [] f.op = "version" ->
             [m EXCEPT !.eax[1] = <<IF hookMode.plain THEN "NT" ELSE "9x", 0, 0>>]
        [] OTHER            -> Handled(m)

NativeRun(n) == FoldLeft(Native, Start, [i \in 1 .. n |-> i])
-----------------------------------------------------------------------------
(* CatchIoW *)

\* CreateProcessW, suspended.
Create ==
  /\ stage = "create"
  /\ stage' = IF hookMode.plain /\ hookMode.debug THEN "resume" ELSE "inject"
  /\ UNCHANGED <<program, hookMode, injected, hooked, debugged, ip, machine, stuck>>

\* LoadLibraryW as a thread of the program, whose DllMain adds the vectored handler;
\* nobody hears of it if there is no memory, no thread or no DLL.
Inject ==
  /\ stage = "inject"
  /\ \E hLib \in {TRUE, ~NotInjected} :
       /\ injected' = (injected \/ hLib)
       /\ stage' = IF hLib /\ ~hookMode.plain THEN "hook" ELSE "resume"
  /\ UNCHANGED <<program, hookMode, hooked, debugged, ip, machine, stuck>>

\* The imported GetVersionEx becomes MyGetVersionEx.
HookGetVersion ==
  /\ stage = "hook"
  /\ hooked' = TRUE
  /\ stage' = "resume"
  /\ UNCHANGED <<program, hookMode, injected, debugged, ip, machine, stuck>>

Resume ==
  /\ stage = "resume"
  /\ debugged' \in {hookMode.debug, hookMode.debug /\ ~NotInjected}
  /\ stage' = "run"
  /\ UNCHANGED <<program, hookMode, injected, hooked, ip, machine, stuck>>
-----------------------------------------------------------------------------
(* The program *)

Running == stage = "run" /\ ip < Length /\ ~stuck
x == program[ip + 1]
Caught == injected \/ debugged

\* Calls.
Call ==
  /\ Running /\ x.op \in {"buffer", "bit", "version"}
  /\ machine' = CASE x.op = "buffer" -> BufferInput(machine, x.port)
                  [] x.op = "bit"    -> BitChange(machine, x.port)
                  [] OTHER -> [machine EXCEPT !.eax[1] = <<IF hooked THEN "9x" ELSE "NT", 0, 0>>]
  /\ ip' = ip + 1
  /\ UNCHANGED <<program, hookMode, stage, injected, hooked, debugged, stuck>>

\* Repetitions of a byte access are skipped with it.
AfterRun(i) == Max({k \in i .. Length : \A l \in i + 1 .. k : program[l].op = "again"})

\* Fault: the prefix is not looked at.
InputDword(m) == Input(m, Reached(x.port, x.w), 2)

\* IN eax,dx: a word is read, and then a double word all the same.
InputEax(m) ==
  LET port == Reached(x.port, x.w)
  IN  IF x.w = 2 THEN Input(Input(m, port, 2), port, 4) ELSE Input(m, port, 4)

\* EXCEPTION_PRIV_INSTRUCTION
PortInstruction ==
  /\ x.op \in {"in", "out"}
  /\ machine' = CASE x.op = "in" /\ x.w > 1 -> InputEax(machine)
                  [] x.op = "in" /\ x.w = 1 -> Input(machine, x.port, 1)
                  [] OTHER -> Output(machine, Reached(x.port, x.w), x.w)
  /\ ip' = IF x.w = 1 THEN AfterRun(ip + 1) ELSE ip + 1
  /\ UNCHANGED stuck

\* EXCEPTION_ACCESS_VIOLATION of a mov is taken for an access to the BIOS data area,
\* whatever its address (that of OwnFault ends with 8).
Mov ==
  /\ x.op \in {"bios", "fault", "segment"}
  /\ machine' = CASE x.op = "bios" -> GetLpt(machine, x.port, x.w)
                  [] x.op = "fault" ->
                       IF Caught THEN GetLpt(machine, "LPT1", x.w) ELSE Handled(machine)
                  [] OTHER -> machine
  /\ ip' = ip + 1
  /\ UNCHANGED stuck

\* EXCEPTION_CONTINUE_SEARCH: the program's handler, but the debugger answers
\* DBG_CONTINUE and the instruction comes again.
Search ==
  /\ x.op = "trap"
  /\ IF debugged THEN stuck' = TRUE /\ UNCHANGED <<machine, ip>>
     ELSE /\ machine' = Handled(machine)
          /\ ip' = ip + 1
          /\ UNCHANGED stuck

\* A program into which nobody got dies of the exception.
ExceptionHandler ==
  /\ Running
  /\ PortInstruction \/ Mov \/ Search
  /\ stage' = IF Caught \/ x.op \in {"fault", "trap"} THEN stage ELSE "dead"
  /\ UNCHANGED <<program, hookMode, injected, hooked, debugged>>

Next == Create \/ Inject \/ HookGetVersion \/ Resume \/ Call \/ ExceptionHandler

Spec == Init /\ [][Next]_catchVars
-----------------------------------------------------------------------------
\* A program that CatchIo runs sees and does what it would on a machine with the
\* ports: each access once, as wide as it is and at the port it is for, the registers
\* that the instruction has and no more, and its own exceptions at its own handlers.
RunsAsNative == stage # "dead" /\ ~stuck /\ machine = NativeRun(ip)
=============================================================================
