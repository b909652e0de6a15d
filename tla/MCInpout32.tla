----------------------------- MODULE MCInpout32 -----------------------------
(* Parts of inpout32.dll and giveio64 that share no state, one per behaviour: the *)
(* port driver and the redirection, programs run by CatchIo, the search for the  *)
(* ports, mapped memory, and the driver giveio.                                  *)
EXTENDS Inpout32

CONSTANTS Operations, Length, NotInjected, OwnDebugged,
          N, DeviceLists, Overlap, Gaps, HelperFails,
          Systems, Alone, HighLin, MaxCalls,
          Cpus, Taken, NoMemory, Preempt

VARIABLES part,
          program, hookMode, stage, injected, hooked, debugged, ip, machine, stuck,
          system, devs, at, addrs, ret, own, hWin64,
          sys, true, memory, mapping, kept, call, done, result, wanted, calls,
          debugger, driver, device, links, long, gdt, job, dpcs, opened, opens

C == INSTANCE CatchIo
L == INSTANCE LptGetAddr WITH Clients <- Admins, a <- addrs
M == INSTANCE PhysMem WITH Programs <- Admins
G == INSTANCE GiveIo WITH Programs <- Admins, calls <- opens
ASSUME InpoutAssumption ==
  C!CatchIoAssumption /\ L!LptGetAddrAssumption /\ M!PhysMemAssumption /\ G!GiveIoAssumption

catch  == <<program, hookMode, stage, injected, hooked, debugged, ip, machine, stuck>>
search == <<system, devs, at, addrs, ret, own, hWin64>>
phys   == <<sys, true, memory, mapping, kept, call, done, result, wanted, calls>>
give   == <<debugger, driver, device, links, long, gdt, job, dpcs, opened, opens>>

\* True ports at their standard addresses or on a PCI card.
Standard(i) == [spp |-> SppDef(i), ecp |-> IF i = 2 THEN 0 ELSE SppDef(i) + EcpOffset]
Pci == [spp |-> 53248, ecp |-> 53256]
Ports(a, b, c) == [i \in Slots |-> CASE i = 0 -> a [] i = 1 -> b [] OTHER -> c]
MCTruePorts == {Ports(NoPort, NoPort, NoPort), Ports(Standard(0), NoPort, NoPort),
                Ports(Pci, Standard(1), NoPort), Ports(Standard(0), NoPort, Pci),
                Ports(NoPort, Pci, Standard(2))}
\* A port that has the standard address of another number.
OddTruePorts == {[i \in Slots |-> IF i = 1 THEN Standard(0) ELSE NoPort]}

\* What CatchIo emulates as the processor would.  (See CatchIo's operators In to OwnTrap.)
Operation(op, port, w) == [op |-> op, port |-> port, w |-> w]
MCOperations ==
  {Operation(op, port, 1) : op \in {"in", "out", "buffer"}, port \in {"usb", "card"}}
  \cup {Operation("bit", "usb", 1), Operation("in", "card", 4), Operation("out", "card", 2),
        Operation("out", "card", 4), Operation("bios", "LPT1", 2), Operation("bios", "LPT2", 4),
        Operation("segment", "none", 2), Operation("version", "none", 4),
        Operation("trap", "none", 4)}
RepeatedOperations == MCOperations \cup {Operation("again", "same", 1)}
WordOperations == MCOperations \cup {Operation("in", "card", 2)}
WideOperations == MCOperations \cup {Operation("out", "usb", 2)}
FaultOperations == MCOperations \cup {Operation("fault", "none", 4)}

\* A serial port, LPT1 to LPT6, LPT2 twice, and one that does not work.
Device(i, spp, ecp, works) == [index |-> i, spp |-> spp, ecp |-> ecp, works |-> works]
MCDevices == {Device(-1, 1016, 0, TRUE), Device(0, 888, 1912, TRUE), Device(0, 888, 0, FALSE),
              Device(1, 632, 0, TRUE), Device(1, 53248, 53256, TRUE), Device(3, 53504, 0, TRUE),
              Device(4, 53760, 53768, TRUE), Device(5, 54016, 0, TRUE)}
MCDeviceLists == UNION {[1 .. n -> MCDevices] : n \in 0 .. 3}

\* A part that is not looked at stays as it begins.
MCInit ==
  /\ part \in {"dll", "catch", "search", "memory", "giveio"}
  /\ IF part = "catch" THEN TRUE
     ELSE program = [i \in 1 .. Length |-> C!Segment] /\ hookMode = [plain |-> FALSE, debug |-> FALSE]
  /\ IF part = "search" THEN TRUE ELSE system = "pnp" /\ devs = <<>>
  /\ IF part = "memory" THEN TRUE ELSE sys = "9x" /\ true = {} /\ memory = [w \in M!Words |-> 0]
  /\ IF part = "giveio" THEN TRUE ELSE debugger = FALSE
  /\ IF part = "dll" THEN TRUE ELSE RedirInfo = [i \in Slots |-> Free] /\ service = "absent"
  /\ C!Init /\ L!Init /\ M!Init /\ G!Init /\ Init

MCNext ==
  \/ part = "dll"    /\ Next   /\ UNCHANGED <<part, catch, search, phys, give>>
  \/ part = "catch"  /\ C!Next /\ UNCHANGED <<part, vars, search, phys, give>>
  \/ part = "search" /\ L!Next /\ UNCHANGED <<part, vars, catch, phys, give>>
  \/ part = "memory" /\ M!Next /\ UNCHANGED <<part, vars, catch, search, give>>
  \/ part = "giveio" /\ G!Next /\ UNCHANGED <<part, vars, catch, search, phys>>

MCSpec == MCInit /\ [][MCNext]_<<part, vars, catch, search, phys, give>>

\* CatchIo!RunsAsNative, LptGetAddr!AddressesTrue, PhysMem!MappingsKept and
\* GiveIo!AccessAsOpened.
RunsAsNative == C!RunsAsNative
AddressesTrue == L!AddressesTrue
MappingsKept == M!MappingsKept
AccessAsOpened == G!AccessAsOpened
=============================================================================
