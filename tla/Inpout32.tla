------------------------------ MODULE Inpout32 ------------------------------
(***************************************************************************)
(* inpout32.dll in several processes: each process that loads it opens the *)
(* port driver, which the first one installs and starts, collects the      *)
(* parallel ports into RedirInfo, and from then on every port access of    *)
(* the process is patched to the address of a true port or redirected to a *)
(* queue (LptQueue); the process that started the driver stops it when it  *)
(* unloads the DLL.  Windows' service manager is modelled by its answers:  *)
(* a driver that is told to stop while handles are open stops when the     *)
(* last one is closed and cannot be opened or started until then.          *)
(***************************************************************************)
EXTENDS Integers, Sequences, FiniteSets, FiniteSetsExt

CONSTANTS
  Processes,  \* processes that load the DLL
  Admins,     \* those that may install a service
  TruePorts,  \* possible answers of LptGetAddr: [Slots -> addresses of that port or NoPort]
  MaxHids,    \* HID adapters that may be plugged in
  MaxPrns,    \* printer adapters
  MaxLoads    \* bound on the loads of the DLL in a behaviour

ASSUME Inpout32Assumption == Admins \subseteq Processes /\ MaxHids \in Nat /\ MaxPrns \in Nat

VARIABLES
  RedirInfo,   \* the table of parallel ports, the same for every process
  service,     \* the port driver: absent, stopped, running, stopping
  foreign,     \* it ran before, not for this DLL
  pc,          \* pc[p]: where DllMain is
  hdriver,     \* hdriver[p]: p has a handle of the driver
  started,     \* started[p]: p has started the driver
  access,      \* the last access: where it was meant to go and where it went,
               \* <<>> once a process does something else
  loads        \* bounds the behaviours

vars == <<RedirInfo, service, foreign, pc, hdriver, started, access, loads>>

Slots == 0 .. 2
SppDef(i) == CASE i = 0 -> 888 [] i = 1 -> 632 [] OTHER -> 956   \* 378h, 278h, 3BCh
NoPort == [spp |-> 0, ecp |-> 0]
Free == [where |-> 0, port |-> NoPort]
EcpOffset == 1024
Word(n) == n % 65536

\* InitRedirector: true ports and USB2LPT drivers keep their numbers, other adapters fill
\* the gaps in the order they are found.
Inserted(info, where, n) ==
  LET gaps == {i \in Slots : info[i].where = 0}
  IN  [i \in Slots |-> IF i \in gaps /\ Cardinality({j \in gaps : j < i}) < n
                       THEN [where |-> where, port |-> NoPort] ELSE info[i]]

Collected(ports, drivers, hids, prns) ==
  LET fixed == [i \in Slots |->
                  IF ports[i] # NoPort THEN [where |-> 1, port |-> ports[i]]
                  ELSE IF i \in drivers THEN [where |-> 2, port |-> NoPort] ELSE Free]
  IN  Inserted(Inserted(fixed, 3, hids), 4, prns)

Init ==
  /\ \E ports \in TruePorts, drivers \in SUBSET Slots, h \in 0 .. MaxHids, n \in 0 .. MaxPrns :
       RedirInfo = Collected(ports, drivers, h, n)
  /\ service \in {"absent", "stopped", "running"}
  /\ foreign = (service = "running")
  /\ pc = [p \in Processes |-> "unloaded"]
  /\ hdriver = [p \in Processes |-> FALSE]
  /\ started = [p \in Processes |-> FALSE]
  /\ access = <<>>
  /\ loads = 0

-----------------------------------------------------------------------------
(* Loading and unloading the DLL. *)

\* Opendriver begins with an attempt to open the driver.
Load(p) ==
  /\ pc[p] = "unloaded" /\ loads < MaxLoads
  /\ loads' = loads + 1
  /\ hdriver' = [hdriver EXCEPT ![p] = service = "running"]
  /\ pc' = [pc EXCEPT ![p] = IF service = "running" THEN "loaded" ELSE "start"]
  /\ access' = <<>>
  /\ UNCHANGED <<RedirInfo, service, foreign, started>>

\* start() once before inst() and once after it: started only if this call started it.
StartHere == service = "stopped"

StartService(p) ==
  /\ pc[p] \in {"start", "start again"}
  /\ service' = IF service = "stopped" THEN "running" ELSE service
  /\ started' = [started EXCEPT ![p] = @ \/ StartHere]
  /\ pc' = [pc EXCEPT ![p] =
              IF pc[p] = "start" /\ service \notin {"stopped", "running"} THEN "inst" ELSE "open"]
  /\ access' = <<>>
  /\ UNCHANGED <<RedirInfo, foreign, hdriver, loads>>

\* inst(): fails without rights and where the service exists.
Inst(p) ==
  /\ pc[p] = "inst"
  /\ service' = IF service = "absent" /\ p \in Admins THEN "stopped" ELSE service
  /\ pc' = [pc EXCEPT ![p] = "start again"]
  /\ access' = <<>>
  /\ UNCHANGED <<RedirInfo, foreign, hdriver, started, loads>>

\* The second openhdriver(); InitRedirector follows.
Open(p) ==
  /\ pc[p] = "open"
  /\ hdriver' = [hdriver EXCEPT ![p] = service = "running"]
  /\ pc' = [pc EXCEPT ![p] = "loaded"]
  /\ access' = <<>>
  /\ UNCHANGED <<RedirInfo, service, foreign, started, loads>>

\* Fault: a driver that others use is not told to stop.
UnloadSpares(p) ==
  /\ pc[p] = "loaded"
  /\ hdriver' = [hdriver EXCEPT ![p] = FALSE]
  /\ pc' = [pc EXCEPT ![p] = "unloaded"]
  /\ service' = IF started[p] /\ service = "running" /\ \A q \in Processes \ {p} : ~hdriver[q]
                THEN "stopped" ELSE service
  /\ access' = <<>>
  /\ UNCHANGED <<RedirInfo, foreign, started, loads>>

\* DLL_PROCESS_DETACH: CloseHandle ...
Unload(p) ==
  /\ pc[p] = "loaded"
  /\ hdriver' = [hdriver EXCEPT ![p] = FALSE]
  /\ service' = IF service = "stopping" /\ \A q \in Processes \ {p} : ~hdriver[q]
                THEN "stopped" ELSE service
  /\ pc' = [pc EXCEPT ![p] = IF started[p] THEN "stop" ELSE "unloaded"]
  /\ access' = <<>>
  /\ UNCHANGED <<RedirInfo, foreign, started, loads>>

\* ... and start(false), of a driver this process has started.
StopService(p) ==
  /\ pc[p] = "stop"
  /\ service' = IF service # "running" THEN service
                ELSE IF \E q \in Processes : hdriver[q] THEN "stopping" ELSE "stopped"
  /\ pc' = [pc EXCEPT ![p] = "unloaded"]
  /\ started' = [started EXCEPT ![p] = FALSE]
  /\ access' = <<>>
  /\ UNCHANGED <<RedirInfo, foreign, hdriver, loads>>

-----------------------------------------------------------------------------
(* Port accesses. *)

\* patch(): the addresses of a standard port are those of the true port with its number.
Patched(a) ==
  LET spp == {i \in Slots : RedirInfo[i].where = 1 /\ Word(a - SppDef(i)) < IF i < 2 THEN 8 ELSE 4}
      ecp == {i \in {0, 1} : /\ RedirInfo[i].where = 1 /\ RedirInfo[i].port.ecp # 0
                             /\ Word(a - SppDef(i) - EcpOffset) < 4}
  IN  CASE spp # {} -> LET i == Min(spp) IN Word(a + RedirInfo[i].port.spp - SppDef(i))
        [] spp = {} /\ ecp # {} ->
             LET i == Min(ecp) IN Word(a + RedirInfo[i].port.ecp - SppDef(i) - EcpOffset)
        [] OTHER -> a

\* RedirCandidate(): a queue and its register (8 and up for ECP), and the others.
Within(diff) == diff < 8 \/ diff \in EcpOffset .. EcpOffset + 7

\* Fault: the bit for the ECP registers is lost.
RegisterLow(diff) == diff % 8

RegisterOf(diff) == IF diff < 8 THEN diff ELSE diff - EcpOffset + 8

Candidates(a) == {i \in Slots : RedirInfo[i].where >= 2 /\ Within(Word(a - SppDef(i)))}

\* Where Out32 or Inp32 of address a ends.
Ends(p, a) ==
  LET b == Patched(a)
      hw == IF hdriver[p] THEN <<"hardware", b>> ELSE <<"nowhere", b>>
  IN  IF Candidates(b) = {} THEN hw
      ELSE LET i == Min(Candidates(b)) IN <<"queue", i, RegisterOf(Word(b - SppDef(i)))>>

Access(p, a, meant) ==
  /\ pc[p] = "loaded"
  /\ access' = <<meant, Ends(p, a)>>
  /\ UNCHANGED <<RedirInfo, service, foreign, pc, hdriver, started, loads>>

\* What a program means by an address: a register of the port with that standard address.
Hardware(p, b) == IF hdriver[p] THEN <<"hardware", b>> ELSE <<"nowhere", b>>

Meaning(p, i, r) ==
  LET info == RedirInfo[i]
  IN  CASE info.where = 0 -> Hardware(p, SppDef(i) + (r % 8) + (EcpOffset * (r \div 8)))
        [] info.where = 1 /\ r < 8 -> Hardware(p, info.port.spp + r)
        [] info.where = 1 /\ r >= 8 ->
             Hardware(p, (IF info.port.ecp = 0 THEN SppDef(i) + EcpOffset ELSE info.port.ecp) + r - 8)
        [] OTHER -> <<"queue", i, r>>

\* Out32 and Inp32, also from the handler of a privileged instruction (CatchIo).
Inp32(p) ==
  \E i \in Slots, r \in {0, 4, 10} :
    /\ i = 2 => r < 4
    /\ Access(p, SppDef(i) + (r % 8) + (EcpOffset * (r \div 8)), Meaning(p, i, r))

\* setup_portranges: the addresses of a DOS program that VddInit hooks: 100h to 10Ah, whose
\* beginnings it writes to the BIOS data area, and those of the ports there are (and the one in
\* front of each); the others are left to the DOS box.
Hooked(b) ==
  \/ b \in 256 .. 266
  \/ \E i \in Slots : RedirInfo[i].where # 0 /\
       \/ b \in SppDef(i) - 1 .. SppDef(i) + (IF i < 2 THEN 7 ELSE 3)
       \/ i < 2 /\ b \in SppDef(i) + EcpOffset .. SppDef(i) + EcpOffset + 7

\* VddInbHandler and VddOutbHandler, which call Inp32 and Out32.
VddAlias(b) == IF b \in 256 .. 271 THEN (b % 4) + SppDef((b \div 4) % 4) ELSE b

DosAccess(p, b, meant) ==
  IF Hooked(b) THEN Access(p, VddAlias(b), meant)
  ELSE /\ pc[p] = "loaded" /\ access' = <<meant, <<"ntvdm">>>>
       /\ UNCHANGED <<RedirInfo, service, foreign, pc, hdriver, started, loads>>

\* A DOS program uses what it finds in the BIOS data area or the standard address.
VddHandler(p) ==
  \/ \E b \in {256, 258, 260, 264, 266} : DosAccess(p, b, Meaning(p, (b - 256) \div 4, b % 4))
  \/ \E i \in Slots, r \in {0, 10} :
       /\ i = 2 => r < 4
       /\ DosAccess(p, SppDef(i) + (r % 8) + (EcpOffset * (r \div 8)),
                    IF RedirInfo[i].where = 0 THEN <<"ntvdm">> ELSE Meaning(p, i, r))

\* PPQUEUE: LptOpen of a true port accesses its addresses by Out32 and Inp32.
LptPort(p) ==
  \E i \in Slots, r \in {0, 10} :
    /\ RedirInfo[i].where = 1 /\ (r >= 8 => RedirInfo[i].port.ecp # 0)
    /\ Access(p, (IF r >= 8 THEN RedirInfo[i].port.ecp ELSE RedirInfo[i].port.spp) + (r % 8), Meaning(p, i, r))

Next ==
  \E p \in Processes :
    \/ Load(p)
    \/ StartService(p)
    \/ Inst(p)
    \/ Open(p)
    \/ Unload(p)
    \/ StopService(p)
    \/ Inp32(p)
    \/ VddHandler(p)
    \/ LptPort(p)

Spec == Init /\ [][Next]_vars

-----------------------------------------------------------------------------
(* Properties *)

(* Every access reaches the register of the port it is meant for, through the numbering of  *)
(* the ports, the patch of addresses, the redirection, the DOS addresses and the            *)
(* queue of a true port, which uses Out32 again (Redir.cpp:355, 418, 618, Queue.cpp:185).   *)
GoesToItsPort == access # <<>> => access[1] = access[2]

(* The driver is not left running for a DLL nobody has loaded any more, in whatever order   *)
(* processes load and unload it; one that ran before the DLL came is not stopped by it      *)
(* (inpout32.cpp:393, 401, 704).                                                            *)
DriverAsFound ==
  /\ (\A p \in Processes : pc[p] = "unloaded") /\ service = "running" => foreign
  /\ foreign => service = "running"

(* Accesses get where they are meant to, and the driver they need is there as it was found. *)
PortsServed == GoesToItsPort /\ DriverAsFound
=============================================================================
