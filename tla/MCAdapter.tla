----------------------------- MODULE MCAdapter -----------------------------
(* What the driver does for an adapter, in parts that share no state, one per  *)
(* behaviour: the requests of the kernel, the table of trapped addresses, an   *)
(* adapter's start at the USB, the names of the ports, and the sheet on which  *)
(* a user sets its properties.                                                 *)
EXTENDS Requests

CONSTANTS A, B,
          Devices, NoDevice, Offsets, Configs, TableLen, NumDR, Foreign, PtrSize, Torn, Serial,
          Firmwares, MaxStarts, Drops, PoolFails, Eager,
          Adapters, Limit, LinkOnly, Moved, NamesFail,
          Bases, Timeouts, Systems, Mishaps, MaxActs, MaxCount

VARIABLES part,
          usage, x4dr, bits, hooked, dr, uc, trapped, debregs, started, todo, slot,
          firmware, vista, dead, state, step, size, bus, iface, pool, pending, used, stray, starts,
          nt, devices, links, others, naming, instance, reg, lowest, arrivals,
          plug, drv, dev, sys, wizard, sheet, pages, setup, active, edit, ac, fields, extras, feature,
          ecr, rom, fw, zeroed, had, acts

T == INSTANCE TrapTable
C == INSTANCE Configure
N == INSTANCE PortNames WITH step <- naming, starts <- arrivals, NoMemory <- NamesFail
S == INSTANCE PropSheet WITH uc <- edit
ASSUME PartsAssumption ==
  T!TrapTableAssumption /\ C!ConfigureAssumption /\ N!PortNamesAssumption

kernel == <<driver, stage, gone, locks, irp, counts, done, told, powerFree>>
table  == <<usage, x4dr, bits, hooked, dr, uc, trapped, debregs, started, todo, slot>>
usb    == <<firmware, vista, dead, state, step, size, bus, iface, pool, pending, used, stray, starts>>
names  == <<nt, devices, links, others, naming, instance, reg, lowest, arrivals>>
props  == <<plug, drv, dev, sys, wizard, sheet, pages, setup, active, edit, ac, fields, extras,
            feature, ecr, rom, fw, zeroed, had, acts>>

Cfg(base, blocks, debreg, force) ==
  [base |-> base, blocks |-> blocks, debreg |-> debreg, force |-> force]
\* Two of the four blocks a device has.
TwoBlocks == <<"spp", "epp">>

\* Two devices, each with an address of its own and one that both may be given.
TwoDevices == (A :> {Cfg(888, {"epp"}, TRUE, TRUE), Cfg(956, {"epp"}, FALSE, TRUE)})
           @@ (B :> {Cfg(632, {"epp"}, TRUE, TRUE), Cfg(888, {}, TRUE, FALSE)})

\* One alternate setting, and two in either order.
Adapter2005 == <<"bulk">>
LowSpeed == <<"bulk", "interrupt">>
LowSpeed2012 == <<"interrupt", "bulk">>
AllFirmwares == {Adapter2005, LowSpeed, LowSpeed2012}

\* A part that is not looked at stays as it begins.
MCInit ==
  /\ Init /\ T!Init /\ C!Init /\ N!Init /\ S!Init
  /\ part \in {"kernel", "table", "usb", "names", "props"}
  /\ part # "table" => uc[A].base = 888 /\ uc[B].base = 632
  /\ part # "usb" => firmware = Adapter2005 /\ vista
  /\ part # "names" => nt /\ (\A n \in DOMAIN others : others[n] = "none")
  /\ part # "props" => sys = "create" /\ ~wizard /\ feature = {1} /\ rom.first = "valid"

MCNext ==
  \/ part = "kernel" /\ Next   /\ UNCHANGED <<part, table, usb, names, props>>
  \/ part = "table"  /\ T!Next /\ UNCHANGED <<part, kernel, usb, names, props>>
  \/ part = "usb"    /\ C!Next /\ UNCHANGED <<part, kernel, table, names, props>>
  \/ part = "names"  /\ N!Next /\ UNCHANGED <<part, kernel, table, usb, props>>
  \/ part = "props"  /\ S!Next /\ UNCHANGED <<part, kernel, table, usb, names>>

MCSpec == MCInit /\ [][MCNext]_<<part, kernel, table, usb, names, props>>

\* TrapTable!TrapsBelong, Configure!StartHolds, PortNames!NamesKept, and PropSheet's
\* SheetKeeps and ShownNeverRunsBack.
TrapsBelong == T!TrapsBelong
StartHolds == C!StartHolds
NamesKept == N!NamesKept
SheetKeeps == S!SheetKeeps
ShownNeverRunsBack == S!ShownNeverRunsBack
=============================================================================
