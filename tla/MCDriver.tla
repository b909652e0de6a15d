------------------------------ MODULE MCDriver ------------------------------
(* Parts of the driver that share no state, one per behaviour: the jobs of      *)
(* OutIn, the patching of the kernel's functions, the way of an access to the   *)
(* driver, and the debug registers of several processors.                       *)
EXTENDS OutIn

CONSTANTS Cpus, PoolFails, BusyCode,
          Systems, Devices, Nobody, Blocks, Ports, NumDR, TableLen, MaxAccess, Coincide, Odd66, Push, Wide,
          Processors, Slots, Addrs, Serial, NoPool, BusyPorts, Thieves

VARIABLES part, code, save, loaded, call, dpc, prog, bad,
          sys, usage, x4dr, foreign, dr6, handler, hasTrap, locked, fail, lost, wrong, count,
          Usage, X4DR, UsageBits, op, dpcs, dr, hooked, int1, got

C == INSTANCE CodePatch
P == INSTANCE PortAccess
D == INSTANCE DebugTrap WITH Cpus <- Processors, PoolFails <- NoPool
ASSUME DriverAssumption == P!PortAccessAssumption /\ D!DebugTrapAssumption

patch  == <<code, save, loaded, call, dpc, prog, bad>>
access == <<sys, usage, x4dr, foreign, dr6, handler, hasTrap, locked, fail, lost, wrong, count>>
traps  == <<Usage, X4DR, UsageBits, op, dpcs, dr, hooked, int1, got>>

\* A part that is not looked at stays as it begins; nothing that must happen is
\* possible there.
MCInit ==
  /\ Init /\ C!Init /\ P!Init /\ D!Init
  /\ part \in {"jobs", "patch", "access", "traps"}
  /\ part # "access" => sys = "nt" /\ foreign = {}

MCNext ==
  \/ part = "jobs" /\ Next /\ UNCHANGED <<part, patch, access, traps>>
  \/ part = "patch" /\ C!Next /\ UNCHANGED <<part, vars, access, traps>>
  \/ part = "access" /\ P!Next /\ UNCHANGED <<part, vars, patch, traps>>
  \/ part = "traps" /\ D!Next /\ UNCHANGED <<part, vars, patch, access>>

MCSpec ==
  /\ MCInit /\ [][MCNext]_<<part, vars, patch, access, traps>>
  /\ Fairness /\ C!Fairness /\ D!Fairness

\* CodePatch!PatchedWhole, PortAccess!AccessAsMeant, DebugTrap!TrapsSound and
\* DebugTrap!TrapsComeBack.
PatchedWhole == C!PatchedWhole
AccessAsMeant == P!AccessAsMeant
TrapsSound == D!TrapsSound
TrapsComeBack == D!TrapsComeBack

\* Whoever waits in the driver comes back: each job is answered (OutIn!Answered), and
\* each processor that a call of the patching holds is let go (CodePatch!Released).
EverybodyReturns == Answered /\ C!Released
=============================================================================
