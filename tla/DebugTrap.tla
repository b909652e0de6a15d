------------------------------ MODULE DebugTrap ------------------------------
(***************************************************************************)
(* The debug registers as the driver shares them among processors (Vlpt.c).*)
(* Each processor has its own registers and its own interrupt table;       *)
(* AllocDR and FreeDR change the driver's table and then have every        *)
(* processor run a routine: directly on their own, by a DPC on the others, *)
(* waiting at DISPATCH_LEVEL until all have done so.  An access to a port  *)
(* whose address is in a register of its processor raises INT 1, whose     *)
(* handler looks the device up.  The registers may be taken away by others *)
(* (debuggers, the system); system calls and a timer load them again.      *)
(* Which slot an address gets when the table is full is TrapTable's part.  *)
(***************************************************************************)
EXTENDS Integers, FiniteSets, FiniteSetsExt

CONSTANTS
  Cpus,       \* processors
  Slots,      \* the debug registers the driver may use
  Addrs,      \* port addresses of devices that want a trap; the address names the device
  Serial,     \* TRUE: Windows starts and stops devices one at a time
  PoolFails,  \* TRUE: the DPC objects may not be allocated
  BusyPorts,  \* TRUE: programs access a port while its trap is being set or freed
  Thieves     \* TRUE: others change the debug registers

DebugTrapAssumption == Slots \subseteq 0 .. 3 /\ 0 \notin Addrs

VARIABLES
  Usage,      \* Usage[s]: the address in slot s, 0 for none
  X4DR,       \* X4DR[s]: its device, None for none
  UsageBits,  \* the slots that count as used
  op,         \* op[c]: what the thread on processor c is doing
  dpcs,       \* dpcs[c]: routines queued for processor c, with the processor that waits
  dr,         \* dr[c][s]: debug register s of processor c, 0 while it is not enabled
  hooked,     \* hooked[c]: INT 1 and the system call entries of c are the driver's
  int1,       \* int1[c]: the address and slot the INT 1 handler on c is about to look up
  got         \* got[c]: what became of the last access on c

vars == <<Usage, X4DR, UsageBits, op, dpcs, dr, hooked, int1, got>>

None == 0
NoTrap == [addr |-> 0, slot |-> -1]
Idle == [do |-> "idle", addr |-> 0, slot |-> 0, todo |-> {}]
Raised(c) == op[c].do \notin {"idle", "alloc", "free"}   \* c is at DISPATCH_LEVEL

Init ==
  /\ Usage = [s \in Slots |-> 0] /\ X4DR = [s \in Slots |-> None] /\ UsageBits = {}
  /\ op = [c \in Cpus |-> Idle] /\ dpcs = [c \in Cpus |-> {}]
  /\ dr = [c \in Cpus |-> [s \in Slots |-> 0]]
  /\ hooked = [c \in Cpus |-> FALSE]
  /\ int1 = [c \in Cpus |-> NoTrap]
  /\ got = [c \in Cpus |-> "none"]

-----------------------------------------------------------------------------
(* What a processor runs for EachProcessor. *)

\* cyLoadDR: every address of the table is loaded, no register is cleared.
\* Fault (first): only a register that is still enabled is corrected.
LoadedAgain(c) == [s \in Slots |-> IF dr[c][s] # 0 THEN Usage[s] ELSE 0]

Loaded(c) == [s \in Slots |-> IF Usage[s] # 0 THEN Usage[s] ELSE dr[c][s]]

Routine(c, job) ==
  /\ dr' = [dr EXCEPT ![c] = CASE job.do = "LoadDR" -> Loaded(c)
                               [] job.do = "UnloadDR" -> [@ EXCEPT ![job.slot] = 0]
                               [] OTHER -> @]
  /\ hooked' = [hooked EXCEPT ![c] = CASE job.do = "HookInts" -> TRUE
                                       [] job.do = "UnhookInts" -> FALSE
                                       [] OTHER -> @]

\* Fault: only the processor that allocates is served.
EachProcessorHere(c, job, next) ==
  /\ Routine(c, job)
  /\ op' = [op EXCEPT ![c] = [@ EXCEPT !.do = next, !.todo = {}]]
  /\ UNCHANGED dpcs

\* EachProcessor: c runs the routine itself and waits for the others; without memory for
\* the DPCs nobody runs it.
EachProcessor(c, job, next) ==
  \E pool \in IF PoolFails /\ Cpus # {c} THEN BOOLEAN ELSE {TRUE} :
    IF pool
    THEN /\ Routine(c, job)
         /\ dpcs' = [d \in Cpus |-> IF d = c THEN dpcs[d]
                                    ELSE dpcs[d] \union {[do |-> job.do, slot |-> job.slot, for |-> c]}]
         /\ op' = [op EXCEPT ![c] = [@ EXCEPT !.do = next, !.todo = Cpus \ {c}]]
    ELSE /\ op' = [op EXCEPT ![c] = [@ EXCEPT !.do = next, !.todo = {}]]
         /\ UNCHANGED <<dr, hooked, dpcs>>

\* Fault: the processor does not report that it has run the routine.
DpcSilent(c) ==
  /\ ~Raised(c) /\ int1[c] = NoTrap
  /\ \E job \in dpcs[c] :
       /\ Routine(c, job)
       /\ dpcs' = [dpcs EXCEPT ![c] = @ \ {job}]
  /\ UNCHANGED <<Usage, X4DR, UsageBits, op, int1, got>>

\* EachProcessorDpc, on a processor below DISPATCH_LEVEL and outside the handler's start.
Dpc(c) ==
  /\ ~Raised(c) /\ int1[c] = NoTrap
  /\ \E job \in dpcs[c] :
       /\ Routine(c, job)
       /\ dpcs' = [dpcs EXCEPT ![c] = @ \ {job}]
       /\ op' = [op EXCEPT ![job.for].todo = @ \ {c}]
  /\ UNCHANGED <<Usage, X4DR, UsageBits, int1, got>>

-----------------------------------------------------------------------------
(* AllocDR and FreeDR. *)

InUse(a) == {s \in Slots : Usage[s] = a}
FreeSlots == InUse(0)
BeingChanged(a) == \E c \in Cpus : op[c].addr = a
Accessed(a) == \E c \in Cpus : int1[c].addr = a
MayBegin(c) == op[c] = Idle /\ int1[c] = NoTrap /\ (Serial => \A d \in Cpus : op[d] = Idle)

\* The checks and the search are made at any level.
AllocDR(c) ==
  /\ MayBegin(c)
  /\ \E a \in Addrs :
       /\ InUse(a) = {} /\ FreeSlots # {}
       /\ op' = [op EXCEPT ![c] = [do |-> "alloc", addr |-> a, slot |-> Min(FreeSlots), todo |-> {}]]
  /\ UNCHANGED <<Usage, X4DR, UsageBits, dpcs, dr, hooked, int1, got>>

AllocStore(c) ==
  /\ op[c].do = "alloc"
  /\ X4DR' = [X4DR EXCEPT ![op[c].slot] = op[c].addr]
  /\ Usage' = [Usage EXCEPT ![op[c].slot] = op[c].addr]
  /\ IF UsageBits = {}
     THEN EachProcessor(c, [do |-> "HookInts", slot |-> 0], "load")
     ELSE op' = [op EXCEPT ![c].do = "load"] /\ UNCHANGED <<dpcs, dr, hooked>>
  /\ UNCHANGED <<UsageBits, int1, got>>

AllocLoad(c) ==
  /\ op[c].do = "load" /\ op[c].todo = {}
  /\ UsageBits' = UsageBits \union {op[c].slot}
  /\ EachProcessor(c, [do |-> "LoadDR", slot |-> op[c].slot], "done")
  /\ UNCHANGED <<Usage, X4DR, int1, got>>

FreeDR(c) ==
  /\ MayBegin(c)
  /\ \E a \in Addrs :
       /\ InUse(a) # {}
       /\ ~BusyPorts => ~Accessed(a)
       /\ op' = [op EXCEPT ![c] = [do |-> "free", addr |-> a, slot |-> Min(InUse(a)), todo |-> {}]]
  /\ UNCHANGED <<Usage, X4DR, UsageBits, dpcs, dr, hooked, int1, got>>

\* Usage[dr]=0, X4DR[dr]=NULL ...
FreeClear(c) ==
  /\ op[c].do = "free"
  /\ Usage' = [Usage EXCEPT ![op[c].slot] = 0]
  /\ X4DR' = [X4DR EXCEPT ![op[c].slot] = None]
  /\ op' = [op EXCEPT ![c].do = "unload"]
  /\ UNCHANGED <<UsageBits, dpcs, dr, hooked, int1, got>>

\* ... the bit, and the registers of all processors.
FreeUnload(c) ==
  /\ op[c].do = "unload"
  /\ UsageBits' = UsageBits \ {op[c].slot}
  /\ EachProcessor(c, [do |-> "UnloadDR", slot |-> op[c].slot], "unhook")
  /\ UNCHANGED <<Usage, X4DR, int1, got>>

\* Fault: slot 0 decides alone.
LastFreedFirst == 0 \notin UsageBits

LastFreed == UsageBits = {}

FreeUnhook(c) ==
  /\ op[c].do = "unhook" /\ op[c].todo = {}
  /\ IF LastFreed
     THEN EachProcessor(c, [do |-> "UnhookInts", slot |-> 0], "done")
     ELSE op' = [op EXCEPT ![c].do = "done"] /\ UNCHANGED <<dpcs, dr, hooked>>
  /\ UNCHANGED <<Usage, X4DR, UsageBits, int1, got>>

\* KeLowerIrql.
Return(c) ==
  /\ op[c].do = "done" /\ op[c].todo = {}
  /\ op' = [op EXCEPT ![c] = Idle]
  /\ UNCHANGED <<Usage, X4DR, UsageBits, dpcs, dr, hooked, int1, got>>

-----------------------------------------------------------------------------
(* Accesses, thefts and repairs. *)

\* A program's OUT or IN; with a register on its address the processor raises INT 1.
Access(c) ==
  /\ ~Raised(c) /\ int1[c] = NoTrap
  /\ \E a \in Addrs :
       /\ ~BusyPorts => ~BeingChanged(a)
       /\ LET hit == {s \in Slots : dr[c][s] = a}
          IN  IF hit = {} THEN got' = [got EXCEPT ![c] = "hardware"] /\ UNCHANGED int1
              ELSE IF ~hooked[c] \/ UsageBits \intersect hit = {}
                   THEN got' = [got EXCEPT ![c] = "stray"] /\ UNCHANGED int1
              ELSE /\ int1' = [int1 EXCEPT ![c] = [addr |-> a, slot |-> Min(UsageBits \intersect hit)]]
                   /\ got' = [got EXCEPT ![c] = "trapped"]
  /\ UNCHANGED <<Usage, X4DR, UsageBits, op, dpcs, dr, hooked>>

\* NewInt1 reads the device and HandleOutIn calls HandleOut or HandleIn with it.
NewInt1(c) ==
  /\ int1[c] # NoTrap
  /\ got' = [got EXCEPT ![c] = LET X == X4DR[int1[c].slot]
                               IN  IF X = int1[c].addr THEN "device"
                                   ELSE IF X = None THEN "null" ELSE "wrong"]
  /\ int1' = [int1 EXCEPT ![c] = NoTrap]
  /\ UNCHANGED <<Usage, X4DR, UsageBits, op, dpcs, dr, hooked>>

\* A debugger or the system takes the registers of a processor away.
Steal(c) ==
  /\ Thieves /\ ~Raised(c) /\ \E s \in Slots : dr[c][s] # 0
  /\ dr' = [dr EXCEPT ![c] = [s \in Slots |-> 0]]
  /\ UNCHANGED <<Usage, X4DR, UsageBits, op, dpcs, hooked, int1, got>>

\* NewInt2E and NewSysEnter: a system call loads them again.
SystemCall(c) ==
  /\ ~Raised(c) /\ int1[c] = NoTrap /\ hooked[c] /\ Loaded(c) # dr[c]
  /\ dr' = [dr EXCEPT ![c] = Loaded(c)]
  /\ UNCHANGED <<Usage, X4DR, UsageBits, op, dpcs, hooked, int1, got>>

\* SetDebDpc: so does the timer, on the processor it happens to run on; it is armed after
\* the interrupts are hooked and cancelled before they are given back.
Armed == UsageBits # {} \/ \E d \in Cpus : op[d].do \in {"load", "unhook"} /\ op[d].todo = {}

Timer(c) ==
  /\ ~Raised(c) /\ int1[c] = NoTrap /\ Armed /\ Loaded(c) # dr[c]
  /\ dr' = [dr EXCEPT ![c] = Loaded(c)]
  /\ UNCHANGED <<Usage, X4DR, UsageBits, op, dpcs, hooked, int1, got>>

Alloc(c) == AllocDR(c) \/ AllocStore(c) \/ AllocLoad(c)
Free(c) == FreeDR(c) \/ FreeClear(c) \/ FreeUnload(c) \/ FreeUnhook(c)

Next ==
  \E c \in Cpus :
    \/ Alloc(c)
    \/ Free(c)
    \/ Return(c)
    \/ Dpc(c)
    \/ Access(c)
    \/ NewInt1(c)
    \/ Steal(c)
    \/ SystemCall(c)
    \/ Timer(c)

\* Threads that are under way go on, DPCs run, and programs make system calls.
Continue(c) == AllocStore(c) \/ AllocLoad(c) \/ FreeClear(c) \/ FreeUnload(c) \/ FreeUnhook(c) \/ Return(c)

Fairness ==
  \A c \in Cpus : WF_vars(Continue(c)) /\ SF_vars(Dpc(c)) /\ WF_vars(NewInt1(c)) /\ SF_vars(SystemCall(c))

Spec == Init /\ [][Next]_vars
FairSpec == Spec /\ Fairness

-----------------------------------------------------------------------------
(* Properties *)

TypeOK ==
  /\ Usage \in [Slots -> Addrs \union {0}] /\ X4DR \in [Slots -> Addrs \union {None}]
  /\ UsageBits \subseteq Slots
  /\ dr \in [Cpus -> [Slots -> Addrs \union {0}]] /\ hooked \in [Cpus -> BOOLEAN]
  /\ \A c \in Cpus : int1[c] = NoTrap \/ int1[c] \in [addr : Addrs, slot : Slots]

(* A trapped access is answered by the device that has the address: the handler never finds *)
(* an empty or foreign entry (a crash in the kernel), and no exception of the driver's      *)
(* registers gets to the old INT 1 handler (Vlpt.c:744, 806, 1376).                         *)
TrapsAnswered == \A c \in Cpus : got[c] \notin {"stray", "null", "wrong"}

(* A register is enabled only on a processor whose interrupts are hooked, and when the last *)
(* trap has been freed no processor keeps a register or a hook: neither comes back through  *)
(* a system call or the timer (Vlpt.c:751, 813).                                            *)
HooksFollowRegisters ==
  /\ \A c \in Cpus : (\E s \in Slots : dr[c][s] # 0) => hooked[c]
  /\ UsageBits = {} /\ (\A c \in Cpus : op[c] = Idle) =>
    \A c \in Cpus : ~hooked[c] /\ \A s \in Slots : dr[c][s] = 0

(* A register that is on leads to the device whose address it holds, on every processor, *)
(* and none is on where or when nobody can take its exceptions.                           *)
TrapsSound == TrapsAnswered /\ HooksFollowRegisters

(* AllocDR and FreeDR return: no two processors wait for each other at DISPATCH_LEVEL; and  *)
(* an address that keeps its trap is in a register of every processor again and again,      *)
(* whoever takes the registers away (Vlpt.c:113, 303, 1262).                                *)
TrapsComeBack ==
  \A c \in Cpus :
    /\ (op[c] # Idle) ~> (op[c] = Idle)
    /\ \A a \in Addrs :
         []<>((\E s \in UsageBits : Usage[s] = a) => \E s \in Slots : dr[c][s] = a)
=============================================================================
