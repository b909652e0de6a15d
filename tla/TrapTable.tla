----------------------------- MODULE TrapTable -----------------------------
(***************************************************************************)
(* The driver's table of trapped port addresses (sys/Vlpt.c): Usage, X4DR  *)
(* and UsageBits, filled by AllocDR, which may push entries down or out    *)
(* with MakeSpace, and emptied by FreeDR; and what the devices do with it  *)
(* (sys/Usb2lpt.c): SetTraps and FreeTraps at start, stop and UserCfg,     *)
(* setdebreg and updatedebreg for the property sheet (AccessCnt).          *)
(*                                                                         *)
(* The table is shared by all devices and nothing guards it.  AllocDR and  *)
(* FreeDR are two steps each: finding the slot, and using it.  A handler is *)
(* a list of tasks that its device works off.                              *)
(***************************************************************************)
EXTENDS Integers, Sequences, SequencesExt

CONSTANTS
  Devices, NoDevice,
  Offsets,   \* the address blocks a device may trap (0, 4, 400h, 404h), in order
  Configs,   \* Configs[d]: the settings device d may be given, see Config
  TableLen,  \* Usage_Len (32)
  NumDR,     \* slots backed by debug registers (4)
  Foreign,   \* debug registers found in use when the driver is loaded
  PtrSize,   \* sizeof(PDEVICE_EXTENSION)
  Torn,      \* what reads as a pointer when only half of one was copied
  Serial     \* handlers run one after the other

Blocks == {Offsets[i] : i \in DOMAIN Offsets}
Slots  == 0 .. TableLen - 1

\* TUserCfg: LptBase, the blocks Mode asks for, UC_Debugreg and UC_ForceAlloc.
Config == [base : Nat, blocks : SUBSET Blocks, debreg : BOOLEAN, force : BOOLEAN]

TrapTableAssumption ==
  /\ NoDevice \notin Devices /\ Torn \notin Devices \cup {NoDevice}
  /\ \A d \in Devices : Configs[d] # {} /\ Configs[d] \subseteq Config
  /\ NumDR \in Nat \ {0} /\ TableLen \in Nat /\ NumDR < TableLen
  /\ Foreign \subseteq 0 .. NumDR - 1
  /\ PtrSize \in {4, 8} /\ Serial \in BOOLEAN

Free  == <<"free">>   \* the value 0 in Usage
Taken == <<"taken">>  \* the value 1: in use when the driver was loaded
None  == -1           \* no slot

VARIABLES
  usage,    \* Usage: Free, Taken or the address of a trapped block
  x4dr,     \* X4DR: the device of each entry
  bits,     \* UsageBits: slots that are switched on
  hooked,   \* interrupt handlers are hooked and the restore timer runs
  dr,       \* the debug registers of the processors
  uc,       \* X->uc of each device
  trapped,  \* X->ac.trapped
  debregs,  \* X->ac.debregs
  started,  \* between StartDevice and StopDevice
  todo,     \* tasks of the handler each device is in
  slot      \* the slot its AllocDR or FreeDR has found

table  == <<usage, x4dr, bits>>
device == <<uc, trapped, debregs, started>>
vars   == <<usage, x4dr, bits, hooked, dr, uc, trapped, debregs, started, todo, slot>>

Address(d, o) == <<uc[d].base, o>>
Used(i) == usage[i] \notin {Free, Taken}

InUse(a) == {i \in Slots : usage[i] = a}
FreeIn(range) == {i \in range : usage[i] = Free}

\* PrepareDR marks the debug registers that are in use already.
Init ==
  /\ usage = [i \in Slots |-> IF i \in Foreign THEN Taken ELSE Free]
  /\ x4dr = [i \in Slots |-> NoDevice]
  /\ bits = {} /\ hooked = FALSE
  /\ dr = [i \in 0 .. NumDR - 1 |-> IF i \in Foreign THEN Taken ELSE Free]
  /\ uc \in [Devices -> UNION {Configs[d] : d \in Devices}]
  /\ \A d \in Devices : uc[d] \in Configs[d]
  /\ trapped = [d \in Devices |-> {}] /\ debregs = [d \in Devices |-> {}]
  /\ started = [d \in Devices |-> FALSE]
  /\ todo = [d \in Devices |-> <<>>]
  /\ slot = [d \in Devices |-> None]
-----------------------------------------------------------------------------
(* MakeSpace *)

\* Entries p .. p+n-1 move up by one; the one that was at p+n is lost.
Shifted(f, p, n) == [i \in Slots |-> IF i \in p + 1 .. p + n THEN f[i - 1] ELSE f[i]]

\* RtlMoveMemory of i<<2 bytes of pointers, which may be eight bytes each.
ShiftedPointers(p, n) ==
  LET whole == (4 * n) \div PtrSize
      moved == Shifted(x4dr, p, whole)
      half  == p + whole + 1
  IN  IF whole * PtrSize = 4 * n \/ x4dr[half] = x4dr[half - 1]
      THEN moved ELSE [moved EXCEPT ![half] = Torn]

\* Fault: UsageBits is not moved.
BitsKept(p, n) == bits

\* UsageBits of the slots p .. p+n takes the bit below.
ShiftedBits(p, n) ==
  (bits \ (p .. p + n)) \cup {i \in p .. p + n : i > 0 /\ i - 1 \in bits}

MakeSpace(p, n) ==
  /\ usage' = Shifted(usage, p, n)
  /\ x4dr' = ShiftedPointers(p, n)
  /\ bits' = ShiftedBits(p, n)

\* The slot to overwrite among the debug registers: one that was taken when the
\* driver was loaded, or the first one, all others pushed down as far as the next
\* free slot or out of the table.
ForceDebReg(p) ==
  LET taken == {i \in 0 .. NumDR - 1 : usage[i] = Taken}
      rest  == FreeIn(NumDR .. TableLen - 1)
  IN  IF taken # {}
      THEN p = Min(taken) /\ UNCHANGED table
      ELSE p = 0 /\ MakeSpace(0, IF rest # {} THEN Min(rest) ELSE TableLen - 1)

\* ... and behind them, where the last entry always falls out.
ForceOther(p) == p = NumDR /\ MakeSpace(NumDR, TableLen - NumDR - 1)
-----------------------------------------------------------------------------
(* AllocDR *)

\* Where AllocDR looks for a free slot.
Searched(debreg, force) ==
  IF ~debreg THEN NumDR .. TableLen - 1
  ELSE IF force THEN 0 .. NumDR - 1 ELSE Slots

\* Its result is the slot p, or None: the address is in use (-2) or there is no
\* room (-3).
FindSlot(d, o, debreg, force, p) ==
  LET free == FreeIn(Searched(debreg, force))
  IN  IF InUse(Address(d, o)) # {} THEN p = None /\ UNCHANGED table
      ELSE IF free # {} THEN p = Min(free) /\ UNCHANGED table
      ELSE IF ~force THEN p = None /\ UNCHANGED table
      ELSE IF debreg THEN ForceDebReg(p) ELSE ForceOther(p)

\* At DPC level: the entry is made, LoadDR run on every processor.
StoreSlot(d, o, i) ==
  /\ usage' = [usage EXCEPT ![i] = Address(d, o)]
  /\ x4dr' = [x4dr EXCEPT ![i] = d]
  /\ bits' = bits \cup {i}
  /\ hooked' = (hooked \/ (i < NumDR /\ bits \cap 0 .. NumDR - 1 = {}))
  /\ dr' = IF i < NumDR
           THEN [k \in 0 .. NumDR - 1 |-> IF usage'[k] \notin {Free, Taken}
                                          THEN usage'[k] ELSE dr[k]]
           ELSE dr

\* FreeDR at DPC level, with the slot GetIndexDR found.
ClearSlot(i) ==
  /\ usage' = [usage EXCEPT ![i] = Free]
  /\ x4dr' = [x4dr EXCEPT ![i] = NoDevice]
  /\ bits' = bits \ {i}
  /\ dr' = IF i < NumDR THEN [dr EXCEPT ![i] = Free] ELSE dr
  /\ hooked' = (hooked /\ (i < NumDR => bits' \cap 0 .. NumDR - 1 # {}))
-----------------------------------------------------------------------------
(* Handlers: each puts a list of tasks, <<task, block, ...>>, on its device. *)

ForBlocks(task(_), blocks) ==
  LET chosen == SelectSeq(Offsets, LAMBDA o : o \in blocks)
  IN  [i \in 1 .. Len(chosen) |-> task(chosen[i])]

\* Fault: only the first block is freed.
FreeTrapsFirst == << <<"free", Head(Offsets)>>, <<"freed">> >>

FreeTraps    == ForBlocks(LAMBDA o : <<"free", o>>, Blocks) \o << <<"freed">> >>
SetTraps(c)  == ForBlocks(LAMBDA o : <<"alloc", o>>, {Head(Offsets)} \cup c.blocks)

\* A device enters a handler; one handler of a device runs at a time, and with
\* Serial one handler at all.
Enter(d, tasks) ==
  /\ todo[d] = <<>> /\ (Serial => \A e \in Devices : todo[e] = <<>>)
  /\ todo' = [todo EXCEPT ![d] = tasks]

Start(d) ==
  /\ ~started[d]
  /\ Enter(d, SetTraps(uc[d]))
  /\ started' = [started EXCEPT ![d] = TRUE]
  /\ UNCHANGED <<table, hooked, dr, uc, trapped, debregs, slot>>

Stop(d) ==
  /\ started[d]
  /\ Enter(d, FreeTraps \o << <<"stopped">> >>)
  /\ UNCHANGED <<table, hooked, dr, device, slot>>

\* Fault: the new settings are in place before the old traps are freed.
UserCfgFirst(d, c) ==
  /\ started[d] /\ c # uc[d]
  /\ Enter(d, << <<"copy", c>> >> \o FreeTraps \o SetTraps(c))
  /\ UNCHANGED <<table, hooked, dr, device, slot>>

UserCfg(d, c) ==
  /\ started[d] /\ c # uc[d]
  /\ Enter(d, FreeTraps \o << <<"copy", c>> >> \o SetTraps(c))
  /\ UNCHANGED <<table, hooked, dr, device, slot>>

\* setdebregs for the blocks to trap and those to trap by debug register, then
\* updatedebregs.
AccessCnt(d, trap, debreg) ==
  /\ started[d]
  /\ Enter(d,
       FlattenSeq(ForBlocks(LAMBDA o :
           << <<"off", o, o \in trap, o \in debreg>>, <<"on", o, o \in trap, o \in debreg>> >>,
           Blocks))
       \o << <<"valid">> >> \o ForBlocks(LAMBDA o : <<"update", o>>, Blocks))
  /\ UNCHANGED <<table, hooked, dr, device, slot>>
-----------------------------------------------------------------------------
(* Tasks *)

Task(d) == Head(todo[d])
Block(d) == Task(d)[2]
Doing(d, tasks) == todo[d] # <<>> /\ Task(d)[1] \in tasks
Done(d) == todo' = [todo EXCEPT ![d] = Tail(@)]

\* setdebreg looks at the bits the request changes.
Changed(d) == (Block(d) \in debregs[d]) # Task(d)[4]
Frees(d) ==
  /\ Block(d) \in trapped[d]
  /\ Task(d)[1] = "off" => ~Task(d)[3] \/ Changed(d)
Allocates(d) ==
  Task(d)[1] = "on" => Task(d)[3] /\ (Block(d) \notin trapped[d] \/ Changed(d))

\* setdebreg forces its place, SetTraps goes by the configuration.
ByDebreg(d) == IF Task(d)[1] = "on" THEN Task(d)[4] ELSE uc[d].debreg
ByForce(d)  == Task(d)[1] = "on" \/ uc[d].force

\* The bits of X->ac after FreeDR, and after an AllocDR that returned p.
Freed(d) ==
  trapped' = IF Task(d)[1] = "off"
             THEN [trapped EXCEPT ![d] = @ \ {Block(d)}] ELSE trapped
Allocated(d, p) ==
  /\ trapped' = IF Task(d)[1] = "on" \/ p # None
                THEN [trapped EXCEPT ![d] = @ \cup {Block(d)}] ELSE trapped
  /\ debregs' = IF Task(d)[1] = "on" /\ p \in 0 .. NumDR - 1
                THEN [debregs EXCEPT ![d] = @ \cup {Block(d)}] ELSE debregs

NothingToDo(d) ==
  /\ slot[d] = None
  /\ \/ Doing(d, {"free", "off"}) /\ ~Frees(d)
     \/ Doing(d, {"alloc", "on"}) /\ ~Allocates(d)
  /\ Done(d)
  /\ UNCHANGED <<table, hooked, dr, device, slot>>

\* FreeDR, GetIndexDR: the address may not be in the table any more.
FreeFind(d) ==
  LET found == InUse(Address(d, Block(d)))
  IN  /\ Doing(d, {"free", "off"}) /\ Frees(d) /\ slot[d] = None
      /\ IF found = {}
         THEN Freed(d) /\ Done(d) /\ UNCHANGED slot
         ELSE slot' = [slot EXCEPT ![d] = Min(found)] /\ UNCHANGED <<trapped, todo>>
      /\ UNCHANGED <<table, hooked, dr, uc, debregs, started>>

FreeUse(d) ==
  /\ Doing(d, {"free", "off"}) /\ slot[d] # None
  /\ ClearSlot(slot[d])
  /\ slot' = [slot EXCEPT ![d] = None]
  /\ Freed(d) /\ Done(d)
  /\ UNCHANGED <<uc, debregs, started>>

AllocFind(d) ==
  /\ Doing(d, {"alloc", "on"}) /\ Allocates(d) /\ slot[d] = None
  /\ \E p \in Slots \cup {None} :
       /\ FindSlot(d, Block(d), ByDebreg(d), ByForce(d), p)
       /\ IF p = None
          THEN Allocated(d, p) /\ Done(d) /\ UNCHANGED slot
          ELSE slot' = [slot EXCEPT ![d] = p] /\ UNCHANGED <<trapped, debregs, todo>>
  /\ UNCHANGED <<hooked, dr, uc, started>>

AllocUse(d) ==
  /\ Doing(d, {"alloc", "on"}) /\ slot[d] # None
  /\ StoreSlot(d, Block(d), slot[d])
  /\ slot' = [slot EXCEPT ![d] = None]
  /\ Allocated(d, slot[d]) /\ Done(d)
  /\ UNCHANGED <<uc, started>>

\* RtlCopyMemory of the caller's TUserCfg.
Copied(d) == Block(d)

\* The assignments between and after the calls of a handler.
Assign(d) ==
  /\ Doing(d, {"freed", "copy", "stopped", "valid"})
  /\ trapped' = IF Doing(d, {"freed"}) THEN [trapped EXCEPT ![d] = {}] ELSE trapped
  /\ uc' = IF Doing(d, {"copy"}) THEN [uc EXCEPT ![d] = Copied(d)] ELSE uc
  /\ started' = [started EXCEPT ![d] = @ /\ ~Doing(d, {"stopped"})]
  /\ debregs' = IF Doing(d, {"valid"}) THEN [debregs EXCEPT ![d] = {}] ELSE debregs
  /\ Done(d)
  /\ UNCHANGED <<table, hooked, dr, slot>>

\* updatedebreg
Update(d) ==
  LET found == InUse(Address(d, Block(d)))
      listed == Block(d) \in trapped[d]
  IN  /\ Doing(d, {"update"})
      /\ trapped' = IF found = {} THEN [trapped EXCEPT ![d] = @ \ {Block(d)}] ELSE trapped
      /\ debregs' = IF listed /\ found # {} /\ Min(found) < NumDR
                    THEN [debregs EXCEPT ![d] = @ \cup {Block(d)}] ELSE debregs
      /\ Done(d)
      /\ UNCHANGED <<table, hooked, dr, uc, started, slot>>

Handler(d) ==
  \/ Start(d) \/ Stop(d)
  \/ \E c \in Configs[d] : UserCfg(d, c)
  \/ \E trap, debreg \in SUBSET Blocks : AccessCnt(d, trap, debreg)

Work(d) ==
  \/ NothingToDo(d) \/ FreeFind(d) \/ FreeUse(d) \/ AllocFind(d) \/ AllocUse(d)
  \/ Assign(d) \/ Update(d)

Next == \E d \in Devices : Handler(d) \/ Work(d)

Spec == Init /\ [][Next]_vars
-----------------------------------------------------------------------------
Quiet == \A d \in Devices : slot[d] = None
AtRest(d) == todo[d] = <<>>

TypeOK ==
  /\ \A i \in Slots : Used(i) => usage[i] \in Nat \X Blocks
  /\ x4dr \in [Slots -> Devices \cup {NoDevice, Torn}]
  /\ bits \subseteq Slots /\ hooked \in BOOLEAN
  /\ \A d \in Devices : uc[d] \in Configs[d]
  /\ trapped \in [Devices -> SUBSET Blocks] /\ debregs \in [Devices -> SUBSET Blocks]
  /\ started \in [Devices -> BOOLEAN]
  /\ slot \in [Devices -> Slots \cup {None}]

\* An access to a trapped address goes to a device configured for that address.
GoesToOwner ==
  Quiet => \A i \in Slots : Used(i) =>
    \E d \in Devices : x4dr[i] = d /\ uc[d].base = usage[i][1]

\* A device that has been stopped (its extension will be freed) is not in the
\* table, whatever was pushed around or out of it in between.
NoDangling ==
  \A d \in Devices : ~started[d] /\ AtRest(d) => \A i \in Slots : x4dr[i] # d

\* The table is in order: a slot has an address, a device and its UsageBits bit,
\* or none of them; "an address cannot have several traps" (AllocDR, result -2);
\* and the debug registers hold what the table says, with interrupt handlers
\* and the timer that restores the registers there exactly while one is used.
TableInOrder ==
  Quiet => /\ \A i \in Slots : /\ Used(i) <=> i \in bits
                               /\ Used(i) <=> x4dr[i] # NoDevice
           /\ \A i, k \in Slots : Used(i) /\ usage[i] = usage[k] => i = k
           /\ \A i \in 0 .. NumDR - 1 : /\ Used(i) => dr[i] = usage[i]
                                        /\ usage[i] = Free => dr[i] = Free
           /\ hooked <=> \E i \in 0 .. NumDR - 1 : Used(i)

\* A trapped access never gets to a device that is not, or no longer, configured for
\* its address, and the table of them stays in order, through any order of starts,
\* stops and settings of several devices.
TrapsBelong == TableInOrder /\ GoesToOwner /\ NoDangling
=============================================================================
