----------------------------- MODULE DevicePnp -----------------------------
(***************************************************************************)
(* The life of an adapter in the driver (sys/Usb2lpt.c): AddDevice,        *)
(* DispatchPnp with the handlers of START, STOP, SURPRISE_REMOVAL and      *)
(* REMOVE, and around them the two ways into the driver, accesses that the *)
(* trap handler hands over and IOCTLs of an open file, as far as they take *)
(* part in it: remove lock, mutex, pending transfers, the timer of the     *)
(* write cache.                                                            *)
(*                                                                         *)
(* The PnP manager, the I/O manager and the programs are external: one PnP *)
(* request at a time to an adapter; REMOVE, on NT, when no file is open.   *)
(* Which addresses are trapped is module TrapTable's business: here an     *)
(* adapter's traps are set or not.                                         *)
(***************************************************************************)
EXTENDS Integers, FiniteSets

CONSTANTS
  Devices,      \* adapters
  Threads,      \* threads that access ports or open the device
  Bases,        \* values of LptBase; 0: no traps at the start of the device
  Defaults,     \* AddDevice's LptBase of each number a device may get
  Nt,           \* built with NTDDK: REMOVE comes when no file is open
  WriteCache,   \* which settings of UC_WriteCache there are
  LateSettings, \* programs set the configuration while or after the adapter is
                \* unplugged
  Restarts,     \* a stopped device is started again
  LateAccesses, \* with the write cache on, programs access the ports while the
                \* adapter is stopped or unplugged
  OddPipes,     \* an adapter may lack one of the two pipes
  PoolFails     \* ExAllocatePoolWithTag may fail in ProcessIOCTL

Numbers == DOMAIN Defaults  \* X->instance: LPT1 is 0
Bios == {0, 1, 2}           \* ports the BIOS data area has a place for

ASSUME PnpAssumption ==
  /\ Bases \subseteq Nat /\ 0 \in Bases /\ Numbers \subseteq Nat /\ Defaults \in [Numbers -> Bases]
  /\ Nt \in BOOLEAN /\ WriteCache \subseteq BOOLEAN /\ LateSettings \in BOOLEAN
  /\ Restarts \in BOOLEAN /\ LateAccesses \in BOOLEAN /\ OddPipes \in BOOLEAN
  /\ PoolFails \in BOOLEAN

None == -1

VARIABLES
  stage,   \* the PnP manager's view of a device
  at,      \* where DispatchPnp is for it
  others,  \* numbers of the system's other parallel ports
  exists,  \* its device object with the extension X exists
  name,    \* X->instance
  f,       \* X->f (without No_Function)
  uc,      \* X->uc.LptBase
  cache,   \* X->uc.flags has UC_WriteCache, all the time
  reg,     \* UserCfg in the registry (None: never written)
  port,    \* PortName in the registry, as a number
  trapped, \* X->ac.trapped # 0: its addresses lead to X
  old,     \* X->oldlpt and X->oldsys
  bios,    \* the BIOS data area: port addresses and number of ports
  blocks,  \* ghost: pool blocks allocated for descriptor and interface
  kept,    \* X->DeviceDescriptor and X->Interface are not NULL; it has both pipes
  locked,  \* ghost: threads that hold the remove lock
  gone,    \* IoReleaseRemoveLockAndWait has been called: it gives none away
  mutex,   \* threads that hold X->bmutex (all: it is not initialised)
  jobs,    \* transfers of the driver's own that are pending
  red,     \* X->ev is red
  armed,   \* X->wrcache.tmr is set
  call     \* what a thread does: kind, device, place

pnp == <<stage, at, others, exists, name, f, gone>>
conf == <<uc, cache, reg, port, trapped, old, bios>>
mem == <<blocks, kept>>
io == <<locked, mutex, jobs, red, armed, call>>
vars == <<pnp, conf, mem, io>>

Idle == [kind |-> "none"]

Init ==
  /\ stage = [d \in Devices |-> "out"] /\ at = [d \in Devices |-> "idle"]
  /\ others = {} /\ exists = [d \in Devices |-> FALSE] /\ name = [d \in Devices |-> None]
  /\ f = [d \in Devices |-> {}] /\ gone = [d \in Devices |-> FALSE]
  /\ uc = [d \in Devices |-> 0]
  /\ reg = [d \in Devices |-> None] /\ port = [d \in Devices |-> None]
  /\ trapped = [d \in Devices |-> FALSE]
  /\ old = [d \in Devices |-> [lpt |-> 0, sys |-> 0]]
  /\ bios = [lpt |-> [i \in Bios |-> 0], sys |-> 0]
  /\ blocks = [d \in Devices |-> [dev |-> 0, iface |-> 0]]
  /\ kept = [d \in Devices |-> {}]
  /\ locked = [d \in Devices |-> {}] /\ mutex = [d \in Devices |-> {}]
  /\ jobs = [d \in Devices |-> 0] /\ red = [d \in Devices |-> FALSE]
  /\ armed = [d \in Devices |-> FALSE]
  /\ call = [t \in Threads |-> Idle]
  /\ cache \in WriteCache
-----------------------------------------------------------------------------
(* Traps and the BIOS data area, as functions of the BIOS area *)

\* What FreeTraps leaves there: the values saved, whether or not any were.
Freed(d) ==
  IF name[d] \in Bios
  THEN [lpt |-> [bios.lpt EXCEPT ![name[d]] = old[d].lpt], sys |-> old[d].sys]
  ELSE bios

\* The higher of the number of ports and that of this one.
Patched(d, b, base) ==
  IF name[d] \in Bios
  THEN [lpt |-> [b.lpt EXCEPT ![name[d]] = base],
        sys |-> IF b.sys <= name[d] THEN name[d] + 1 ELSE b.sys]
  ELSE b

Saved(d, b) ==
  IF name[d] \in Bios
  THEN [old EXCEPT ![d] = [lpt |-> b.lpt[name[d]], sys |-> b.sys]]
  ELSE old

FreeTraps(d) ==
  /\ bios' = Freed(d) /\ trapped' = [trapped EXCEPT ![d] = FALSE]

\* SetTraps on what b is of the BIOS area.
SetTraps(d, b, base) ==
  /\ bios' = Patched(d, b, base) /\ old' = Saved(d, b)
  /\ trapped' = [trapped EXCEPT ![d] = TRUE]
-----------------------------------------------------------------------------
(* AddDevice *)

Free == Numbers \ (others \cup {name[e] : e \in Devices})

\* Other parallel ports come and go.
OtherPorts(n) ==
  /\ n \in Numbers \ {name[e] : e \in Devices}
  /\ others' = IF n \in others THEN others \ {n} ELSE others \cup {n}
  /\ UNCHANGED <<stage, at, exists, name, f, gone, conf, mem, io>>

\* The number the registry has for a device configured before, if no device
\* object has it, else the first free one.
Pick(d) ==
  IF reg[d] # None /\ port[d] \in Free
  THEN port[d] ELSE CHOOSE n \in Free : \A m \in Free : n <= m

AddDevice(d) ==
  /\ stage[d] = "out" /\ Free # {}
  /\ name' = [name EXCEPT ![d] = Pick(d)]
  /\ port' = [port EXCEPT ![d] = Pick(d)]
  /\ uc' = [uc EXCEPT ![d] = Defaults[Pick(d)]]
  /\ stage' = [stage EXCEPT ![d] = "added"]
  /\ exists' = [exists EXCEPT ![d] = TRUE]
  /\ f' = [f EXCEPT ![d] = {}] /\ gone' = [gone EXCEPT ![d] = FALSE]
  /\ old' = [old EXCEPT ![d] = [lpt |-> 0, sys |-> 0]]
  /\ kept' = [kept EXCEPT ![d] = {}]
  /\ UNCHANGED <<at, others, cache, reg, trapped, bios, blocks, io>>
-----------------------------------------------------------------------------
(* START and STOP *)

\* HandleStartDevice: lower drivers first; then the configuration is loaded,
\* whether or not they succeeded.
Start(d) ==
  /\ at[d] = "idle"
  /\ stage[d] \in {"added"} \cup (IF Restarts THEN {"stopped"} ELSE {})
  /\ uc' = [uc EXCEPT ![d] = IF reg[d] = None THEN @ ELSE reg[d]]
  /\ \/ at' = [at EXCEPT ![d] = "describe"] /\ UNCHANGED stage
     \/ stage' = [stage EXCEPT ![d] = "failed"] /\ UNCHANGED at
  /\ UNCHANGED <<others, exists, name, f, gone, cache, reg, port, trapped, old, bios, mem, io>>

\* StartDevice: the device descriptor.
Describe(d) ==
  /\ at[d] = "describe"
  /\ \/ /\ blocks' = [blocks EXCEPT ![d].dev = @ + 1]
        /\ kept' = [kept EXCEPT ![d] = @ \cup {"dev"}]
        /\ f' = [f EXCEPT ![d] = @ \ {"Stopped"}]
        /\ at' = [at EXCEPT ![d] = "configure"]
        /\ UNCHANGED stage
     \/ /\ kept' = [kept EXCEPT ![d] = @ \ {"dev"}]
        /\ at' = [at EXCEPT ![d] = "idle"]
        /\ stage' = [stage EXCEPT ![d] = "failed"]
        /\ UNCHANGED <<blocks, f>>
  /\ UNCHANGED <<others, exists, name, gone, conf, io>>

\* Fault: a failed start gives the descriptor up at once.
ConfigureFrees(d) ==
  /\ at[d] = "configure"
  /\ at' = [at EXCEPT ![d] = "idle"]
  /\ \/ /\ blocks' = [blocks EXCEPT ![d].iface = @ + 1]
        /\ kept' = [kept EXCEPT ![d] = @ \cup {"iface", "pipes"}]
        /\ stage' = [stage EXCEPT ![d] = "running"]
        /\ f' = [f EXCEPT ![d] = @ \cup {"Started"}]
        /\ mutex' = [mutex EXCEPT ![d] = {}]
        /\ armed' = [armed EXCEPT ![d] = FALSE]
        /\ red' = [red EXCEPT ![d] = FALSE]
        /\ IF uc[d] # 0 THEN SetTraps(d, bios, uc[d])
                        ELSE UNCHANGED <<bios, old, trapped>>
     \/ /\ stage' = [stage EXCEPT ![d] = "failed"]
        /\ kept' = [kept EXCEPT ![d] = @ \ {"dev"}]
        /\ UNCHANGED <<blocks, f, mutex, armed, red, bios, old, trapped>>
  /\ UNCHANGED <<others, exists, name, gone, uc, cache, reg, port, locked, jobs, call>>

\* ConfigureDevice, and on success what starts accesses: mutex, timer and
\* event are initialised, whoever uses them, and the traps set.  Without the
\* two pipes the start succeeds all the same, and the mutex stays one of zeros.
Configure(d) ==
  /\ at[d] = "configure"
  /\ at' = [at EXCEPT ![d] = "idle"]
  /\ \/ /\ blocks' = [blocks EXCEPT ![d].iface = @ + 1]
        /\ stage' = [stage EXCEPT ![d] = "running"]
        /\ f' = [f EXCEPT ![d] = @ \cup {"Started"}]
        /\ \/ /\ kept' = [kept EXCEPT ![d] = @ \cup {"iface", "pipes"}]
              /\ mutex' = [mutex EXCEPT ![d] = {}]
              /\ armed' = [armed EXCEPT ![d] = FALSE]
              /\ red' = [red EXCEPT ![d] = FALSE]
              /\ IF uc[d] # 0 THEN SetTraps(d, bios, uc[d])
                              ELSE UNCHANGED <<bios, old, trapped>>
           \/ /\ OddPipes /\ kept' = [kept EXCEPT ![d] = @ \cup {"iface"}]
              /\ mutex' = [mutex EXCEPT ![d] = Threads]
              /\ UNCHANGED <<armed, red, bios, old, trapped>>
     \/ /\ stage' = [stage EXCEPT ![d] = "failed"]
        /\ UNCHANGED <<blocks, kept, f, mutex, armed, red, bios, old, trapped>>
  /\ UNCHANGED <<others, exists, name, gone, uc, cache, reg, port, locked, jobs, call>>

\* Accesses under way.
Accessed(d) == \E t \in Threads : call[t].kind = "access" /\ call[t].dev = d

\* StopDevice: its transfers end, as it is not configured any more.
Stop(d) ==
  /\ at[d] = "idle" /\ stage[d] = "running"
  /\ cache /\ Accessed(d) => LateAccesses
  /\ armed' = [armed EXCEPT ![d] = FALSE]
  /\ FreeTraps(d)
  /\ f' = [f EXCEPT ![d] = @ \cup {"Stopped"}]
  /\ stage' = [stage EXCEPT ![d] = "stopped"]
  /\ UNCHANGED <<at, others, exists, name, gone, uc, cache, reg, port, old, mem, locked, mutex, jobs, red, call>>
-----------------------------------------------------------------------------
(* Removal *)

CancelTimer(d) ==
  armed' = IF "Stopped" \in f[d] THEN armed ELSE [armed EXCEPT ![d] = FALSE]

IsFile(c) == c.kind = "file"
Opened(d) == \E t \in Threads : IsFile(call[t]) /\ call[t].dev = d

\* A thread asks for a new configuration of the device.
Settings(d) ==
  \E t \in Threads : /\ IsFile(call[t]) /\ call[t].dev = d
                    /\ call[t].pc \in {"checked", "locked"} /\ call[t].req = "usercfg"

SurpriseRemoval(d) ==
  /\ Nt /\ at[d] = "idle" /\ stage[d] \in {"running", "stopped"}
  /\ Settings(d) => LateSettings
  /\ cache /\ Accessed(d) => LateAccesses
  /\ CancelTimer(d) /\ FreeTraps(d)
  /\ f' = [f EXCEPT ![d] = @ \cup {"surprise"}]
  /\ stage' = [stage EXCEPT ![d] = "surprised"]
  /\ UNCHANGED <<at, others, exists, name, gone, uc, cache, reg, port, old, mem, locked, mutex, jobs, red, call>>

\* Fault: FreeTraps is left to the surprise removal.
RemoveTrapped(d) ==
  /\ at[d] = "idle" /\ stage[d] # "out" /\ (Nt => ~Opened(d))
  /\ cache /\ Accessed(d) => LateAccesses
  /\ CancelTimer(d) /\ UNCHANGED <<bios, trapped>>
  /\ f' = [f EXCEPT ![d] = @ \cup {"removing"}]
  /\ reg' = [reg EXCEPT ![d] = uc[d]]
  /\ at' = [at EXCEPT ![d] = "abort"]
  /\ UNCHANGED <<stage, others, exists, name, gone, uc, cache, port, old, mem, locked, mutex, jobs, red, call>>

\* REMOVE: no new IOCTLs, no more traps; the configuration is saved.
Remove(d) ==
  /\ at[d] = "idle" /\ stage[d] # "out" /\ (Nt => ~Opened(d))
  /\ cache /\ Accessed(d) => LateAccesses
  /\ IF "surprise" \in f[d] THEN UNCHANGED <<armed, bios, trapped>>
                            ELSE CancelTimer(d) /\ FreeTraps(d)
  /\ f' = [f EXCEPT ![d] = @ \cup {"removing"}]
  /\ reg' = [reg EXCEPT ![d] = uc[d]]
  /\ at' = [at EXCEPT ![d] = "abort"]
  /\ UNCHANGED <<stage, others, exists, name, gone, uc, cache, port, old, mem, locked, mutex, jobs, red, call>>

\* AbortPipe for each pipe: what is pending ends.  New use of the lock is over.
Abort(d) ==
  /\ at[d] = "abort"
  /\ IF "iface" \in kept[d]
       THEN jobs' = [jobs EXCEPT ![d] = 0] /\ red' = [red EXCEPT ![d] = FALSE]
       ELSE UNCHANGED <<jobs, red>>
  /\ call' = [t \in Threads |->
       IF "iface" \in kept[d] /\ IsFile(call[t]) /\ call[t].dev = d
            /\ call[t].pc = "pending"
         THEN [call[t] EXCEPT !.pc = "open"] ELSE call[t]]
  /\ gone' = [gone EXCEPT ![d] = TRUE]
  /\ at' = [at EXCEPT ![d] = "wait"]
  /\ UNCHANGED <<stage, others, exists, name, f, conf, mem, locked, mutex, armed>>

\* IoReleaseRemoveLockAndWait returns; RemoveDevice.
Delete(d) ==
  /\ at[d] = "wait" /\ locked[d] = {}
  /\ blocks' = [blocks EXCEPT ![d] =
       [dev |-> IF "dev" \in kept[d] THEN @.dev - 1 ELSE @.dev,
        iface |-> IF "iface" \in kept[d] THEN @.iface - 1 ELSE @.iface]]
  /\ exists' = [exists EXCEPT ![d] = FALSE]
  /\ name' = [name EXCEPT ![d] = None]
  /\ stage' = [stage EXCEPT ![d] = "out"] /\ at' = [at EXCEPT ![d] = "idle"]
  /\ UNCHANGED <<others, f, gone, conf, kept, io>>
-----------------------------------------------------------------------------
(* Accesses of programs that the trap handler hands over *)

Goto(t, pc) == call' = [call EXCEPT ![t].pc = pc]

Let(t, kind, d, pc) == call' = [call EXCEPT ![t] = [kind |-> kind, dev |-> d, pc |-> pc]]

At(t, kind, pc) == call[t].kind = kind /\ call[t].pc = pc

\* The trap handler finds the device in its table.
Trap(t, d) ==
  /\ call[t] = Idle /\ trapped[d]
  /\ cache /\ "Stopped" \in f[d] => LateAccesses
  /\ Let(t, "access", d, "found")
  /\ UNCHANGED <<pnp, conf, mem, locked, mutex, jobs, red, armed>>

\* HandleOut, HandleIn: the remove lock, or no access.  That X is still there
\* is not known here: an access to a deleted X is lost in this model.
Acquire(t) ==
  LET d == call[t].dev
  IN  /\ At(t, "access", "found")
      /\ IF exists[d] /\ ~gone[d]
           THEN /\ locked' = [locked EXCEPT ![d] = @ \cup {t}]
                /\ Goto(t, "inside")
           ELSE call' = [call EXCEPT ![t] = Idle] /\ UNCHANGED locked
      /\ UNCHANGED <<pnp, conf, mem, mutex, jobs, red, armed>>

\* The mutex, and no transfer pending; the bytes are held by the write cache,
\* or sent.
Enter(t) ==
  LET d == call[t].dev
  IN  /\ At(t, "access", "inside") /\ mutex[d] = {} /\ ~red[d]
      /\ IF cache
           THEN /\ armed' = [armed EXCEPT ![d] = TRUE]
                /\ locked' = [locked EXCEPT ![d] = @ \ {t}]
                /\ call' = [call EXCEPT ![t] = Idle]
                /\ UNCHANGED <<mutex, jobs, red>>
           ELSE /\ mutex' = [mutex EXCEPT ![d] = {t}]
                /\ jobs' = [jobs EXCEPT ![d] = @ + 1]
                /\ red' = [red EXCEPT ![d] = TRUE]
                /\ Goto(t, "sent")
                /\ UNCHANGED <<locked, armed>>
      /\ UNCHANGED <<pnp, conf, mem>>

\* The transfer is over.
Leave(t) ==
  LET d == call[t].dev
  IN  /\ At(t, "access", "sent") /\ ~red[d]
      /\ mutex' = [mutex EXCEPT ![d] = @ \ {t}]
      /\ locked' = [locked EXCEPT ![d] = @ \ {t}]
      /\ call' = [call EXCEPT ![t] = Idle]
      /\ UNCHANGED <<pnp, conf, mem, jobs, red, armed>>

\* OutInFertig of a transfer of the driver's own: sent, or given up.
JobDone(d) ==
  /\ jobs[d] > 0
  /\ jobs' = [jobs EXCEPT ![d] = @ - 1] /\ red' = [red EXCEPT ![d] = FALSE]
  /\ UNCHANGED <<pnp, conf, mem, locked, mutex, armed, call>>

\* TimerDpc: FlushBuffer takes neither mutex nor remove lock.
TimerDpc(d) ==
  /\ armed[d] /\ exists[d]
  /\ armed' = [armed EXCEPT ![d] = FALSE]
  /\ jobs' = [jobs EXCEPT ![d] = @ + 1] /\ red' = [red EXCEPT ![d] = TRUE]
  /\ UNCHANGED <<pnp, conf, mem, locked, mutex, call>>
-----------------------------------------------------------------------------
(* Files: Create, ProcessIOCTL, Close *)

Create(t, d) ==
  /\ call[t] = Idle /\ exists[d] /\ "Started" \in f[d]
  /\ stage[d] \in {"running", "stopped"} /\ at[d] = "idle"
  /\ Let(t, "file", d, "open")
  /\ UNCHANGED <<pnp, conf, mem, locked, mutex, jobs, red, armed>>

Close(t) ==
  /\ At(t, "file", "open")
  /\ call' = [call EXCEPT ![t] = Idle]
  /\ UNCHANGED <<pnp, conf, mem, locked, mutex, jobs, red, armed>>

\* ProcessIOCTL: not when removing, not without the remove lock.
Ioctl(t, req) ==
  LET d == call[t].dev
  IN  /\ At(t, "file", "open") /\ exists[d]
      /\ "removing" \notin f[d]
      /\ req = "usercfg" /\ "surprise" \in f[d] => LateSettings
      /\ call' = [call EXCEPT ![t] = [kind |-> "file", dev |-> d, pc |-> "checked", req |-> req]]
      /\ UNCHANGED <<pnp, conf, mem, locked, mutex, jobs, red, armed>>

IoctlLock(t) ==
  LET d == call[t].dev
  IN  /\ At(t, "file", "checked")
      /\ IF exists[d] /\ ~gone[d]
           THEN locked' = [locked EXCEPT ![d] = @ \cup {t}] /\ Goto(t, "locked")
           ELSE UNCHANGED locked /\ Goto(t, "open")
      /\ UNCHANGED <<pnp, conf, mem, mutex, jobs, red, armed>>

\* It works on a request.
Doing(t, req) == At(t, "file", "locked") /\ call[t].req = req

Answer(t, pc) ==
  /\ locked' = [locked EXCEPT ![call[t].dev] = @ \ {t}]
  /\ Goto(t, pc)

\* Fault: the traps are set before the configuration is copied.
UserCfgLate(t, c) ==
  LET d == call[t].dev
  IN  /\ Doing(t, "usercfg")
      /\ IF c = uc[d] THEN UNCHANGED <<bios, old, trapped>>
                      ELSE SetTraps(d, Freed(d), uc[d])
      /\ uc' = [uc EXCEPT ![d] = c]
      /\ Answer(t, "open")
      /\ UNCHANGED <<pnp, cache, reg, port, mem, mutex, jobs, red, armed>>

\* IOCTL_VLPT_UserCfg: with another configuration the traps are set anew.
UserCfg(t, c) ==
  LET d == call[t].dev
  IN  /\ Doing(t, "usercfg")
      /\ IF c = uc[d] THEN UNCHANGED <<bios, old, trapped>>
                      ELSE SetTraps(d, Freed(d), c)
      /\ uc' = [uc EXCEPT ![d] = c]
      /\ Answer(t, "open")
      /\ UNCHANGED <<pnp, cache, reg, port, mem, mutex, jobs, red, armed>>

\* Fault: the mutex is not released.
OutInKeepsMutex(t) ==
  LET d == call[t].dev
  IN  /\ Doing(t, "outin")
      /\ IF "surprise" \in f[d] \/ "pipes" \notin kept[d]
           THEN Answer(t, "open") /\ UNCHANGED mutex
           ELSE /\ mutex[d] = {} /\ ~red[d] /\ Answer(t, "pending")
                /\ mutex' = [mutex EXCEPT ![d] = {t}]
      /\ UNCHANGED <<pnp, conf, mem, jobs, red, armed>>

\* IOCTL_VLPT_OutIn: after the mutex and the transfer in work, a transfer that
\* stays pending when the remove lock is released.
OutIn(t) ==
  LET d == call[t].dev
  IN  /\ Doing(t, "outin")
      /\ IF "surprise" \in f[d] \/ "pipes" \notin kept[d]
           THEN Answer(t, "open")
           ELSE mutex[d] = {} /\ ~red[d] /\ Answer(t, "pending")
      /\ UNCHANGED <<pnp, conf, mem, mutex, jobs, red, armed>>

\* Fault: no lock is released, whatever comes of the request.
VendorKeepsLock(t) ==
  LET d == call[t].dev
  IN  /\ Doing(t, "vendor")
      /\ IF "surprise" \in f[d]
           THEN Answer(t, "open")
           ELSE UNCHANGED locked /\ Goto(t, "pending")
      /\ UNCHANGED <<pnp, conf, mem, mutex, jobs, red, armed>>

\* RAM, EEPROM and XRAM requests: pending as well; without memory for the
\* URB neither answered nor out of the lock.
Vendor(t) ==
  LET d == call[t].dev
  IN  /\ Doing(t, "vendor")
      /\ IF "surprise" \in f[d]
           THEN Answer(t, "open")
           ELSE \E memory \in {TRUE, ~PoolFails} :
                  IF memory THEN Answer(t, "pending")
                            ELSE UNCHANGED locked /\ Goto(t, "lost")
      /\ UNCHANGED <<pnp, conf, mem, mutex, jobs, red, armed>>

\* The completion routine answers.
IrpDone(t) ==
  /\ At(t, "file", "pending") /\ Goto(t, "open")
  /\ UNCHANGED <<pnp, conf, mem, locked, mutex, jobs, red, armed>>
-----------------------------------------------------------------------------
Handler(d) == Describe(d) \/ Configure(d) \/ Abort(d) \/ Delete(d)

Manager(d) ==
  \/ AddDevice(d) \/ Start(d) \/ Stop(d) \/ SurpriseRemoval(d) \/ Remove(d)

Work(t) ==
  \/ Acquire(t) \/ Enter(t) \/ Leave(t)
  \/ IoctlLock(t) \/ OutIn(t) \/ Vendor(t) \/ IrpDone(t)
  \/ \E c \in Bases : UserCfg(t, c)

Program(t) ==
  \/ \E d \in Devices : Trap(t, d) \/ Create(t, d)
  \/ \E req \in {"usercfg", "outin", "vendor"} : Ioctl(t, req)
  \/ Close(t)

Next ==
  \/ \E d \in Devices : Handler(d) \/ Manager(d) \/ JobDone(d) \/ TimerDpc(d)
  \/ \E t \in Threads : Work(t) \/ Program(t)
  \/ \E n \in Numbers : OtherPorts(n)

\* Handlers go on, transfers end (USB gives them up at the latest when the
\* adapter is unplugged), and threads in the driver run.
Fairness ==
  /\ \A d \in Devices : WF_vars(Handler(d)) /\ WF_vars(JobDone(d))
  /\ \A t \in Threads : WF_vars(Work(t)) /\ SF_vars(Enter(t)) /\ SF_vars(OutIn(t))

Spec == Init /\ [][Next]_vars
FairSpec == Spec /\ Fairness
-----------------------------------------------------------------------------
TypeOK ==
  /\ stage \in [Devices -> {"out", "added", "running", "stopped", "failed", "surprised"}]
  /\ at \in [Devices -> {"idle", "describe", "configure", "abort", "wait"}]
  /\ others \subseteq Numbers /\ exists \in [Devices -> BOOLEAN] /\ gone \in [Devices -> BOOLEAN]
  /\ name \in [Devices -> Numbers \cup {None}]
  /\ f \in [Devices -> SUBSET {"Started", "Stopped", "surprise", "removing"}]
  /\ uc \in [Devices -> Bases]
  /\ reg \in [Devices -> Bases \cup {None}] /\ port \in [Devices -> Numbers \cup {None}]
  /\ trapped \in [Devices -> BOOLEAN] /\ armed \in [Devices -> BOOLEAN]
  /\ blocks \in [Devices -> [dev : Nat, iface : Nat]]
  /\ kept \in [Devices -> SUBSET {"dev", "iface", "pipes"}]
  /\ locked \in [Devices -> SUBSET Threads] /\ mutex \in [Devices -> SUBSET Threads]
  /\ jobs \in [Devices -> Nat] /\ red \in [Devices -> BOOLEAN]

\* A device object that is deleted leaves nothing behind that would use it: no
\* trap of its addresses, no thread that holds its remove lock or a file of it,
\* no transfer with its completion routine, and no timer, with the write cache on
\* or off.  What StartDevice allocated has been freed, whatever step of the start
\* failed.
NothingLeft ==
  \A d \in Devices : ~exists[d] =>
    /\ ~trapped[d] /\ locked[d] = {} /\ (Nt => ~Opened(d))
    /\ ~armed[d] /\ jobs[d] = 0
    /\ blocks[d] = [dev |-> 0, iface |-> 0]

\* While the addresses of LPT1 to LPT3 are trapped, programs that look the
\* port up in the BIOS data area find just these addresses.
BiosTells ==
  \A d \in Devices : trapped[d] /\ name[d] \in Bios => bios.lpt[name[d]] = uc[d]

\* A removal that has begun ends, since nobody keeps the remove lock; and every
\* IOCTL is answered.
RemovalEnds ==
  /\ \A d \in Devices : at[d] = "wait" ~> stage[d] = "out"
  /\ \A t \in Threads : IsFile(call[t]) ~> (call[t] = Idle \/ At(t, "file", "open"))
=============================================================================
