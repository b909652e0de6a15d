------------------------------ MODULE Requests ------------------------------
(***************************************************************************)
(* The requests that reach an adapter from the kernel (sys/Usb2lpt.c): the *)
(* internal IOCTLs of the parallel port class (ProcessIntIoctl), WMI       *)
(* (DispatchSystemControl), power (DispatchPower), and the PnP queries of  *)
(* DispatchPnp; with the loading and unloading of the driver around them.  *)
(* Several are in work at once, each at its own step, and the adapter is   *)
(* removed under them.                                                     *)
(*                                                                         *)
(* The senders are external: they hold a reference, so that the device     *)
(* object stays as long as a request is in work.  A request that is passed *)
(* on is the lower driver's.                                               *)
(***************************************************************************)
EXTENDS Integers, FiniteSets, TLC

CONSTANTS
  Irps,          \* requests of a behaviour
  Smp,           \* several processors: ++ of a counter is not one step
  NoMemory,      \* ExAllocatePool may fail
  PowerAfterAll  \* power requests are in work at or after a surprise removal

ASSUME RequestsAssumption == {Smp, NoMemory, PowerAfterAll} \subseteq BOOLEAN

\* The internal IOCTLs by what they need and answer: buf says which buffers must be
\* large enough, ret the status, info that bytes are returned.
PortIoctl == [
  allocate   |-> [buf |-> {},            ret |-> "success",       info |-> FALSE],
  portinfo   |-> [buf |-> {"out"},       ret |-> "success",       info |-> TRUE],
  connect    |-> [buf |-> {"in", "out"}, ret |-> "unsuccessful",  info |-> TRUE],
  disconnect |-> [buf |-> {"in"},        ret |-> "invalid",       info |-> FALSE],
  chipmode   |-> [buf |-> {"in"},        ret |-> "success",       info |-> FALSE]]

BusIoctl == [
  free       |-> [buf |-> {},            ret |-> "success",       info |-> FALSE],
  classinfo  |-> [buf |-> {"out"},       ret |-> "success",       info |-> TRUE],
  select     |-> [buf |-> {"in"},        ret |-> "unsuccessful",  info |-> FALSE],
  todo       |-> [buf |-> {},            ret |-> "success",       info |-> FALSE],
  unknown    |-> [buf |-> {},            ret |-> "invalid",       info |-> FALSE]]

Ioctl == PortIoctl @@ BusIoctl
IoctlKinds == DOMAIN PortIoctl \cup DOMAIN BusIoctl
WmiKinds == {"block", "otherblock", "registered", "forward"}
PnpKinds == {"text", "othertext", "capabilities", "default"}
Kinds == IoctlKinds \cup WmiKinds \cup PnpKinds \cup {"power"}

Counted == {"allocate", "free"}

VARIABLES
  driver,    \* the driver: absent, or its hooks and the copy of its registry path
  stage,     \* the adapter: present, surprised, removing, removed
  gone,      \* IoReleaseRemoveLockAndWait gives no locks away
  locks,     \* requests that hold the remove lock
  irp,       \* each request: kind, its large enough buffers, where it is, answer
  counts,    \* X->WmiPortAllocFreeCounts
  done,      \* ghost: allocations and frees that have been counted
  told,      \* ghost: what the last WMI query answered, and what was right
  powerFree  \* the power manager may send the next power request

reqVars == <<driver, stage, gone, locks, irp, counts, done, told, powerFree>>

NoIrp == [at |-> "none"]
Zero == [k \in Counted |-> 0]

Init ==
  /\ driver = {} /\ stage = "removed" /\ gone = TRUE /\ locks = {}
  /\ irp = [i \in Irps |-> NoIrp]
  /\ counts = Zero /\ done = Zero /\ told = <<Zero, Zero>> /\ powerFree = TRUE
-----------------------------------------------------------------------------
(* The driver and its adapter *)

\* DriverEntry: the copy of the path first, as it may fail; then the hooks.
DriverEntry ==
  /\ driver = {}
  /\ \E memory \in {TRUE, ~NoMemory} : driver' = IF memory THEN {"path", "hooks"} ELSE {}
  /\ UNCHANGED <<stage, gone, locks, irp, counts, done, told, powerFree>>

Unload ==
  /\ driver # {} /\ stage = "removed" /\ \A i \in Irps : irp[i].at \in {"none", "end"}
  /\ driver' = {}
  /\ UNCHANGED <<stage, gone, locks, irp, counts, done, told, powerFree>>

\* AddDevice zeroes the extension; once per behaviour.
AddDevice ==
  /\ driver # {} /\ stage = "removed" /\ \A i \in Irps : irp[i] = NoIrp
  /\ stage' = "present" /\ gone' = FALSE
  /\ counts' = Zero
  /\ UNCHANGED <<driver, locks, irp, done, told, powerFree>>

PowerInWork == \E i \in Irps : irp[i].at \notin {"none", "end"} /\ irp[i].kind = "power"

Surprise ==
  /\ stage = "present" /\ stage' = "surprise"
  /\ PowerInWork => PowerAfterAll
  /\ UNCHANGED <<driver, gone, locks, irp, counts, done, told, powerFree>>

\* REMOVE: first the flag, then the lock.
Removing ==
  /\ stage \in {"present", "surprise"} /\ stage' = "removing"
  /\ UNCHANGED <<driver, gone, locks, irp, counts, done, told, powerFree>>

LockAndWait ==
  /\ stage = "removing" /\ gone' = TRUE
  /\ UNCHANGED <<driver, stage, locks, irp, counts, done, told, powerFree>>

Removed ==
  /\ stage = "removing" /\ gone /\ locks = {}
  /\ stage' = "removed"
  /\ UNCHANGED <<driver, gone, locks, irp, counts, done, told, powerFree>>
-----------------------------------------------------------------------------
(* A request *)

At(i, place) == irp[i].at = place

Go(i, place) == irp' = [irp EXCEPT ![i].at = place]

Ended(n) == [at |-> "end", answers |-> n]

\* One answer more, and the request is at its end.
Complete(i, ret) == irp' = [irp EXCEPT ![i] = Ended(@.answers + 1)]

Release(i) == locks' = locks \ {i}

\* Buffers whose size matters.
Needs(kind) ==
  IF kind \in IoctlKinds THEN Ioctl[kind].buf
  ELSE IF kind \in {"block", "capabilities"} THEN {"out"} ELSE {}

Send(i, kind, large) ==
  /\ irp[i] = NoIrp /\ stage # "removed"
  /\ kind = "power" => powerFree /\ (stage = "surprise" => PowerAfterAll)
  /\ powerFree' = (powerFree /\ kind # "power")
  /\ irp' = [irp EXCEPT ![i] = [kind |-> kind, large |-> large, at |-> "sent",
                               ret |-> "none", answers |-> 0]]
  /\ UNCHANGED <<driver, stage, gone, locks, counts, done, told>>

\* The flag is looked at by ProcessIntIoctl only.
Looked(i) ==
  /\ At(i, "sent")
  /\ IF irp[i].kind \in IoctlKinds /\ stage = "removing"
       THEN Complete(i, "removed") ELSE Go(i, "looked")
  /\ UNCHANGED <<driver, stage, gone, locks, counts, done, told, powerFree>>

Acquire(i) ==
  /\ At(i, "looked")
  /\ IF gone THEN Complete(i, "pending delete") /\ UNCHANGED locks
             ELSE Go(i, "locked") /\ locks' = locks \cup {i}
  /\ UNCHANGED <<driver, stage, gone, counts, done, told, powerFree>>

Unlocked(i) ==
  /\ At(i, "unlock")
  /\ Release(i)
  /\ irp' = [irp EXCEPT ![i] = Ended(@.answers)]
  /\ UNCHANGED <<driver, stage, gone, counts, done, told, powerFree>>

\* Answered while the lock is held.
Answer(i, ret) ==
  irp' = [irp EXCEPT ![i].at = "unlock", ![i].answers = @ + 1, ![i].ret = ret]
-----------------------------------------------------------------------------
(* ProcessIntIoctl: the lock is released first, then the request answered *)

Doing(i, kinds) == At(i, "locked") /\ irp[i].kind \in kinds

\* PortAllocates++ and PortFrees++ read, add and write, one instruction that
\* another processor can come between.
Count(i) ==
  /\ Doing(i, Counted) /\ (Smp \/ \A k \in Irps : irp[k].at # "counting")
  /\ irp' = [irp EXCEPT ![i].at = "counting", ![i].ret = counts[irp[i].kind]]
  /\ UNCHANGED <<driver, stage, gone, locks, counts, done, told, powerFree>>

CountWritten(i) ==
  /\ At(i, "counting")
  /\ counts' = [counts EXCEPT ![irp[i].kind] = irp[i].ret + 1]
  /\ done' = [done EXCEPT ![irp[i].kind] = @ + 1]
  /\ Go(i, "served")
  /\ UNCHANGED <<driver, stage, gone, locks, told, powerFree>>

\* The others change nothing of the adapter.
Serve(i) ==
  /\ Doing(i, IoctlKinds \ Counted)
  /\ Go(i, "served")
  /\ UNCHANGED <<driver, stage, gone, locks, counts, done, told, powerFree>>

Result(i) ==
  LET c == Ioctl[irp[i].kind] IN IF c.buf \subseteq irp[i].large THEN c.ret ELSE "too small"

Unlock(i) ==
  /\ At(i, "served") /\ Release(i) /\ Go(i, "answer")
  /\ UNCHANGED <<driver, stage, gone, counts, done, told, powerFree>>

Reply(i) ==
  /\ At(i, "answer") /\ Complete(i, Result(i))
  /\ UNCHANGED <<driver, stage, gone, locks, counts, done, told, powerFree>>
-----------------------------------------------------------------------------
(* DispatchSystemControl: WMILIB says what becomes of the request *)

\* Fault: the driver answers again what WMILIB has answered.
QueryWmiTwice(i) ==
  /\ Doing(i, {"block"})
  /\ told' = IF "out" \in irp[i].large THEN <<counts, done>> ELSE told
  /\ irp' = [irp EXCEPT ![i].at = "unlock", ![i].answers = @ + 2, ![i].ret = "success"]
  /\ UNCHANGED <<driver, stage, gone, locks, counts, done, powerFree>>

\* QueryWmiDataBlock answers itself: the counts, if the buffer is large enough.
QueryWmiDataBlock(i) ==
  /\ Doing(i, {"block"})
  /\ IF "out" \in irp[i].large
       THEN told' = <<counts, done>> /\ Answer(i, "success")
       ELSE UNCHANGED told /\ Answer(i, "too small")
  /\ UNCHANGED <<driver, stage, gone, locks, counts, done, powerFree>>

SystemControl(i) ==
  /\ \/ Doing(i, {"otherblock"}) /\ Answer(i, "no guid")
     \/ Doing(i, {"registered"}) /\ Answer(i, "success")
     \/ Doing(i, {"forward"}) /\ Answer(i, "lower")
  /\ UNCHANGED <<driver, stage, gone, locks, counts, done, told, powerFree>>
-----------------------------------------------------------------------------
(* DispatchPower and the queries of DispatchPnp *)

\* Fault: the next power request is not asked for.
PowerKept(i) ==
  /\ Doing(i, {"power"})
  /\ Answer(i, IF stage = "surprise" THEN "pending delete" ELSE "lower")
  /\ UNCHANGED <<driver, stage, gone, locks, counts, done, told, powerFree>>

\* After a surprise removal the driver answers and PoStartNextPowerIrp is not called.
DispatchPower(i) ==
  /\ Doing(i, {"power"})
  /\ IF stage = "surprise"
       THEN Answer(i, "pending delete") /\ UNCHANGED powerFree
       ELSE Answer(i, "lower") /\ powerFree' = TRUE
  /\ UNCHANGED <<driver, stage, gone, locks, counts, done, told>>

QueryDeviceText(i) ==
  /\ Doing(i, {"text"})
  /\ \E memory \in {TRUE, ~NoMemory} : Answer(i, IF memory THEN "success" ELSE "no memory")
  /\ UNCHANGED <<driver, stage, gone, locks, counts, done, told, powerFree>>

\* Passed on and waited for, then answered.
QueryCapabilities(i) ==
  /\ Doing(i, {"capabilities"})
  /\ Answer(i, IF "out" \in irp[i].large THEN "success" ELSE "lower")
  /\ UNCHANGED <<driver, stage, gone, locks, counts, done, told, powerFree>>

DefaultPnpHandler(i) ==
  /\ Doing(i, {"othertext", "default"}) /\ Answer(i, "lower")
  /\ UNCHANGED <<driver, stage, gone, locks, counts, done, told, powerFree>>
-----------------------------------------------------------------------------
Work(i) ==
  \/ Looked(i) \/ Acquire(i) \/ Unlocked(i)
  \/ Count(i) \/ CountWritten(i) \/ Serve(i) \/ Unlock(i) \/ Reply(i)
  \/ QueryWmiDataBlock(i) \/ SystemControl(i)
  \/ DispatchPower(i) \/ QueryDeviceText(i) \/ QueryCapabilities(i) \/ DefaultPnpHandler(i)

Next ==
  \/ DriverEntry \/ Unload \/ AddDevice \/ Surprise \/ Removing \/ LockAndWait \/ Removed
  \/ \E i \in Irps :
       \/ Work(i)
       \/ \E kind \in Kinds : \E large \in SUBSET Needs(kind) : Send(i, kind, large)

Spec == Init /\ [][Next]_reqVars
-----------------------------------------------------------------------------
\* Every request is answered once, by the driver, WMILIB or the lower driver, and
\* gives the remove lock back; none works on the adapter when it is removed.
AnsweredOnce ==
  \A i \in Irps :
    /\ irp[i].at = "end" => irp[i].answers = 1 /\ i \notin locks
    /\ stage = "removed" => irp[i].at \in {"none", "sent", "looked", "answer", "end"}

\* The counts that WMI answers are those of the requests: none is lost when two
\* threads allocate and free the port at the same time.
CountsTell == counts = done /\ told[1] = told[2]

\* As long as the adapter is there and no power request in work, the power
\* manager may send one.
PowerFlows ==
  stage \in {"present", "surprise"} => powerFree \/ PowerInWork

\* The kernel's side of the driver, for as many requests at once as there are.
RequestsKept == AnsweredOnce /\ CountsTell /\ PowerFlows
=============================================================================
