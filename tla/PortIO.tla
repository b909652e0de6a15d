------------------------------- MODULE PortIO -------------------------------
(***************************************************************************)
(* The driver's I/O path (sys/Usb2lpt.c): HandleOut and HandleIn, called   *)
(* for trapped IN and OUT instructions, collect command bytes in X->buffer *)
(* and send them with OutIn; IOCTL_VLPT_OutIn sends the caller's own       *)
(* command bytes; OutInFertig runs when USB transfers complete; TimerDpc   *)
(* sends a buffer that has been held for the write cache's TimeOut.        *)
(*                                                                         *)
(* Threads are preempted between any two of the steps below.  A DPC and a  *)
(* completion routine run at DISPATCH_LEVEL: each is one step, and may come*)
(* between any two steps of a thread, that thread's mutex or not.          *)
(***************************************************************************)
EXTENDS Integers, Sequences, SequencesExt

CONSTANTS
  Threads,       \* threads that access the port
  NoThread,      \* the owner of a free mutex; the IRP of a trapped access
  Ops,           \* the accesses they make, see Access
  MaxOps,        \* bound: accesses per thread
  BufSize,       \* X->buffer has 63 bytes
  Configs,       \* the values of X->uc.flags (caching flags only) ever set
  Initial,       \* content of the adapter's registers and of fresh buffer bytes
  AllocMayFail,  \* pool or IRP allocation in OutIn may fail
  QuietTimer     \* the write cache's timer fires, and its DPC runs, only while
                 \* no access holds the mutex

D == INSTANCE CommandStream

\* An access: by trapped instruction or by IOCTL, OUT or IN, relative address,
\* length in bytes and the bytes to write.
Access == [via : {"trap", "ioctl"}, dir : {"out", "in"}, adr : 0 .. 7,
           len : {1, 2, 4}, val : Seq(D!Byte)]

ASSUME PortIOAssumption ==
  /\ NoThread \notin Threads
  /\ Ops # {} /\ Ops \subseteq Access
  /\ \A o \in Ops : o.dir = "out" => Len(o.val) = o.len
  /\ MaxOps \in Nat
  /\ BufSize \in Nat /\ BufSize >= 5
  /\ Configs \subseteq SUBSET {"WriteCache", "ReadCache0", "ReadCache2"}
  /\ Initial \in D!Byte
  /\ AllocMayFail \in BOOLEAN /\ QuietTimer \in BOOLEAN

VARIABLES
  pc,      \* where each thread is in HandleOut, HandleIn or ProcessIOCTL
  op,      \* its access
  pos,     \* how many bytes of the access it has put into the buffer
  calls,   \* accesses started so far (bounds the model)
  mutex,   \* owner of X->bmutex
  bfill,   \* X->bfill
  buffer,  \* X->buffer
  ev,      \* X->ev is signalled ("green")
  flags,   \* X->uc.flags
  mirror,  \* X->mirror: valid registers (bits of mirror[0]) and their bytes
  timer,   \* X->wrcache.tmr is set
  dpc,     \* X->wrcache.dpc is queued
  jobs,    \* jobs submitted and not finished, in order of submission
  dev,     \* the adapter
  issued,  \* ghost: OUTs in the order the driver took them
  mark,    \* ghost: number of OUTs issued when the access began
  ret      \* the caller's IN buffer, <<>> for "all FFh"

driver == <<pc, op, pos, calls, mutex, flags, mirror, issued, mark>>
pipe   == <<jobs, dev, ret>>
cache  == <<timer, dpc>>
vars == <<pc, op, pos, calls, mutex, bfill, buffer, ev, flags, mirror, timer,
          dpc, jobs, dev, issued, mark, ret>>

\* A job (struct JOB): the user's IRP if any, length of the OUT and of the IN
\* transfer, the thread whose IN buffer is filled, and which of the two
\* transfers are still with the USB driver (irpw, irpr).
Job == [irpj : Threads \cup {NoThread}, ol : Nat, il : Nat,
        to : Threads \cup {NoThread}, w : BOOLEAN, r : BOOLEAN]

\* Address byte i of an access (ab(), then a++ per byte).
AddressByte(o, i) == o.adr + i

\* The command bytes an application passes to IOCTL_VLPT_OutIn for an access.
CommandBytes(o) ==
  IF o.dir = "out"
  THEN [i \in 1 .. 2 * o.len |-> IF i % 2 = 1 THEN o.adr + (i - 1) \div 2
                                              ELSE o.val[i \div 2]]
  ELSE [i \in 1 .. o.len |-> o.adr + (i - 1) + 16]

Writes(o) == [i \in 1 .. o.len |-> <<o.adr + i - 1, o.val[i]>>]

\* Fault: one too late.
FullLate == bfill >= BufSize

Full == bfill >= BufSize - 1
-----------------------------------------------------------------------------
TypeOK ==
  /\ pc \in [Threads -> {"idle", "lock", "wait", "room", "roomWait", "cache",
                         "address", "data", "send", "sendWait", "submit",
                         "pending", "unlock"}]
  /\ op \in [Threads -> Ops]
  /\ pos \in [Threads -> 0 .. 4]
  /\ calls \in [Threads -> 0 .. MaxOps]
  /\ mutex \in Threads \cup {NoThread}
  /\ bfill \in Nat
  /\ buffer \in [0 .. BufSize - 1 -> D!Byte]
  /\ ev \in BOOLEAN
  /\ flags \in Configs
  /\ mirror \in [valid : SUBSET {0, 2}, byte : [{0, 2} -> D!Byte]]
  /\ timer \in BOOLEAN /\ dpc \in BOOLEAN
  /\ jobs \in Seq(Job)
  /\ \A t \in Threads : pos[t] <= op[t].len

Init ==
  /\ pc = [t \in Threads |-> "idle"]
  /\ op \in [Threads -> {CHOOSE o \in Ops : TRUE}]
  /\ pos = [t \in Threads |-> 0]
  /\ calls = [t \in Threads |-> 0]
  /\ mutex = NoThread
  /\ bfill = 0
  /\ buffer = [i \in 0 .. BufSize - 1 |-> Initial]
  /\ ev = TRUE
  /\ flags \in Configs
  /\ mirror = [valid |-> {}, byte |-> [a \in {0, 2} |-> Initial]]
  /\ timer = FALSE /\ dpc = FALSE
  /\ jobs = <<>>
  /\ dev = D!Reset
  /\ issued = <<>>
  /\ mark = [t \in Threads |-> 0]
  /\ ret = [t \in Threads |-> <<>>]

Goto(t, label) == pc' = [pc EXCEPT ![t] = label]
-----------------------------------------------------------------------------
(* OutIn: both transfers are handed to the USB driver; a job of the driver's *)
(* own turns ev red.  Nothing to transfer is success at once.                *)

Submitted(irpj, ol, il, to) ==
  IF ol = 0 /\ il = 0
  THEN UNCHANGED <<jobs, ev>>
  ELSE /\ jobs' = Append(jobs, [irpj |-> irpj, ol |-> ol, il |-> il, to |-> to,
                                w |-> ol > 0, r |-> il > 0])
       /\ ev' = IF irpj = NoThread THEN FALSE ELSE ev

\* FlushBuffer with flag 4: kill the write cache's timer (a DPC already queued
\* stays queued), but only while the write cache is on.
CancelTimer == timer' = (timer /\ "WriteCache" \notin flags)

\* The sending part of FlushBuffer(ib, il, flags) for thread t: on to label ok,
\* or to label failed when OutIn could not allocate.
Flush(t, il, ok, failed) ==
  \/ /\ Submitted(NoThread, bfill, il, IF il > 0 THEN t ELSE NoThread)
     /\ Goto(t, ok)
  \/ /\ AllocMayFail /\ bfill + il > 0
     /\ UNCHANGED <<jobs, ev>>
     /\ Goto(t, failed)

\* The thread passes on without sending.
Skip(t, label) == Goto(t, label) /\ UNCHANGED <<timer, jobs, ev>>

Trapped(t, dir) == op[t].via = "trap" /\ op[t].dir = dir
-----------------------------------------------------------------------------
(* Entry of an access and the part all three routines share: X->bmutex, then *)
(* WaitForUrbComplete.                                                       *)

\* HandleIn presets the caller's buffer with FFh.
Call(t) ==
  /\ pc[t] = "idle" /\ calls[t] < MaxOps
  /\ \E o \in Ops : op' = [op EXCEPT ![t] = o]
  /\ Goto(t, "lock")
  /\ pos' = [pos EXCEPT ![t] = 0]
  /\ calls' = [calls EXCEPT ![t] = @ + 1]
  /\ ret' = [ret EXCEPT ![t] = <<>>]
  /\ mark' = [mark EXCEPT ![t] = Len(issued)]
  /\ UNCHANGED <<mutex, bfill, buffer, ev, flags, mirror, cache, jobs, dev,
                 issued>>

\* Fault: the mutex is not taken.
LockRegardless(t) ==
  /\ pc[t] = "lock" /\ (QuietTimer => ~dpc)
  /\ Goto(t, "wait")
  /\ UNCHANGED <<op, pos, calls, mutex, bfill, buffer, ev, flags, mirror, cache,
                 pipe, issued, mark>>

Lock(t) ==
  /\ pc[t] = "lock" /\ mutex = NoThread /\ (QuietTimer => ~dpc)
  /\ mutex' = t
  /\ Goto(t, "wait")
  /\ UNCHANGED <<op, pos, calls, bfill, buffer, ev, flags, mirror, cache, pipe,
                 issued, mark>>

\* WaitForUrbComplete, at the three places it is called from.
AfterWait(t) ==
  CASE pc[t] = "wait" -> "room"
    [] pc[t] = "roomWait" -> IF op[t].dir = "out" THEN "address" ELSE "cache"
    [] pc[t] = "sendWait" -> "unlock"

Wait(t) ==
  /\ pc[t] \in {"wait", "roomWait", "sendWait"} /\ ev
  /\ Goto(t, AfterWait(t))
  /\ UNCHANGED <<op, pos, calls, mutex, bfill, buffer, ev, flags, mirror, cache,
                 pipe, issued, mark>>

Unlock(t) ==
  /\ pc[t] = "unlock"
  /\ mutex' = NoThread
  /\ Goto(t, "idle")
  /\ UNCHANGED <<op, pos, calls, bfill, buffer, ev, flags, mirror, cache, pipe,
                 issued, mark>>
-----------------------------------------------------------------------------
(* HandleOut *)

\* FlushBuffer(NULL,0,6) before each byte.
OutRoom(t) ==
  /\ pc[t] = "room" /\ Trapped(t, "out")
  /\ \/ Full /\ CancelTimer /\ Flush(t, 0, "roomWait", "unlock")
     \/ ~Full /\ Skip(t, "address")
  /\ UNCHANGED <<op, pos, calls, mutex, bfill, buffer, flags, mirror, dpc, dev,
                 issued, mark, ret>>

\* Fault: a register that is mirrored already is not updated.
MirrorOnce(a, b) ==
  IF a \in {0, 2} \ mirror.valid
  THEN [valid |-> mirror.valid \cup {a}, byte |-> [mirror.byte EXCEPT ![a] = b]]
  ELSE mirror

MirrorWith(a, b) ==
  IF a \in {0, 2}
  THEN [valid |-> mirror.valid \cup {a}, byte |-> [mirror.byte EXCEPT ![a] = b]]
  ELSE mirror

\* The mirror is updated and the address byte appended ...
OutAddress(t) ==
  LET a == AddressByte(op[t], pos[t])  b == op[t].val[pos[t] + 1]
  IN  /\ pc[t] = "address"
      /\ mirror' = MirrorWith(a, b)
      /\ buffer' = [buffer EXCEPT ![bfill] = a]
      /\ bfill' = bfill + 1
      /\ Goto(t, "data")
      /\ UNCHANGED <<op, pos, calls, mutex, ev, flags, cache, pipe, issued, mark>>

\* ... and then the data byte.
OutData(t) ==
  LET a == AddressByte(op[t], pos[t])  b == op[t].val[pos[t] + 1]
  IN  /\ pc[t] = "data" /\ Trapped(t, "out")
      /\ buffer' = [buffer EXCEPT ![bfill] = b]
      /\ bfill' = bfill + 1
      /\ issued' = Append(issued, <<a, b>>)
      /\ pos' = [pos EXCEPT ![t] = @ + 1]
      /\ Goto(t, IF pos[t] + 1 < op[t].len THEN "room" ELSE "send")
      /\ UNCHANGED <<op, calls, mutex, ev, flags, mirror, cache, pipe, mark>>

\* Fault: the write cache's timer is not started.
OutSendHeld(t) ==
  /\ pc[t] = "send" /\ Trapped(t, "out") /\ "WriteCache" \in flags
  /\ Goto(t, "unlock")
  /\ UNCHANGED <<op, pos, calls, mutex, bfill, buffer, ev, flags, mirror, cache,
                 pipe, issued, mark>>

\* Hold the bytes for TimeOut, or FlushBuffer(NULL,0,3).
OutSend(t) ==
  /\ pc[t] = "send" /\ Trapped(t, "out")
  /\ IF "WriteCache" \in flags
     THEN timer' = TRUE /\ Goto(t, "unlock") /\ UNCHANGED <<jobs, ev>>
     ELSE Flush(t, 0, "sendWait", "unlock") /\ UNCHANGED timer
  /\ UNCHANGED <<op, pos, calls, mutex, bfill, buffer, flags, mirror, dpc, dev,
                 issued, mark, ret>>
-----------------------------------------------------------------------------
(* HandleIn *)

\* FlushBuffer(NULL,0,7) when the address bytes would not fit.
InRoom(t) ==
  /\ pc[t] = "room" /\ Trapped(t, "in")
  /\ \/ /\ op[t].len + bfill > BufSize
        /\ CancelTimer /\ Flush(t, 0, "roomWait", "unlock")
     \/ op[t].len + bfill <= BufSize /\ Skip(t, "cache")
  /\ UNCHANGED <<op, pos, calls, mutex, bfill, buffer, flags, mirror, dpc, dev,
                 issued, mark, ret>>

ReadCached(t) ==
  /\ op[t].len = 1 /\ op[t].adr \in mirror.valid
  /\ (IF op[t].adr = 0 THEN "ReadCache0" ELSE "ReadCache2") \in flags

\* mirror[2]|0xE0
FromMirror(a) == IF a = 2 THEN 224 + (mirror.byte[2] % 32) ELSE mirror.byte[a]

InCache(t) ==
  /\ pc[t] = "cache"
  /\ IF ReadCached(t)
     THEN /\ ret' = [ret EXCEPT ![t] = <<FromMirror(op[t].adr)>>]
          /\ Goto(t, "unlock")
     ELSE Goto(t, "data") /\ UNCHANGED ret
  /\ UNCHANGED <<op, pos, calls, mutex, bfill, buffer, ev, flags, mirror, cache,
                 jobs, dev, issued, mark>>

\* One IN command byte.
InAddress(t) ==
  /\ pc[t] = "data" /\ Trapped(t, "in")
  /\ buffer' = [buffer EXCEPT ![bfill] = AddressByte(op[t], pos[t]) + 16]
  /\ bfill' = bfill + 1
  /\ pos' = [pos EXCEPT ![t] = @ + 1]
  /\ Goto(t, IF pos[t] + 1 < op[t].len THEN "data" ELSE "send")
  /\ UNCHANGED <<op, calls, mutex, ev, flags, mirror, cache, pipe, issued, mark>>

\* FlushBuffer(ret,len,7).
InSend(t) ==
  /\ pc[t] = "send" /\ Trapped(t, "in")
  /\ CancelTimer
  /\ Flush(t, op[t].len, "sendWait", "unlock")
  /\ UNCHANGED <<op, pos, calls, mutex, bfill, buffer, flags, mirror, dpc, dev,
                 issued, mark, ret>>
-----------------------------------------------------------------------------
(* ProcessIOCTL, case IOCTL_VLPT_OutIn *)

\* Fault: the bytes held back are not sent first.
IoctlOvertakes(t) ==
  /\ pc[t] = "room" /\ op[t].via = "ioctl"
  /\ Skip(t, "submit")
  /\ UNCHANGED <<op, pos, calls, mutex, bfill, buffer, flags, mirror, dpc, dev,
                 issued, mark, ret>>

\* FlushBuffer(NULL,0,5): its result is ignored.
IoctlFlush(t) ==
  /\ pc[t] = "room" /\ op[t].via = "ioctl"
  /\ CancelTimer
  /\ Flush(t, 0, "submit", "submit")
  /\ UNCHANGED <<op, pos, calls, mutex, bfill, buffer, flags, mirror, dpc, dev,
                 issued, mark, ret>>

\* OutIn with the user's IRP; the call returns, the IRP is completed later.
IoctlSubmit(t) ==
  LET o == op[t]
  IN  /\ pc[t] = "submit"
      /\ mutex' = NoThread
      /\ \/ /\ Submitted(t, Len(CommandBytes(o)),
                         IF o.dir = "in" THEN o.len ELSE 0, t)
            /\ issued' = IF o.dir = "out" THEN issued \o Writes(o) ELSE issued
            /\ Goto(t, "pending")
         \/ AllocMayFail /\ Goto(t, "idle") /\ UNCHANGED <<jobs, ev, issued>>
      /\ UNCHANGED <<op, pos, calls, bfill, buffer, flags, mirror, cache, dev,
                     mark, ret>>

\* case IOCTL_VLPT_UserCfg: another configuration; FreeTraps empties the mirror.
\* No mutex is taken.
UserCfg(f) ==
  /\ f # flags
  /\ flags' = f
  /\ mirror' = [mirror EXCEPT !.valid = {}]
  /\ UNCHANGED <<pc, op, pos, calls, mutex, bfill, buffer, ev, cache, pipe,
                 issued, mark>>
-----------------------------------------------------------------------------
(* DISPATCH_LEVEL *)

TimerExpires ==
  /\ timer /\ (QuietTimer => mutex = NoThread)
  /\ timer' = FALSE /\ dpc' = TRUE
  /\ UNCHANGED <<driver, bfill, buffer, ev, pipe>>

\* FlushBuffer(NULL,0,1), without the mutex.
TimerDpc ==
  /\ dpc /\ (QuietTimer => mutex = NoThread)
  /\ dpc' = FALSE
  /\ \/ Submitted(NoThread, bfill, 0, NoThread)
     \/ AllocMayFail /\ UNCHANGED <<jobs, ev>>
  /\ UNCHANGED <<driver, bfill, buffer, timer, dev, ret>>

\* Fault: ev is not set.
FertigSilent(k) ==
  /\ jobs' = RemoveAt(jobs, k)
  /\ IF jobs[k].irpj = NoThread
     THEN bfill' = 0 /\ UNCHANGED <<pc, ev>>
     ELSE Goto(jobs[k].irpj, "idle") /\ UNCHANGED <<bfill, ev>>

\* OutInFertig when job k has only the transfer just completed: its IRP is
\* completed, or the buffer is declared empty and ev turns green.
Fertig(k) ==
  /\ jobs' = RemoveAt(jobs, k)
  /\ IF jobs[k].irpj = NoThread
     THEN bfill' = 0 /\ ev' = TRUE /\ UNCHANGED pc
     ELSE Goto(jobs[k].irpj, "idle") /\ UNCHANGED <<bfill, ev>>

\* Each pipe serves its transfers in the order of submission.
NextWrite(k) == jobs[k].w /\ \A i \in 1 .. k - 1 : ~jobs[i].w
NextRead(k)  == jobs[k].r /\ \A i \in 1 .. k - 1 : ~jobs[i].r

\* The bytes job k sends: those of a driver job are the ones in the buffer now.
Payload(k) ==
  IF jobs[k].irpj = NoThread
  THEN [i \in 1 .. jobs[k].ol |-> buffer[i - 1]]
  ELSE CommandBytes(op[jobs[k].irpj])

\* An OUT transfer reaches the adapter.
OutDone == \E k \in 1 .. Len(jobs) :
  /\ NextWrite(k)
  /\ dev' = D!Feed(dev, Payload(k))
  /\ IF jobs[k].r
     THEN jobs' = [jobs EXCEPT ![k].w = FALSE] /\ UNCHANGED <<pc, bfill, ev>>
     ELSE Fertig(k)
  /\ UNCHANGED <<op, pos, calls, mutex, buffer, flags, mirror, cache, issued,
                 mark, ret>>

\* An IN transfer gets its bytes.
InDone == \E k \in 1 .. Len(jobs) :
  LET n == jobs[k].il
  IN  /\ NextRead(k)
      /\ Len(dev.reply) >= n
      /\ ret' = [ret EXCEPT ![jobs[k].to] = SubSeq(dev.reply, 1, n)]
      /\ dev' = [dev EXCEPT !.reply = SubSeq(@, n + 1, Len(@))]
      /\ IF jobs[k].w
         THEN jobs' = [jobs EXCEPT ![k].r = FALSE] /\ UNCHANGED <<pc, bfill, ev>>
         ELSE Fertig(k)
      /\ UNCHANGED <<op, pos, calls, mutex, buffer, flags, mirror, cache, issued,
                     mark>>
-----------------------------------------------------------------------------
Thread(t) ==
  \/ Wait(t) \/ Unlock(t)
  \/ OutRoom(t) \/ OutAddress(t) \/ OutData(t) \/ OutSend(t)
  \/ InRoom(t) \/ InCache(t) \/ InAddress(t) \/ InSend(t)
  \/ IoctlFlush(t) \/ IoctlSubmit(t)

Next ==
  \/ \E t \in Threads : Call(t) \/ Lock(t) \/ Thread(t)
  \/ \E f \in Configs : UserCfg(f)
  \/ TimerExpires \/ TimerDpc
  \/ OutDone \/ InDone

Spec == Init /\ [][Next]_vars

\* Threads run, a contended mutex is granted in turn, timers fire, and the USB
\* driver and the adapter finish every transfer they can.
Fairness ==
  /\ \A t \in Threads : WF_vars(Thread(t)) /\ SF_vars(Lock(t))
  /\ WF_vars(TimerExpires) /\ WF_vars(TimerDpc)
  /\ WF_vars(OutDone) /\ WF_vars(InDone)

FairSpec == Spec /\ Fairness

\* The read caches are switched at any moment, the write cache before the first access.
WriteCacheStays == ("WriteCache" \in flags') <=> ("WriteCache" \in flags)
SteadySpec == Init /\ [][Next /\ WriteCacheStays]_vars /\ Fairness
-----------------------------------------------------------------------------
\* X->buffer never holds more bytes than it has room for, whatever a timer DPC
\* or a failed allocation left in it when the access began (the checks at
\* FlushBuffer and HandleIn are the only thing that keeps bfill in bounds).
BufferBound == bfill \in 0 .. BufSize

\* The ASSERTs of HandleOut and HandleIn (Usb2lpt.c:422, 477): an access finds
\* room for one more OUT command, and only whole OUT commands in the buffer.
AssertFill ==
  \A t \in Threads :
    pc[t] = "room" /\ pos[t] = 0 /\ op[t].via = "trap" => bfill < BufSize /\ bfill % 2 = 0

\* Nobody changes the buffer while a job that sends it is in work, no two jobs
\* send it, and ev is red exactly as long (the comment on X->ev): the bytes a
\* transfer delivers are the ones it was started with.
PrivateBuffer ==
  LET sending == {k \in 1 .. Len(jobs) : jobs[k].irpj = NoThread}
  IN  /\ \A i, k \in sending : i = k
      /\ ev <=> sending = {}
      /\ \A t \in Threads : pc[t] \in {"address", "data"} => sending = {}

\* The command buffer has one user at a time: who gets it finds it in order, and
\* its bytes go out as they were when the transfer was started.
BufferHasOneUser == AssertFill /\ PrivateBuffer

\* The driver, its two pipes and the adapter are a parallel port: each OUT is
\* executed once and in the order of issue, each IN sees the OUTs before it.
Mirrored == {a \in {0, 2} : (IF a = 0 THEN "ReadCache0" ELSE "ReadCache2")
                               \in UNION Configs}
Port == INSTANCE LptPort WITH Ports <- 0 .. 10, Cached <- Mirrored,
                              executed <- dev.executed
ActsAsPort == Port!Spec

\* Every access returns, and what the write cache holds back is sent in the end.
NothingHeldForEver ==
  /\ \A t \in Threads : pc[t] # "idle" ~> pc[t] = "idle"
  /\ bfill > 0 ~> bfill = 0
=============================================================================
