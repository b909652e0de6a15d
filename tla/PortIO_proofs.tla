--------------------------- MODULE PortIO_proofs ---------------------------
(***************************************************************************)
(* Proofs about PortIO.  X->buffer is filled by whichever thread owns      *)
(* X->bmutex, without a check at the place where a byte is stored: HandleOut *)
(* and HandleIn check once for a command or for all of an access, wait for *)
(* the transfer, and store afterwards.  What makes that enough is RoomLeft.*)
(***************************************************************************)
EXTENDS PortIO, SequenceTheorems, TLAPS

\* Where a thread is between KeWaitForSingleObject(&X->bmutex) and
\* KeReleaseMutex.
Owned == {"wait", "room", "roomWait", "cache", "address", "data", "send",
          "sendWait", "submit", "unlock"}

MutexOwned == \A t \in Threads : pc[t] \in Owned => mutex = t

\* The room thread t was promised is still there: at most the bytes it still
\* has to store are missing from the bound.
Room(t) ==
  /\ pc[t] \in {"lock", "wait"} => pos[t] = 0
  /\ pc[t] \in {"room", "roomWait", "address", "cache", "data"} =>
       /\ pos[t] < op[t].len
       /\ Trapped(t, "in") /\ pc[t] # "data" => pos[t] = 0
  /\ pc[t] \in {"roomWait", "address", "cache", "data"} => op[t].via = "trap"
  /\ pc[t] = "roomWait" => (ev => bfill = 0)
  /\ pc[t] = "address" => op[t].dir = "out" /\ bfill + 2 <= BufSize
  /\ pc[t] = "cache" => op[t].dir = "in" /\ bfill + op[t].len <= BufSize
  /\ pc[t] = "data" =>
       bfill + (IF op[t].dir = "out" THEN 1 ELSE op[t].len - pos[t]) <= BufSize

RoomLeft == \A t \in Threads : Room(t)

IInv == TypeOK /\ BufferBound /\ MutexOwned /\ RoomLeft
-----------------------------------------------------------------------------
(* Types of the data the actions build. *)

\* What PortIOAssumption says of one access.
LEMMA OpType ==
  ASSUME NEW o \in Ops
  PROVE  /\ o.via \in {"trap", "ioctl"} /\ o.dir \in {"out", "in"}
         /\ o.adr \in 0 .. 7 /\ o.len \in {1, 2, 4} /\ o.val \in Seq(D!Byte)
         /\ o.dir = "out" => Len(o.val) = o.len
  BY PortIOAssumption DEF PortIOAssumption, Access

\* The command bytes of an IOCTL access are a sequence (of any length).
LEMMA CommandBytesLen ==
  ASSUME NEW o \in Ops
  PROVE  Len(CommandBytes(o)) \in Nat
  <1>1. o.len \in Nat /\ 2 * o.len \in Nat
    BY OpType
  <1>2. CASE o.dir = "out"
    BY <1>1, <1>2 DEF CommandBytes
  <1>3. CASE o.dir # "out"
    BY <1>1, <1>3 DEF CommandBytes
  <1>. QED BY <1>2, <1>3

\* OutIn appends a well-formed job, and never turns ev green; a job of the
\* driver's own turns it red.
LEMMA SubmittedType ==
  ASSUME jobs \in Seq(Job), ev \in BOOLEAN,
         NEW irpj \in Threads \cup {NoThread}, NEW to \in Threads \cup {NoThread},
         NEW ol \in Nat, NEW il \in Nat, Submitted(irpj, ol, il, to)
  PROVE  /\ jobs' \in Seq(Job) /\ ev' \in BOOLEAN /\ (ev' => ev)
         /\ irpj = NoThread /\ ol + il > 0 => ~ev'
  <1>1. [irpj |-> irpj, ol |-> ol, il |-> il, to |-> to, w |-> ol > 0,
         r |-> il > 0] \in Job
    BY DEF Job
  <1>2. CASE ol = 0 /\ il = 0
    BY <1>2 DEF Submitted
  <1>3. CASE ~(ol = 0 /\ il = 0)
    BY <1>1, <1>3, AppendProperties DEF Submitted
  <1>. QED BY <1>2, <1>3

\* FlushBuffer: the same, and the thread moves to one of its two labels; to the
\* first one, when there was something to send, with ev red.
LEMMA FlushType ==
  ASSUME TypeOK, NEW t \in Threads, NEW il \in Nat, NEW ok, NEW failed,
         Flush(t, il, ok, failed)
  PROVE  /\ jobs' \in Seq(Job) /\ ev' \in BOOLEAN /\ (ev' => ev)
         /\ \/ pc' = [pc EXCEPT ![t] = failed]
            \/ pc' = [pc EXCEPT ![t] = ok] /\ (bfill + il > 0 => ~ev')
  <1>1. CASE Submitted(NoThread, bfill, il, IF il > 0 THEN t ELSE NoThread) /\ Goto(t, ok)
    <2>1. (IF il > 0 THEN t ELSE NoThread) \in Threads \cup {NoThread}
      OBVIOUS
    <2>2. /\ jobs' \in Seq(Job) /\ ev' \in BOOLEAN /\ (ev' => ev)
          /\ bfill + il > 0 => ~ev'
      BY <1>1, <2>1, SubmittedType DEF TypeOK
    <2>. QED BY <1>1, <2>2 DEF Goto
  <1>2. CASE UNCHANGED <<jobs, ev>> /\ Goto(t, failed)
    BY <1>2 DEF Goto, TypeOK
  <1>. QED BY <1>1, <1>2 DEF Flush

\* Removing a finished job leaves a sequence of jobs.
LEMMA RemoveAtType ==
  ASSUME NEW S, NEW s \in Seq(S), NEW k \in 1 .. Len(s)
  PROVE  RemoveAt(s, k) \in Seq(S)
  <1>1. SubSeq(s, 1, k - 1) \in Seq(S) /\ SubSeq(s, k + 1, Len(s)) \in Seq(S)
    BY SubSeqProperties, ElementOfSeq
  <1>. QED BY <1>1, ConcatProperties DEF RemoveAt

\* A completed driver job empties the buffer and turns ev green; any other
\* completion only returns an IOCTL.
LEMMA FertigType ==
  ASSUME TypeOK, NEW k \in 1 .. Len(jobs), Fertig(k)
  PROVE  /\ jobs' \in Seq(Job) /\ ev' \in BOOLEAN
         /\ \/ bfill' = 0 /\ pc' = pc
            \/ /\ bfill' = bfill /\ ev' = ev
               /\ \E t \in Threads : pc' = [pc EXCEPT ![t] = "idle"]
  <1>1. jobs' \in Seq(Job)
    BY RemoveAtType DEF TypeOK, Fertig
  <1>2. jobs[k] \in Job
    BY ElementOfSeq DEF TypeOK
  <1>3. jobs[k].irpj \in Threads \cup {NoThread}
    BY <1>2 DEF Job
  <1>. QED BY <1>1, <1>3 DEF Fertig, Goto, TypeOK
-----------------------------------------------------------------------------
(* The inductive invariant holds in the initial states. *)

LEMMA InitIInv == Init => IInv
  <1>. SUFFICES ASSUME Init PROVE IInv
    OBVIOUS
  <1>1. op \in [Threads -> Ops]
    <2>1. (CHOOSE o \in Ops : TRUE) \in Ops
      BY PortIOAssumption DEF PortIOAssumption
    <2>. QED BY <2>1 DEF Init
  <1>2. \A t \in Threads : pos[t] <= op[t].len
    BY <1>1, OpType DEF Init
  <1>3. TypeOK
    <2>1. jobs \in Seq(Job)
      BY EmptySeq DEF Init
    <2>2. mirror \in [valid : SUBSET {0, 2}, byte : [{0, 2} -> D!Byte]]
      BY PortIOAssumption DEF Init, PortIOAssumption
    <2>3. buffer \in [0 .. BufSize - 1 -> D!Byte]
      BY PortIOAssumption DEF Init, PortIOAssumption
    <2>4. /\ pc \in [Threads -> {"idle", "lock", "wait", "room", "roomWait",
                                 "cache", "address", "data", "send", "sendWait",
                                 "submit", "pending", "unlock"}]
          /\ pos \in [Threads -> 0 .. 4]
          /\ calls \in [Threads -> 0 .. MaxOps]
      BY PortIOAssumption DEF Init, PortIOAssumption
    <2>5. /\ mutex \in Threads \cup {NoThread} /\ bfill \in Nat /\ ev \in BOOLEAN
          /\ flags \in Configs /\ timer \in BOOLEAN /\ dpc \in BOOLEAN
      BY DEF Init
    <2>. QED BY <1>1, <1>2, <2>1, <2>2, <2>3, <2>4, <2>5 DEF TypeOK
  <1>. QED
    BY <1>3, PortIOAssumption
    DEF Init, IInv, BufferBound, MutexOwned, Owned, RoomLeft, Room, PortIOAssumption
-----------------------------------------------------------------------------
(* Steps of the thread that owns the mutex. *)

\* Such a step has to establish Room for its own thread only.
LEMMA OwnerStep ==
  ASSUME IInv, NEW t \in Threads, pc[t] \in Owned,
         NEW label, pc' = [pc EXCEPT ![t] = label],
         mutex' = mutex \/ label \notin Owned,
         op' = op, \A u \in Threads \ {t} : pos'[u] = pos[u], Room(t)'
  PROVE  MutexOwned' /\ RoomLeft'
  <1>1. \A u \in Threads \ {t} : pc'[u] = pc[u] /\ pc[u] \notin Owned
    BY DEF IInv, MutexOwned, TypeOK
  <1>2. pc'[t] = label
    BY DEF IInv, TypeOK
  <1>3. MutexOwned'
    BY <1>1, <1>2 DEF IInv, MutexOwned
  <1>4. \A u \in Threads \ {t} : Room(u)'
    BY <1>1 DEF IInv, RoomLeft, Room, Owned
  <1>. QED BY <1>3, <1>4 DEF RoomLeft
-----------------------------------------------------------------------------
(* One lemma per handler: its steps preserve the inductive invariant. *)

\* What the invariant says of one thread and its access.
LEMMA ThreadType ==
  ASSUME IInv, NEW t \in Threads
  PROVE  /\ op[t] \in Ops /\ pos[t] \in 0 .. 4 /\ pos[t] <= op[t].len
         /\ op[t].via \in {"trap", "ioctl"} /\ op[t].dir \in {"out", "in"}
         /\ op[t].adr \in 0 .. 7 /\ op[t].len \in {1, 2, 4}
         /\ op[t].val \in Seq(D!Byte)
         /\ op[t].dir = "out" => Len(op[t].val) = op[t].len
         /\ BufSize \in Nat /\ BufSize >= 5 /\ bfill \in 0 .. BufSize
         /\ Room(t)
  <1>1. op[t] \in Ops /\ pos[t] \in 0 .. 4 /\ pos[t] <= op[t].len
    BY DEF IInv, TypeOK
  <1>2. BufSize \in Nat /\ BufSize >= 5
    BY PortIOAssumption DEF PortIOAssumption
  <1>. QED BY <1>1, <1>2, OpType DEF IInv, BufferBound, RoomLeft

\* The command byte of an access is a byte, and of an OUT with its bit 4 clear.
LEMMA AddressType ==
  ASSUME IInv, NEW t \in Threads
  PROVE  AddressByte(op[t], pos[t]) \in 0 .. 11
  <1>1. op[t].adr \in 0 .. 7 /\ pos[t] \in 0 .. 4
    BY ThreadType
  <1>. QED BY <1>1 DEF AddressByte

\* One more byte of the access has been stored.
LEMMA NextPos ==
  ASSUME IInv, NEW t \in Threads, pos[t] < op[t].len,
         pos' = [pos EXCEPT ![t] = @ + 1], op' = op
  PROVE  pos' \in [Threads -> 0 .. 4] /\ \A u \in Threads : pos'[u] <= op'[u].len
  <1>1. pos[t] + 1 \in 0 .. 4 /\ pos[t] + 1 <= op[t].len
    BY ThreadType
  <1>. QED BY <1>1 DEF IInv, TypeOK

\* WaitForUrbComplete: green means the buffer is empty.
LEMMA WaitStep ==
  ASSUME IInv, NEW t \in Threads, Wait(t)
  PROVE  IInv'
  <1>1. pc[t] \in Owned /\ AfterWait(t) \in {"room", "address", "cache", "unlock"}
    BY DEF Wait, AfterWait, Owned
  <1>2. TypeOK'
    BY <1>1 DEF IInv, TypeOK, Wait, Goto, pipe, cache
  <1>3. BufferBound'
    BY DEF IInv, BufferBound, Wait
  <1>4. Room(t)'
    <2>1. pc'[t] = AfterWait(t) /\ UNCHANGED <<bfill, ev, op, pos>> /\ ev
      BY DEF Wait, Goto, IInv, TypeOK
    <2>2. CASE pc[t] = "wait"
      BY <2>1, <2>2, ThreadType DEF Room, AfterWait, Trapped
    <2>3. CASE pc[t] = "roomWait"
      BY <2>1, <2>3, ThreadType DEF Room, AfterWait, Trapped
    <2>4. CASE pc[t] = "sendWait"
      BY <2>1, <2>4, ThreadType DEF Room, AfterWait, Trapped
    <2>. QED BY <2>2, <2>3, <2>4 DEF Wait
  <1>5. MutexOwned' /\ RoomLeft'
    BY <1>1, <1>4, OwnerStep DEF Wait, Goto
  <1>. QED BY <1>2, <1>3, <1>5 DEF IInv

\* FlushBuffer on the way to room for one more command or access.
LEMMA OutRoomStep ==
  ASSUME IInv, NEW t \in Threads, OutRoom(t)
  PROVE  IInv'
  <1>0. pc[t] = "room" /\ Trapped(t, "out") /\ UNCHANGED <<op, pos, mutex, bfill>>
    BY DEF OutRoom
  <1>1. /\ jobs' \in Seq(Job) /\ ev' \in BOOLEAN /\ timer' \in BOOLEAN
        /\ \/ pc' = [pc EXCEPT ![t] = "unlock"]
           \/ pc' = [pc EXCEPT ![t] = "roomWait"] /\ ~ev'
           \/ pc' = [pc EXCEPT ![t] = "address"] /\ ~Full
    <2>1. CASE Full /\ CancelTimer /\ Flush(t, 0, "roomWait", "unlock")
      <3>1. bfill + 0 > 0
        BY <2>1, ThreadType DEF Full
      <3>2. timer' \in BOOLEAN
        BY <2>1 DEF CancelTimer, IInv, TypeOK
      <3>3. IInv => TypeOK
        BY DEF IInv
      <3>. QED BY <2>1, <3>1, <3>2, <3>3, FlushType
    <2>2. CASE ~Full /\ Skip(t, "address")
      BY <2>2 DEF Skip, Goto, IInv, TypeOK
    <2>. QED BY <2>1, <2>2 DEF OutRoom
  <1>2. TypeOK'
    BY <1>1 DEF IInv, TypeOK, OutRoom
  <1>3. BufferBound'
    BY <1>0 DEF IInv, BufferBound
  <1>4. Room(t)'
    BY <1>0, <1>1, ThreadType DEF Room, Trapped, Full, IInv, TypeOK
  <1>5. pc[t] \in Owned
    BY <1>0 DEF Owned
  <1>6. MutexOwned' /\ RoomLeft'
    BY <1>0, <1>1, <1>4, <1>5, OwnerStep
  <1>. QED BY <1>2, <1>3, <1>6 DEF IInv

\* One OUT command: the address byte needs two free bytes, the data byte one.
LEMMA OutAddressStep ==
  ASSUME IInv, NEW t \in Threads, OutAddress(t)
  PROVE  IInv'
  <1>0. /\ pc[t] = "address" /\ pc' = [pc EXCEPT ![t] = "data"]
        /\ bfill' = bfill + 1 /\ UNCHANGED <<op, pos, mutex, ev>>
    BY DEF OutAddress, Goto
  <1>1. Trapped(t, "out") /\ pos[t] < op[t].len /\ bfill + 2 <= BufSize
    BY <1>0, ThreadType DEF Room, Trapped
  <1>2. TypeOK'
    <2>1. AddressByte(op[t], pos[t]) \in D!Byte /\ op[t].val[pos[t] + 1] \in D!Byte
      <3>1. AddressByte(op[t], pos[t]) \in D!Byte
        BY AddressType DEF D!Byte
      <3>2. op[t].val[pos[t] + 1] \in D!Byte
        BY <1>1, ThreadType, ElementOfSeq DEF Trapped
      <3>. QED BY <3>1, <3>2
    <2>2. buffer' \in [0 .. BufSize - 1 -> D!Byte]
      BY <2>1 DEF IInv, TypeOK, OutAddress
    <2>3. mirror' \in [valid : SUBSET {0, 2}, byte : [{0, 2} -> D!Byte]]
      BY <2>1 DEF IInv, TypeOK, OutAddress, MirrorWith
    <2>. QED BY <1>0, <2>2, <2>3 DEF IInv, TypeOK, OutAddress, pipe, cache
  <1>3. BufferBound'
    BY <1>0, <1>1, ThreadType DEF BufferBound
  <1>4. Room(t)'
    BY <1>0, <1>1, ThreadType DEF Room, Trapped, IInv, TypeOK
  <1>5. pc[t] \in Owned
    BY <1>0 DEF Owned
  <1>6. MutexOwned' /\ RoomLeft'
    BY <1>0, <1>4, <1>5, OwnerStep
  <1>. QED BY <1>2, <1>3, <1>6 DEF IInv

LEMMA OutDataStep ==
  ASSUME IInv, NEW t \in Threads, OutData(t)
  PROVE  IInv'
  <1>0. /\ pc[t] = "data" /\ Trapped(t, "out")
        /\ pc' = [pc EXCEPT ![t] = IF pos[t] + 1 < op[t].len THEN "room" ELSE "send"]
        /\ pos' = [pos EXCEPT ![t] = @ + 1]
        /\ bfill' = bfill + 1 /\ UNCHANGED <<op, mutex, ev>>
    BY DEF OutData, Goto
  <1>1. pos[t] < op[t].len /\ bfill + 1 <= BufSize
    BY <1>0, ThreadType DEF Room, Trapped
  <1>2. TypeOK'
    <2>1. op[t].val[pos[t] + 1] \in D!Byte
      BY <1>0, <1>1, ThreadType, ElementOfSeq DEF Trapped
    <2>2. buffer' \in [0 .. BufSize - 1 -> D!Byte]
      BY <2>1 DEF IInv, TypeOK, OutData
    <2>3. pos' \in [Threads -> 0 .. 4] /\ \A u \in Threads : pos'[u] <= op'[u].len
      BY <1>0, <1>1, NextPos
    <2>. QED BY <1>0, <2>2, <2>3 DEF IInv, TypeOK, OutData, pipe, cache
  <1>3. BufferBound'
    BY <1>0, <1>1, ThreadType DEF BufferBound
  <1>4. Room(t)'
    BY <1>0, <1>1, ThreadType DEF Room, Trapped, IInv, TypeOK
  <1>5. pc[t] \in Owned /\ \A u \in Threads \ {t} : pos'[u] = pos[u]
    BY <1>0 DEF Owned, IInv, TypeOK
  <1>6. MutexOwned' /\ RoomLeft'
    BY <1>0, <1>4, <1>5, OwnerStep
  <1>. QED BY <1>2, <1>3, <1>6 DEF IInv

LEMMA InAddressStep ==
  ASSUME IInv, NEW t \in Threads, InAddress(t)
  PROVE  IInv'
  <1>0. /\ pc[t] = "data" /\ Trapped(t, "in")
        /\ pc' = [pc EXCEPT ![t] = IF pos[t] + 1 < op[t].len THEN "data" ELSE "send"]
        /\ pos' = [pos EXCEPT ![t] = @ + 1]
        /\ bfill' = bfill + 1 /\ UNCHANGED <<op, mutex, ev>>
    BY DEF InAddress, Goto
  <1>1. pos[t] < op[t].len /\ bfill + (op[t].len - pos[t]) <= BufSize
    BY <1>0, ThreadType DEF Room, Trapped
  <1>2. TypeOK'
    <2>1. AddressByte(op[t], pos[t]) + 16 \in D!Byte
      BY AddressType DEF D!Byte
    <2>2. buffer' \in [0 .. BufSize - 1 -> D!Byte]
      BY <2>1 DEF IInv, TypeOK, InAddress
    <2>3. pos' \in [Threads -> 0 .. 4] /\ \A u \in Threads : pos'[u] <= op'[u].len
      BY <1>0, <1>1, NextPos
    <2>. QED BY <1>0, <2>2, <2>3 DEF IInv, TypeOK, InAddress, pipe, cache
  <1>3. BufferBound'
    BY <1>0, <1>1, ThreadType DEF BufferBound
  <1>4. Room(t)'
    <2>1. /\ pc'[t] \in {"data", "send"} /\ pos'[t] = pos[t] + 1 /\ op'[t] = op[t]
          /\ pc'[t] = "data" => pos[t] + 1 < op[t].len
      BY <1>0 DEF IInv, TypeOK
    <2>2. op[t].via = "trap" /\ op[t].dir = "in" /\ op[t].dir # "out"
      BY <1>0 DEF Trapped
    <2>. QED BY <1>0, <1>1, <2>1, <2>2, ThreadType DEF Room, Trapped
  <1>5. pc[t] \in Owned /\ \A u \in Threads \ {t} : pos'[u] = pos[u]
    BY <1>0 DEF Owned, IInv, TypeOK
  <1>6. MutexOwned' /\ RoomLeft'
    BY <1>0, <1>4, <1>5, OwnerStep
  <1>. QED BY <1>2, <1>3, <1>6 DEF IInv

\* FlushBuffer before the address bytes of an IN.
LEMMA InRoomStep ==
  ASSUME IInv, NEW t \in Threads, InRoom(t)
  PROVE  IInv'
  <1>0. pc[t] = "room" /\ Trapped(t, "in") /\ UNCHANGED <<op, pos, mutex, bfill>>
    BY DEF InRoom
  <1>1. /\ jobs' \in Seq(Job) /\ ev' \in BOOLEAN /\ timer' \in BOOLEAN
        /\ \/ pc' = [pc EXCEPT ![t] = "unlock"]
           \/ pc' = [pc EXCEPT ![t] = "roomWait"] /\ ~ev'
           \/ pc' = [pc EXCEPT ![t] = "cache"] /\ op[t].len + bfill <= BufSize
    <2>1. CASE op[t].len + bfill > BufSize /\ CancelTimer /\ Flush(t, 0, "roomWait", "unlock")
      <3>1. bfill + 0 > 0
        BY <2>1, ThreadType
      <3>2. timer' \in BOOLEAN
        BY <2>1 DEF CancelTimer, IInv, TypeOK
      <3>3. IInv => TypeOK
        BY DEF IInv
      <3>. QED BY <2>1, <3>1, <3>2, <3>3, FlushType
    <2>2. CASE op[t].len + bfill <= BufSize /\ Skip(t, "cache")
      BY <2>2 DEF Skip, Goto, IInv, TypeOK
    <2>. QED BY <2>1, <2>2 DEF InRoom
  <1>2. TypeOK'
    BY <1>1 DEF IInv, TypeOK, InRoom
  <1>3. BufferBound'
    BY <1>0 DEF IInv, BufferBound
  <1>4. Room(t)'
    <2>1. op[t].via = "trap" /\ op[t].dir = "in" /\ pos[t] = 0 /\ 0 < op[t].len
      BY <1>0, ThreadType DEF Trapped, Room
    <2>2. /\ pc'[t] \in {"unlock", "roomWait", "cache"}
          /\ pc'[t] = "roomWait" => ~ev'
          /\ pc'[t] = "cache" => op[t].len + bfill <= BufSize
      BY <1>1 DEF IInv, TypeOK
    <2>3. op[t].len \in Int /\ bfill \in Int
      BY ThreadType
    <2>. QED BY <1>0, <2>1, <2>2, <2>3 DEF Room, Trapped
  <1>5. pc[t] \in Owned
    BY <1>0 DEF Owned
  <1>6. MutexOwned' /\ RoomLeft'
    BY <1>0, <1>1, <1>4, <1>5, OwnerStep
  <1>. QED BY <1>2, <1>3, <1>6 DEF IInv

LEMMA InCacheStep ==
  ASSUME IInv, NEW t \in Threads, InCache(t)
  PROVE  IInv'
  <1>0. /\ pc[t] = "cache" /\ UNCHANGED <<op, pos, mutex, bfill, ev>>
        /\ \/ pc' = [pc EXCEPT ![t] = "unlock"]
           \/ pc' = [pc EXCEPT ![t] = "data"]
    BY DEF InCache, Goto
  <1>2. TypeOK'
    BY <1>0 DEF IInv, TypeOK, InCache, cache
  <1>3. BufferBound'
    BY <1>0 DEF IInv, BufferBound
  <1>4. Room(t)'
    <2>1. /\ op[t].via = "trap" /\ op[t].dir = "in" /\ pos[t] = 0 /\ 0 < op[t].len
          /\ bfill + op[t].len <= BufSize
      BY <1>0, ThreadType DEF Trapped, Room
    <2>2. pc'[t] \in {"unlock", "data"}
      BY <1>0 DEF IInv, TypeOK
    <2>3. bfill + (op[t].len - pos[t]) <= BufSize
      BY <2>1, ThreadType
    <2>. QED BY <1>0, <2>1, <2>2, <2>3 DEF Room, Trapped
  <1>5. pc[t] \in Owned
    BY <1>0 DEF Owned
  <1>6. MutexOwned' /\ RoomLeft'
    BY <1>0, <1>4, <1>5, OwnerStep
  <1>. QED BY <1>2, <1>3, <1>6 DEF IInv

\* The last FlushBuffer of an access.
LEMMA SendStep ==
  ASSUME IInv, NEW t \in Threads, OutSend(t) \/ InSend(t)
  PROVE  IInv'
  <1>0. /\ pc[t] = "send" /\ UNCHANGED <<op, pos, mutex, bfill>>
        /\ UNCHANGED <<calls, buffer, flags, mirror, dpc>>
    BY DEF OutSend, InSend
  <1>1. /\ jobs' \in Seq(Job) /\ ev' \in BOOLEAN /\ timer' \in BOOLEAN
        /\ \/ pc' = [pc EXCEPT ![t] = "unlock"]
           \/ pc' = [pc EXCEPT ![t] = "sendWait"]
    <2>0. TypeOK /\ op[t].len \in Nat
      BY ThreadType DEF IInv
    <2>1. CASE /\ "WriteCache" \in flags /\ timer' = TRUE
               /\ Goto(t, "unlock") /\ UNCHANGED <<jobs, ev>>
      BY <2>0, <2>1 DEF Goto, TypeOK
    <2>2. CASE Flush(t, 0, "sendWait", "unlock") /\ UNCHANGED timer
      BY <2>0, <2>2, FlushType DEF TypeOK
    <2>3. CASE CancelTimer /\ Flush(t, op[t].len, "sendWait", "unlock")
      <3>1. timer' \in BOOLEAN
        BY <2>0, <2>3 DEF CancelTimer, TypeOK
      <3>. QED BY <2>0, <2>3, <3>1, FlushType
    <2>. QED BY <2>1, <2>2, <2>3 DEF OutSend, InSend
  <1>2. TypeOK'
    BY <1>0, <1>1 DEF IInv, TypeOK
  <1>3. BufferBound'
    BY <1>0 DEF IInv, BufferBound
  <1>4. Room(t)'
    BY <1>0, <1>1 DEF Room, IInv, TypeOK
  <1>5. pc[t] \in Owned
    BY <1>0 DEF Owned
  <1>6. MutexOwned' /\ RoomLeft'
    BY <1>0, <1>1, <1>4, <1>5, OwnerStep
  <1>. QED BY <1>2, <1>3, <1>6 DEF IInv

LEMMA UnlockStep ==
  ASSUME IInv, NEW t \in Threads, Unlock(t)
  PROVE  IInv'
  <1>0. pc[t] \in Owned /\ pc' = [pc EXCEPT ![t] = "idle"] /\ "idle" \notin Owned
    BY DEF Unlock, Goto, Owned
  <1>1. TypeOK'
    BY <1>0 DEF IInv, TypeOK, Unlock, pipe, cache
  <1>2. BufferBound'
    BY DEF IInv, BufferBound, Unlock
  <1>3. Room(t)'
    BY <1>0 DEF Room, IInv, TypeOK
  <1>4. MutexOwned' /\ RoomLeft'
    BY <1>0, <1>3, OwnerStep DEF Unlock
  <1>. QED BY <1>1, <1>2, <1>4 DEF IInv

\* ProcessIOCTL: neither of its steps stores a byte.
LEMMA IoctlFlushStep ==
  ASSUME IInv, NEW t \in Threads, IoctlFlush(t)
  PROVE  IInv'
  <1>0. /\ pc[t] = "room" /\ UNCHANGED <<op, pos, mutex, bfill>>
        /\ UNCHANGED <<calls, buffer, flags, mirror, dpc>>
    BY DEF IoctlFlush
  <1>1. /\ jobs' \in Seq(Job) /\ ev' \in BOOLEAN /\ timer' \in BOOLEAN
        /\ pc' = [pc EXCEPT ![t] = "submit"]
    <2>1. TypeOK /\ Flush(t, 0, "submit", "submit") /\ timer' \in BOOLEAN
      BY DEF IInv, IoctlFlush, CancelTimer, TypeOK
    <2>. QED BY <2>1, FlushType
  <1>2. TypeOK'
    BY <1>0, <1>1 DEF IInv, TypeOK
  <1>3. BufferBound'
    BY <1>0 DEF IInv, BufferBound
  <1>4. Room(t)'
    BY <1>0, <1>1 DEF Room, IInv, TypeOK
  <1>5. pc[t] \in Owned
    BY <1>0 DEF Owned
  <1>6. MutexOwned' /\ RoomLeft'
    BY <1>0, <1>1, <1>4, <1>5, OwnerStep
  <1>. QED BY <1>2, <1>3, <1>6 DEF IInv

LEMMA IoctlSubmitStep ==
  ASSUME IInv, NEW t \in Threads, IoctlSubmit(t)
  PROVE  IInv'
  <1>0. /\ pc[t] = "submit" /\ mutex' = NoThread
        /\ UNCHANGED <<op, pos, calls, bfill, buffer, flags, mirror, timer, dpc>>
    BY DEF IoctlSubmit, cache
  <1>1. /\ jobs' \in Seq(Job) /\ ev' \in BOOLEAN
        /\ \/ pc' = [pc EXCEPT ![t] = "pending"]
           \/ pc' = [pc EXCEPT ![t] = "idle"]
    <2>1. TypeOK /\ jobs \in Seq(Job) /\ ev \in BOOLEAN
      BY DEF IInv, TypeOK
    <2>2. CASE /\ Submitted(t, Len(CommandBytes(op[t])),
                            IF op[t].dir = "in" THEN op[t].len ELSE 0, t)
               /\ Goto(t, "pending")
      <3>1. Len(CommandBytes(op[t])) \in Nat
        BY ThreadType, CommandBytesLen
      <3>2. (IF op[t].dir = "in" THEN op[t].len ELSE 0) \in Nat
        BY ThreadType
      <3>. QED BY <2>1, <2>2, <3>1, <3>2, SubmittedType DEF Goto
    <2>3. CASE Goto(t, "idle") /\ UNCHANGED <<jobs, ev>>
      BY <2>1, <2>3 DEF Goto
    <2>. QED BY <2>2, <2>3 DEF IoctlSubmit
  <1>2. TypeOK'
    BY <1>0, <1>1 DEF IInv, TypeOK
  <1>3. BufferBound'
    BY <1>0 DEF IInv, BufferBound
  <1>4. Room(t)'
    BY <1>0, <1>1 DEF Room, IInv, TypeOK
  <1>5. pc[t] \in Owned /\ "pending" \notin Owned /\ "idle" \notin Owned
    BY <1>0 DEF Owned
  <1>6. MutexOwned' /\ RoomLeft'
    BY <1>0, <1>1, <1>4, <1>5, OwnerStep
  <1>. QED BY <1>2, <1>3, <1>6 DEF IInv

\* A call starts outside the mutex with nothing stored.
LEMMA CallStep ==
  ASSUME IInv, NEW t \in Threads, Call(t)
  PROVE  IInv'
  <1>0. /\ pc[t] = "idle" /\ pc' = [pc EXCEPT ![t] = "lock"]
        /\ calls[t] < MaxOps /\ calls' = [calls EXCEPT ![t] = @ + 1]
        /\ pos' = [pos EXCEPT ![t] = 0]
        /\ \E o \in Ops : op' = [op EXCEPT ![t] = o]
        /\ UNCHANGED <<mutex, bfill, buffer, ev, flags, mirror, timer, dpc, jobs>>
    BY DEF Call, Goto, cache
  <1>1. op' \in [Threads -> Ops] /\ \A u \in Threads \ {t} : op'[u] = op[u]
    BY <1>0 DEF IInv, TypeOK
  <1>2. \A u \in Threads : pos'[u] <= op'[u].len
    <2>1. pos'[t] = 0 /\ 0 <= op'[t].len
      <3>1. op'[t] \in Ops
        BY <1>1
      <3>2. op'[t].len \in {1, 2, 4}
        BY <3>1, OpType
      <3>. QED BY <1>0, <3>2 DEF IInv, TypeOK
    <2>2. \A u \in Threads \ {t} : pos'[u] = pos[u] /\ pos[u] <= op[u].len
      BY <1>0 DEF IInv, TypeOK
    <2>. QED BY <1>1, <2>1, <2>2
  <1>3. calls' \in [Threads -> 0 .. MaxOps]
    BY <1>0, PortIOAssumption DEF PortIOAssumption, IInv, TypeOK
  <1>4. TypeOK'
    BY <1>0, <1>1, <1>2, <1>3 DEF IInv, TypeOK
  <1>5. BufferBound'
    BY <1>0 DEF IInv, BufferBound
  <1>6. MutexOwned'
    BY <1>0 DEF IInv, MutexOwned, TypeOK, Owned
  <1>7. RoomLeft'
    <2>1. Room(t)'
      BY <1>0 DEF Room, IInv, TypeOK
    <2>2. \A u \in Threads \ {t} : Room(u)'
      BY <1>0, <1>1 DEF IInv, RoomLeft, Room, Trapped, TypeOK
    <2>. QED BY <2>1, <2>2 DEF RoomLeft
  <1>. QED BY <1>4, <1>5, <1>6, <1>7 DEF IInv

\* The mutex is granted only when no thread is between Lock and Unlock.
LEMMA LockStep ==
  ASSUME IInv, NEW t \in Threads, Lock(t)
  PROVE  IInv'
  <1>0. /\ pc[t] = "lock" /\ mutex = NoThread /\ mutex' = t
        /\ pc' = [pc EXCEPT ![t] = "wait"]
        /\ UNCHANGED <<op, pos, calls, bfill, buffer, ev, flags, mirror, timer,
                       dpc, jobs>>
    BY DEF Lock, Goto, pipe, cache
  <1>1. TypeOK'
    BY <1>0 DEF IInv, TypeOK
  <1>2. BufferBound'
    BY <1>0 DEF IInv, BufferBound
  <1>3. \A u \in Threads : pc[u] \notin Owned
    BY <1>0, PortIOAssumption DEF IInv, MutexOwned, PortIOAssumption
  <1>4. MutexOwned'
    BY <1>0, <1>3 DEF IInv, MutexOwned, TypeOK
  <1>5. Room(t)'
    BY <1>0, ThreadType DEF Room, IInv, TypeOK
  <1>6. \A u \in Threads \ {t} : Room(u)'
    BY <1>0 DEF IInv, RoomLeft, Room, Trapped, TypeOK
  <1>. QED BY <1>1, <1>2, <1>4, <1>5, <1>6 DEF IInv, RoomLeft
-----------------------------------------------------------------------------
(* Steps at DISPATCH_LEVEL come between any two steps of the owner. *)

\* They may empty the buffer or turn ev red, and never the other way round.
LEMMA DispatchStep ==
  ASSUME IInv, UNCHANGED <<op, pos, mutex>>, TypeOK',
         \/ bfill' = 0 /\ pc' = pc
         \/ /\ bfill' = bfill /\ (ev' => ev)
            /\ pc' = pc \/ \E t \in Threads : pc' = [pc EXCEPT ![t] = "idle"]
  PROVE  IInv'
  <1>1. \A u \in Threads : pc'[u] = pc[u] \/ pc'[u] = "idle"
    BY DEF IInv, TypeOK
  <1>2. BufferBound'
    BY PortIOAssumption DEF IInv, BufferBound, PortIOAssumption
  <1>3. MutexOwned'
    BY <1>1 DEF IInv, MutexOwned, Owned
  <1>4. ASSUME NEW u \in Threads PROVE Room(u)'
    <2>1. CASE pc'[u] = "idle"
      BY <2>1 DEF Room
    <2>2. CASE pc'[u] = pc[u] /\ bfill' = bfill /\ (ev' => ev)
      BY <2>2, ThreadType DEF Room, Trapped
    <2>3. CASE pc'[u] = pc[u] /\ bfill' = 0
      <3>1. op[u].len <= BufSize /\ op[u].len - pos[u] <= BufSize /\ 2 <= BufSize
        BY ThreadType
      <3>. QED BY <2>3, <3>1, ThreadType DEF Room, Trapped
    <2>. QED BY <1>1, <2>1, <2>2, <2>3
  <1>. QED BY <1>2, <1>3, <1>4 DEF IInv, RoomLeft

LEMMA TimerStep ==
  ASSUME IInv, TimerExpires \/ TimerDpc
  PROVE  IInv'
  <1>1. /\ UNCHANGED <<pc, op, pos, calls, mutex, bfill, buffer, flags, mirror>>
        /\ timer' \in BOOLEAN /\ dpc' \in BOOLEAN
    BY DEF TimerExpires, TimerDpc, driver, IInv, TypeOK
  <1>2. jobs' \in Seq(Job) /\ ev' \in BOOLEAN /\ (ev' => ev)
    <2>1. TypeOK /\ jobs \in Seq(Job) /\ ev \in BOOLEAN /\ bfill \in Nat
      BY DEF IInv, TypeOK
    <2>2. CASE Submitted(NoThread, bfill, 0, NoThread)
      BY <2>1, <2>2, SubmittedType
    <2>3. CASE UNCHANGED <<jobs, ev>>
      BY <2>1, <2>3
    <2>. QED BY <2>2, <2>3 DEF TimerExpires, TimerDpc, pipe
  <1>3. TypeOK'
    BY <1>1, <1>2 DEF IInv, TypeOK
  <1>. QED BY <1>1, <1>2, <1>3, DispatchStep

\* One transfer of job k completes; the other one may still be out.
LEMMA DoneStep ==
  ASSUME IInv, OutDone \/ InDone
  PROVE  IInv'
  <1>1. UNCHANGED <<op, pos, calls, mutex, buffer, flags, mirror, timer, dpc>>
    BY DEF OutDone, InDone, cache
  <1>2. PICK k \in 1 .. Len(jobs) :
          \/ Fertig(k)
          \/ jobs' = [jobs EXCEPT ![k].w = FALSE] /\ UNCHANGED <<pc, bfill, ev>>
          \/ jobs' = [jobs EXCEPT ![k].r = FALSE] /\ UNCHANGED <<pc, bfill, ev>>
    BY DEF OutDone, InDone
  <1>3. TypeOK /\ jobs \in Seq(Job)
    BY DEF IInv, TypeOK
  <1>4. CASE Fertig(k)
    <2>1. /\ jobs' \in Seq(Job) /\ ev' \in BOOLEAN
          /\ \/ bfill' = 0 /\ pc' = pc
             \/ /\ bfill' = bfill /\ ev' = ev
                /\ \E t \in Threads : pc' = [pc EXCEPT ![t] = "idle"]
      BY <1>3, <1>4, FertigType
    <2>2. TypeOK'
      BY <1>1, <1>3, <2>1 DEF TypeOK
    <2>. QED BY <1>1, <2>1, <2>2, DispatchStep
  <1>5. CASE /\ UNCHANGED <<pc, bfill, ev>>
             /\ \/ jobs' = [jobs EXCEPT ![k].w = FALSE]
                \/ jobs' = [jobs EXCEPT ![k].r = FALSE]
    <2>1. jobs[k] \in Job
      BY <1>3, ElementOfSeq
    <2>2. [jobs[k] EXCEPT !.w = FALSE] \in Job /\ [jobs[k] EXCEPT !.r = FALSE] \in Job
      BY <2>1 DEF Job
    <2>3. PICK j \in Job : jobs' = [jobs EXCEPT ![k] = j]
      BY <1>5, <2>2
    <2>4. jobs' \in Seq(Job)
      BY <1>3, <2>3, ExceptSeq
    <2>5. TypeOK'
      BY <1>1, <1>3, <1>5, <2>4 DEF TypeOK
    <2>. QED BY <1>1, <1>5, <2>5, DispatchStep
  <1>. QED BY <1>2, <1>4, <1>5

\* Another configuration empties the mirror and touches nothing else.
LEMMA UserCfgStep ==
  ASSUME IInv, NEW f \in Configs, UserCfg(f)
  PROVE  IInv'
  <1>1. /\ UNCHANGED <<pc, op, pos, calls, mutex, bfill, buffer, ev, timer, dpc, jobs>>
        /\ flags' = f /\ mirror' = [mirror EXCEPT !.valid = {}]
    BY DEF UserCfg, cache, pipe
  <1>2. TypeOK'
    BY <1>1 DEF IInv, TypeOK
  <1>. QED BY <1>1, <1>2, DispatchStep
-----------------------------------------------------------------------------
LEMMA NextIInv == IInv /\ [Next]_vars => IInv'
  <1>. SUFFICES ASSUME IInv, [Next]_vars PROVE IInv'
    OBVIOUS
  <1>1. ASSUME NEW t \in Threads, Call(t) \/ Lock(t) PROVE IInv'
    BY <1>1, CallStep, LockStep
  <1>2. ASSUME NEW t \in Threads, Thread(t) PROVE IInv'
    BY <1>2, WaitStep, UnlockStep, OutRoomStep, OutAddressStep, OutDataStep,
       InRoomStep, InCacheStep, InAddressStep, SendStep, IoctlFlushStep,
       IoctlSubmitStep DEF Thread
  <1>3. ASSUME NEW f \in Configs, UserCfg(f) PROVE IInv'
    BY <1>3, UserCfgStep
  <1>4. CASE TimerExpires \/ TimerDpc
    BY <1>4, TimerStep
  <1>5. CASE OutDone \/ InDone
    BY <1>5, DoneStep
  <1>6. CASE UNCHANGED vars
    BY <1>6 DEF vars, IInv, TypeOK, BufferBound, MutexOwned, RoomLeft, Room, Trapped
  <1>. QED BY <1>1, <1>2, <1>3, <1>4, <1>5, <1>6 DEF Next

THEOREM InductiveInvariant == Spec => []IInv
  BY InitIInv, NextIInv, PTL DEF Spec

\* Whatever threads, DPC and completions do in whatever order, and whichever
\* allocations fail, every variable of the I/O path keeps its type; in
\* particular an access never stores more bytes than its length.
THEOREM TypeCorrect == Spec => []TypeOK
  <1>1. IInv => TypeOK
    BY DEF IInv
  <1>. QED BY <1>1, InductiveInvariant, PTL

\* HandleOut and HandleIn never write past X->buffer, for any number of threads,
\* any accesses and any buffer of five bytes or more, with the write cache on or
\* off, the timer DPC at any moment and any allocation failing.
THEOREM BufferNeverOverflows == Spec => []BufferBound
  <1>1. IInv => BufferBound
    BY DEF IInv
  <1>. QED BY <1>1, InductiveInvariant, PTL
-----------------------------------------------------------------------------
(* The command buffer has one user at a time.  The mutex alone does not make *)
(* it so: the timer's DPC sends the buffer without it.  What keeps the DPC   *)
(* away from a buffer in use is that the timer is set only while nothing is  *)
(* sent, and cancelled by whoever sends.                                     *)

Even(n) == n % 2 = 0

\* A thread has an unfinished command, or the address bytes of an IN, in the buffer.
Storing(t) == pc[t] = "data" \/ (pc[t] = "send" /\ op[t].dir = "in")

\* At most one job of each IOCTL, which waits for it, and one of the driver's own.
OneJobEach ==
  /\ \A i, k \in 1 .. Len(jobs) : jobs[i].irpj = jobs[k].irpj => i = k
  /\ \A k \in 1 .. Len(jobs) : jobs[k].irpj # NoThread => pc[jobs[k].irpj] = "pending"

\* ev tells whether the buffer is being sent; the owner stores while it is not.
Signal ==
  /\ ev <=> \A k \in 1 .. Len(jobs) : jobs[k].irpj # NoThread
  /\ \A t \in Threads : pc[t] \in {"room", "address", "cache", "data", "send"} => ev

\* The write cache holds bytes only while nothing is sent.
Held ==
  /\ timer \/ dpc => ev
  /\ timer => ~dpc /\ "WriteCache" \in flags
  /\ dpc => mutex = NoThread

\* A buffer that may be filled has whole OUT commands only.
WholeCommands ==
  /\ ev /\ (\A t \in Threads : ~Storing(t)) => Even(bfill)
  /\ \A t \in Threads : pc[t] = "data" /\ op[t].dir = "out" => Even(bfill + 1)

OneUser == OneJobEach /\ Signal /\ Held /\ WholeCommands

\* The timer is heeded and cancelled as the driver means it to be, allocations
\* succeed, and the buffer has 63 bytes, or another odd number: room for whole
\* OUT commands is room for the address byte of an IN.
OneUserAssumption == QuietTimer /\ ~AllocMayFail /\ BufSize % 2 = 1

LEMMA EvenNext ==
  ASSUME NEW n \in Nat
  PROVE  Even(0) /\ (Even(n) => Even(n + 1 + 1))
  BY DEF Even

\* What RemoveAt leaves, place by place.
LEMMA RemoveAtElements ==
  ASSUME NEW S, NEW s \in Seq(S), NEW k \in 1 .. Len(s)
  PROVE  /\ Len(RemoveAt(s, k)) = Len(s) - 1
         /\ \A i \in 1 .. Len(s) - 1 :
              RemoveAt(s, k)[i] = IF i < k THEN s[i] ELSE s[i + 1]
  <1>. DEFINE a == SubSeq(s, 1, k - 1)  b == SubSeq(s, k + 1, Len(s))
  <1>1. a \in Seq(S) /\ Len(a) = k - 1 /\ \A i \in 1 .. k - 1 : a[i] = s[i]
    BY SubSeqProperties, ElementOfSeq
  <1>2. b \in Seq(S) /\ Len(b) = Len(s) - k /\ \A i \in 1 .. Len(s) - k : b[i] = s[k + i]
    BY SubSeqProperties, ElementOfSeq
  <1>3. RemoveAt(s, k) = a \o b
    BY DEF RemoveAt
  <1>. HIDE DEF a, b
  <1>4. /\ Len(a \o b) = Len(a) + Len(b)
        /\ \A i \in 1 .. Len(a) + Len(b) :
             (a \o b)[i] = IF i <= Len(a) THEN a[i] ELSE b[i - Len(a)]
    BY <1>1, <1>2, ConcatProperties
  <1>5. Len(s) \in Nat
    OBVIOUS
  <1>6. ASSUME NEW i \in 1 .. Len(s) - 1
        PROVE  (a \o b)[i] = IF i < k THEN s[i] ELSE s[i + 1]
    <2>1. CASE i < k
      BY <1>1, <1>2, <1>4, <1>5, <1>6, <2>1
    <2>2. CASE ~(i < k)
      <3>1. i - Len(a) \in 1 .. Len(s) - k /\ k + (i - Len(a)) = i + 1 /\ ~(i <= Len(a))
        BY <1>1, <1>5, <1>6, <2>2
      <3>2. (a \o b)[i] = b[i - Len(a)]
        BY <1>1, <1>2, <1>4, <1>5, <1>6, <3>1
      <3>3. b[i - Len(a)] = s[i + 1]
        BY <1>2, <3>1
      <3>. QED BY <2>2, <3>2, <3>3
    <2>. QED BY <2>1, <2>2
  <1>. QED BY <1>1, <1>2, <1>3, <1>4, <1>5, <1>6

\* Only the mutex's owner stores.
LEMMA Alone ==
  ASSUME IInv, NEW t \in Threads, pc[t] \in Owned
  PROVE  /\ mutex = t /\ mutex # NoThread /\ \A u \in Threads \ {t} : pc[u] \notin Owned
  BY PortIOAssumption DEF IInv, MutexOwned, PortIOAssumption

LEMMA OwnerWhole ==
  ASSUME IInv, NEW t \in Threads, pc[t] \in Owned, NEW label,
         pc' = [pc EXCEPT ![t] = label], op' = op,
         ev' /\ label # "data" /\ ~(label = "send" /\ op[t].dir = "in") => Even(bfill'),
         label = "data" /\ op[t].dir = "out" => Even(bfill' + 1)
  PROVE  WholeCommands'
  <1>1. pc'[t] = label /\ \A u \in Threads \ {t} : pc'[u] = pc[u] /\ pc[u] \notin Owned
    BY Alone DEF IInv, TypeOK
  <1>. QED BY <1>1 DEF WholeCommands, Storing, Owned

LEMMA JobOf ==
  ASSUME IInv, NEW k \in 1 .. Len(jobs)
  PROVE  jobs[k] \in Job /\ jobs[k].irpj \in Threads \cup {NoThread}
  <1>1. jobs[k] \in Job
    BY ElementOfSeq DEF IInv, TypeOK
  <1>. QED BY <1>1 DEF Job

\* A step of the owner that submits nothing.
LEMMA OwnerKeeps ==
  ASSUME IInv, OneUser, NEW t \in Threads, pc[t] \in Owned, NEW label,
         pc' = [pc EXCEPT ![t] = label], UNCHANGED <<jobs, ev, dpc, flags, op>>,
         timer' => timer \/ (ev /\ "WriteCache" \in flags),
         label \in {"room", "address", "cache", "data", "send"} => ev,
         ev /\ label # "data" /\ ~(label = "send" /\ op[t].dir = "in") => Even(bfill'),
         label = "data" /\ op[t].dir = "out" => Even(bfill' + 1)
  PROVE  OneUser'
  <1>1. pc'[t] = label /\ \A u \in Threads \ {t} : pc'[u] = pc[u] /\ pc[u] \notin Owned
    BY Alone DEF IInv, TypeOK
  <1>2. OneJobEach'
    <2>1. ASSUME NEW k \in 1 .. Len(jobs), jobs[k].irpj # NoThread
          PROVE  pc'[jobs[k].irpj] = "pending"
      <3>1. pc[jobs[k].irpj] = "pending" /\ jobs[k].irpj # t
        BY <2>1 DEF OneUser, OneJobEach, Owned
      <3>2. jobs[k].irpj \in Threads
        BY <2>1, JobOf
      <3>. QED BY <1>1, <3>1, <3>2
    <2>. QED BY <2>1 DEF OneUser, OneJobEach
  <1>3. Signal'
    BY <1>1 DEF OneUser, Signal
  <1>4. Held'
    BY Alone DEF OneUser, Held
  <1>5. WholeCommands'
    BY OwnerWhole
  <1>. QED BY <1>2, <1>3, <1>4, <1>5 DEF OneUser

LEMMA SubmittedJob ==
  ASSUME NEW irpj \in Threads \cup {NoThread}, NEW to \in Threads \cup {NoThread},
         NEW ol \in Nat, NEW il \in Nat, ol > 0, Submitted(irpj, ol, il, to)
  PROVE  \E job \in Job : /\ jobs' = Append(jobs, job) /\ job.irpj = irpj
                          /\ irpj = NoThread => ~ev'
  <1>. DEFINE job == [irpj |-> irpj, ol |-> ol, il |-> il, to |-> to, w |-> ol > 0, r |-> il > 0]
  <1>1. job \in Job /\ job.irpj = irpj
    BY DEF Job
  <1>2. ~(ol = 0 /\ il = 0)
    OBVIOUS
  <1>3. jobs' = Append(jobs, job) /\ ev' = IF irpj = NoThread THEN FALSE ELSE ev
    BY <1>2 DEF Submitted
  <1>. QED BY <1>1, <1>3

\* One more job in work.
LEMMA AppendJob ==
  ASSUME IInv, OneUser, NEW job \in Job, jobs' = Append(jobs, job),
         \A k \in 1 .. Len(jobs) : jobs[k].irpj # job.irpj,
         \A u \in Threads : pc[u] = "pending" => pc'[u] = "pending",
         job.irpj # NoThread => pc'[job.irpj] = "pending"
  PROVE  /\ OneJobEach'
         /\ (\A k \in 1 .. Len(jobs') : jobs'[k].irpj # NoThread) <=>
              (\A k \in 1 .. Len(jobs) : jobs[k].irpj # NoThread) /\ job.irpj # NoThread
  <1>1. jobs \in Seq(Job) /\ Len(jobs) \in Nat
    BY DEF IInv, TypeOK
  <1>2. /\ Len(jobs') = Len(jobs) + 1 /\ jobs'[Len(jobs) + 1] = job
        /\ \A k \in 1 .. Len(jobs) : jobs'[k] = jobs[k]
    BY <1>1, AppendProperties
  <1>3. \A k \in 1 .. Len(jobs) : jobs[k].irpj \in Threads \cup {NoThread}
    BY JobOf
  <1>. QED BY <1>1, <1>2, <1>3 DEF OneUser, OneJobEach

\* FlushBuffer, with the timer cancelled or not running.
LEMMA FlushKeeps ==
  ASSUME OneUserAssumption, IInv, OneUser, NEW t \in Threads, pc[t] \in {"room", "send"},
         NEW il \in Nat, NEW ok \in {"roomWait", "sendWait", "submit"}, NEW failed,
         Flush(t, il, ok, failed), ~timer', UNCHANGED <<op, mutex, bfill, flags, dpc>>
  PROVE  OneUser'
  <1>1. /\ Submitted(NoThread, bfill, il, IF il > 0 THEN t ELSE NoThread)
        /\ pc' = [pc EXCEPT ![t] = ok]
    BY DEF Flush, OneUserAssumption, Goto
  <1>2. pc[t] \in Owned /\ ev /\ bfill \in Nat /\ ~dpc
    BY Alone DEF Owned, OneUser, Signal, IInv, TypeOK, Held
  <1>3. \A k \in 1 .. Len(jobs) : jobs[k].irpj # NoThread
    BY <1>2 DEF OneUser, Signal
  <1>4. CASE bfill = 0 /\ il = 0
    <2>1. UNCHANGED <<jobs, ev>>
      BY <1>1, <1>4 DEF Submitted
    <2>. QED BY <1>1, <1>2, <1>4, <2>1, EvenNext, OwnerKeeps
  <1>5. CASE ~(bfill = 0 /\ il = 0)
    <2>. DEFINE job == [irpj |-> NoThread, ol |-> bfill, il |-> il,
                        to |-> IF il > 0 THEN t ELSE NoThread, w |-> bfill > 0, r |-> il > 0]
    <2>1. jobs' = Append(jobs, job) /\ ~ev'
      BY <1>1, <1>5 DEF Submitted
    <2>2. job \in Job /\ job.irpj = NoThread
      BY <1>2 DEF Job
    <2>. HIDE DEF job
    <2>3. pc'[t] = ok /\ \A u \in Threads \ {t} : pc'[u] = pc[u] /\ pc[u] \notin Owned
      BY <1>1, <1>2, Alone DEF IInv, TypeOK
    <2>4. \A u \in Threads : pc[u] = "pending" => pc'[u] = "pending"
      BY <2>3
    <2>5. OneJobEach' /\ ~(\A k \in 1 .. Len(jobs') : jobs'[k].irpj # NoThread)
      BY <1>3, <2>1, <2>2, <2>4, AppendJob
    <2>6. Signal'
      BY <2>1, <2>3, <2>5 DEF Signal, Owned
    <2>7. Held'
      BY <1>2 DEF Held
    <2>8. WholeCommands'
      BY <1>1, <1>2, <2>1, OwnerWhole
    <2>. QED BY <2>5, <2>6, <2>7, <2>8 DEF OneUser
  <1>. QED BY <1>4, <1>5

\* The user's job does not touch the buffer.
LEMMA IoctlSubmitKeeps ==
  ASSUME OneUserAssumption, IInv, OneUser, NEW t \in Threads, IoctlSubmit(t)
  PROVE  OneUser'
  <1>. DEFINE ol == Len(CommandBytes(op[t]))
              il == IF op[t].dir = "in" THEN op[t].len ELSE 0
              job == [irpj |-> t, ol |-> ol, il |-> il, to |-> t, w |-> ol > 0, r |-> il > 0]
  <1>1. ol \in Nat /\ il \in Nat
    BY ThreadType, CommandBytesLen
  <1>2. /\ pc[t] = "submit" /\ pc' = [pc EXCEPT ![t] = "pending"] /\ Submitted(t, ol, il, t)
        /\ UNCHANGED <<op, bfill, flags, timer, dpc>> /\ mutex' = NoThread
    BY DEF IoctlSubmit, OneUserAssumption, Goto, cache
  <1>3. t # NoThread
    BY PortIOAssumption DEF PortIOAssumption
  <1>4. (UNCHANGED <<jobs, ev>>) \/ (jobs' = Append(jobs, job) /\ ev' = ev)
    BY <1>2, <1>3 DEF Submitted
  <1>5. job \in Job /\ job.irpj = t
    BY <1>1 DEF Job
  <1>. HIDE DEF job, ol, il
  <1>6. pc[t] \in Owned /\ ~Storing(t) /\ \A u \in Threads \ {t} : ~Storing(u)
    BY <1>2, Alone DEF Owned, Storing
  <1>7. ev => Even(bfill)
    BY <1>6 DEF OneUser, WholeCommands
  <1>8. CASE UNCHANGED <<jobs, ev>>
    BY <1>2, <1>6, <1>7, <1>8, OwnerKeeps
  <1>9. CASE jobs' = Append(jobs, job) /\ ev' = ev
    <2>1. pc'[t] = "pending" /\ \A u \in Threads \ {t} : pc'[u] = pc[u]
      BY <1>2 DEF IInv, TypeOK
    <2>2. \A k \in 1 .. Len(jobs) : jobs[k].irpj # t
      BY <1>2, <1>3 DEF OneUser, OneJobEach
    <2>3. \A u \in Threads : pc[u] = "pending" => pc'[u] = "pending"
      BY <2>1
    <2>4. /\ OneJobEach'
          /\ (\A k \in 1 .. Len(jobs') : jobs'[k].irpj # NoThread) <=>
               (\A k \in 1 .. Len(jobs) : jobs[k].irpj # NoThread) /\ t # NoThread
      BY <1>5, <1>9, <2>1, <2>2, <2>3, AppendJob
    <2>5. Signal'
      BY <1>3, <1>9, <2>1, <2>4 DEF OneUser, Signal
    <2>6. Held'
      BY <1>2, <1>9 DEF OneUser, Held
    <2>7. WholeCommands'
      BY <1>2, <1>6, <1>7, <1>9, OwnerWhole
    <2>. QED BY <2>4, <2>5, <2>6, <2>7 DEF OneUser
  <1>. QED BY <1>4, <1>8, <1>9

\* HandleOut, HandleIn and ProcessIOCTL.
LEMMA ThreadKeeps ==
  ASSUME OneUserAssumption, IInv, OneUser, NEW t \in Threads, Thread(t)
  PROVE  OneUser'
  <1>0. pc[t] \in Owned /\ bfill \in Nat
    BY DEF Thread, Wait, Unlock, OutRoom, OutAddress, OutData, OutSend, InRoom, InCache,
       InAddress, InSend, IoctlFlush, IoctlSubmit, Owned, IInv, TypeOK
  <1>1. \A u \in Threads \ {t} : ~Storing(u)
    BY <1>0, Alone DEF Storing, Owned
  \* The owner does not store: the buffer has whole commands.
  <1>2. ev /\ ~Storing(t) => Even(bfill)
    BY <1>1 DEF OneUser, WholeCommands
  <1>3. CancelTimer => ~timer'
    BY DEF CancelTimer, OneUser, Held
  <1>4. CASE Wait(t)
    <2>1. /\ pc' = [pc EXCEPT ![t] = AfterWait(t)] /\ ev /\ ~Storing(t)
          /\ UNCHANGED <<jobs, ev, dpc, flags, op, timer, bfill>>
      BY <1>4 DEF Wait, Goto, pipe, cache, Storing
    <2>2. AfterWait(t) \in {"room", "address", "cache", "unlock"}
      BY <1>4 DEF Wait, AfterWait
    <2>. QED BY <1>0, <1>2, <2>1, <2>2, OwnerKeeps
  <1>5. CASE Unlock(t)
    <2>1. /\ pc' = [pc EXCEPT ![t] = "idle"] /\ ~Storing(t)
          /\ UNCHANGED <<jobs, ev, dpc, flags, op, timer, bfill>>
      BY <1>5 DEF Unlock, Goto, pipe, cache, Storing
    <2>. QED BY <1>0, <1>2, <2>1, OwnerKeeps
  <1>6. CASE OutRoom(t)
    <2>1. pc[t] = "room" /\ UNCHANGED <<op, mutex, bfill, flags, dpc>>
      BY <1>6 DEF OutRoom
    <2>2. CASE CancelTimer /\ Flush(t, 0, "roomWait", "unlock")
      BY <1>3, <2>1, <2>2, FlushKeeps
    <2>3. CASE Skip(t, "address")
      <3>1. pc' = [pc EXCEPT ![t] = "address"] /\ UNCHANGED <<timer, jobs, ev>>
        BY <2>3 DEF Skip, Goto
      <3>2. ev /\ ~Storing(t)
        BY <2>1 DEF Storing, OneUser, Signal
      <3>. QED BY <1>0, <1>2, <2>1, <3>1, <3>2, OwnerKeeps
    <2>. QED BY <1>6, <2>2, <2>3 DEF OutRoom
  <1>7. CASE OutAddress(t)
    <2>1. /\ pc[t] = "address" /\ pc' = [pc EXCEPT ![t] = "data"] /\ bfill' = bfill + 1
          /\ UNCHANGED <<jobs, ev, dpc, flags, op, timer>>
      BY <1>7 DEF OutAddress, Goto, pipe, cache
    <2>2. ev /\ ~Storing(t)
      BY <2>1 DEF Storing, OneUser, Signal
    <2>3. Even(bfill' + 1)
      BY <1>0, <1>2, <2>1, <2>2, EvenNext
    <2>. QED BY <1>0, <2>1, <2>2, <2>3, OwnerKeeps
  <1>8. CASE OutData(t)
    <2>. DEFINE label == IF pos[t] + 1 < op[t].len THEN "room" ELSE "send"
    <2>1. /\ pc[t] = "data" /\ Trapped(t, "out") /\ pc' = [pc EXCEPT ![t] = label]
          /\ bfill' = bfill + 1 /\ UNCHANGED <<jobs, ev, dpc, flags, op, timer>>
      BY <1>8 DEF OutData, Goto, pipe, cache
    <2>2. ev /\ Even(bfill')
      BY <2>1 DEF OneUser, Signal, WholeCommands, Trapped
    <2>3. label \in {"room", "send"}
      OBVIOUS
    <2>. HIDE DEF label
    <2>. QED BY <1>0, <2>1, <2>2, <2>3, OwnerKeeps
  <1>9. CASE OutSend(t)
    <2>1. pc[t] = "send" /\ op[t].dir = "out" /\ UNCHANGED <<op, mutex, bfill, flags, dpc>>
      BY <1>9 DEF OutSend, Trapped
    <2>2. ev /\ ~Storing(t)
      BY <2>1 DEF Storing, OneUser, Signal
    <2>3. CASE "WriteCache" \in flags
      <3>1. pc' = [pc EXCEPT ![t] = "unlock"] /\ UNCHANGED <<jobs, ev>>
        BY <1>9, <2>3 DEF OutSend, Goto
      <3>. QED BY <1>0, <1>2, <2>1, <2>2, <2>3, <3>1, OwnerKeeps
    <2>4. CASE "WriteCache" \notin flags
      <3>1. Flush(t, 0, "sendWait", "unlock") /\ ~timer'
        BY <1>9, <2>4 DEF OutSend, OneUser, Held
      <3>. QED BY <2>1, <3>1, FlushKeeps
    <2>. QED BY <2>3, <2>4
  <1>10. CASE InRoom(t)
    <2>1. pc[t] = "room" /\ UNCHANGED <<op, mutex, bfill, flags, dpc>>
      BY <1>10 DEF InRoom
    <2>2. CASE CancelTimer /\ Flush(t, 0, "roomWait", "unlock")
      BY <1>3, <2>1, <2>2, FlushKeeps
    <2>3. CASE Skip(t, "cache")
      <3>1. pc' = [pc EXCEPT ![t] = "cache"] /\ UNCHANGED <<timer, jobs, ev>>
        BY <2>3 DEF Skip, Goto
      <3>2. ev /\ ~Storing(t)
        BY <2>1 DEF Storing, OneUser, Signal
      <3>. QED BY <1>0, <1>2, <2>1, <3>1, <3>2, OwnerKeeps
    <2>. QED BY <1>10, <2>2, <2>3 DEF InRoom
  <1>11. CASE InCache(t)
    <2>1. /\ pc[t] = "cache" /\ UNCHANGED <<jobs, ev, dpc, flags, op, timer, bfill>>
          /\ \E l \in {"unlock", "data"} : pc' = [pc EXCEPT ![t] = l]
      BY <1>11 DEF InCache, Goto, cache
    <2>2. ev /\ ~Storing(t) /\ op[t].dir = "in"
      BY <2>1, ThreadType DEF Storing, OneUser, Signal, Room
    <2>. QED BY <1>0, <1>2, <2>1, <2>2, OwnerKeeps
  <1>12. CASE InAddress(t)
    <2>. DEFINE label == IF pos[t] + 1 < op[t].len THEN "data" ELSE "send"
    <2>1. /\ pc[t] = "data" /\ op[t].dir = "in" /\ pc' = [pc EXCEPT ![t] = label]
          /\ UNCHANGED <<jobs, ev, dpc, flags, op, timer>>
      BY <1>12 DEF InAddress, Goto, pipe, cache, Trapped
    <2>2. ev /\ label \in {"data", "send"}
      BY <2>1 DEF OneUser, Signal
    <2>. HIDE DEF label
    <2>. QED BY <1>0, <2>1, <2>2, OwnerKeeps
  <1>13. CASE InSend(t)
    <2>1. /\ pc[t] = "send" /\ UNCHANGED <<op, mutex, bfill, flags, dpc>>
          /\ ~timer' /\ Flush(t, op[t].len, "sendWait", "unlock")
      BY <1>3, <1>13 DEF InSend
    <2>2. op[t].len \in Nat
      BY ThreadType
    <2>. QED BY <2>1, <2>2, FlushKeeps
  <1>14. CASE IoctlFlush(t)
    <2>1. /\ pc[t] = "room" /\ UNCHANGED <<op, mutex, bfill, flags, dpc>>
          /\ ~timer' /\ Flush(t, 0, "submit", "submit")
      BY <1>3, <1>14 DEF IoctlFlush
    <2>. QED BY <2>1, FlushKeeps
  <1>15. CASE IoctlSubmit(t)
    BY <1>15, IoctlSubmitKeeps
  <1>. QED BY <1>4, <1>5, <1>6, <1>7, <1>8, <1>9, <1>10, <1>11, <1>12, <1>13, <1>14, <1>15
       DEF Thread

LEMMA CallKeeps ==
  ASSUME OneUserAssumption, IInv, OneUser, NEW t \in Threads, Call(t) \/ Lock(t)
  PROVE  OneUser'
  <1>1. PICK label \in {"lock", "wait"} : pc' = [pc EXCEPT ![t] = label]
    BY DEF Call, Lock, Goto
  <1>2. /\ pc[t] \in {"idle", "lock"} /\ UNCHANGED <<bfill, ev, flags, timer, dpc, jobs>>
        /\ op' = op \/ \E o \in Ops : op' = [op EXCEPT ![t] = o]
    BY DEF Call, Lock, cache, pipe
  <1>3. pc'[t] = label /\ \A u \in Threads \ {t} : pc'[u] = pc[u] /\ op'[u] = op[u]
    BY <1>1, <1>2 DEF IInv, TypeOK
  <1>4. OneJobEach'
    <2>1. ASSUME NEW k \in 1 .. Len(jobs), jobs[k].irpj # NoThread
          PROVE  pc'[jobs[k].irpj] = "pending"
      <3>1. pc[jobs[k].irpj] = "pending" /\ jobs[k].irpj # t
        BY <1>2, <2>1 DEF OneUser, OneJobEach
      <3>2. jobs[k].irpj \in Threads
        BY <2>1, JobOf
      <3>. QED BY <1>3, <3>1, <3>2
    <2>. QED BY <1>2, <2>1 DEF OneUser, OneJobEach
  <1>5. Signal'
    BY <1>2, <1>3 DEF OneUser, Signal
  <1>6. Held'
    <2>1. CASE Call(t)
      BY <1>2, <2>1 DEF OneUser, Held, Call
    <2>2. CASE Lock(t)
      BY <1>2, <2>2 DEF OneUser, Held, Lock, OneUserAssumption
    <2>. QED BY <2>1, <2>2
  <1>7. WholeCommands'
    BY <1>2, <1>3 DEF OneUser, WholeCommands, Storing
  <1>. QED BY <1>4, <1>5, <1>6, <1>7 DEF OneUser

\* Only the read caches are switched while the port is in use.
LEMMA UserCfgKeeps ==
  ASSUME OneUser, NEW f \in Configs, UserCfg(f), WriteCacheStays
  PROVE  OneUser'
  <1>1. /\ UNCHANGED <<pc, op, mutex, bfill, ev, timer, dpc, jobs>>
        /\ "WriteCache" \in flags => "WriteCache" \in flags'
    BY DEF UserCfg, WriteCacheStays, cache, pipe
  <1>. QED BY <1>1 DEF OneUser, OneJobEach, Signal, Held, WholeCommands, Storing

\* While no access holds the mutex nothing is being stored, so the DPC finds
\* whole commands; a set timer, or a queued DPC, finds nothing being sent.
LEMMA TimerKeeps ==
  ASSUME OneUserAssumption, IInv, OneUser, TimerExpires \/ TimerDpc
  PROVE  OneUser'
  <1>1. /\ UNCHANGED <<pc, op, mutex, bfill, flags>> /\ mutex = NoThread
        /\ ~timer' /\ ev /\ bfill \in Nat
    BY DEF TimerExpires, TimerDpc, driver, OneUserAssumption, OneUser, Held, IInv, TypeOK
  <1>2. \A u \in Threads : pc[u] \notin Owned
    BY <1>1, PortIOAssumption DEF IInv, MutexOwned, PortIOAssumption
  <1>3. WholeCommands'
    BY <1>1, <1>2 DEF OneUser, WholeCommands, Storing, Owned
  <1>4. CASE UNCHANGED <<jobs, ev>>
    BY <1>1, <1>2, <1>3, <1>4 DEF OneUser, OneJobEach, Signal, Held
  <1>5. CASE Submitted(NoThread, bfill, 0, NoThread) /\ ~dpc' /\ bfill > 0
    <2>1. PICK job \in Job : jobs' = Append(jobs, job) /\ job.irpj = NoThread /\ ~ev'
      BY <1>1, <1>5, SubmittedJob
    <2>2. job.irpj = NoThread
      BY <2>1
    <2>3. \A k \in 1 .. Len(jobs) : jobs[k].irpj # NoThread
      BY <1>1 DEF OneUser, Signal
    <2>4. OneJobEach' /\ ~(\A k \in 1 .. Len(jobs') : jobs'[k].irpj # NoThread)
      BY <1>1, <2>1, <2>2, <2>3, AppendJob
    <2>5. Signal'
      BY <1>1, <1>2, <2>1, <2>4 DEF Signal, Owned
    <2>6. Held'
      BY <1>1, <1>5 DEF Held
    <2>. QED BY <1>3, <2>4, <2>5, <2>6 DEF OneUser
  <1>6. UNCHANGED <<jobs, ev>>
        \/ (Submitted(NoThread, bfill, 0, NoThread) /\ ~dpc' /\ bfill > 0)
    <2>1. CASE TimerExpires
      BY <2>1 DEF TimerExpires, pipe
    <2>2. CASE TimerDpc
      <3>1. bfill = 0 /\ Submitted(NoThread, bfill, 0, NoThread) => UNCHANGED <<jobs, ev>>
        BY DEF Submitted
      <3>2. Submitted(NoThread, bfill, 0, NoThread) \/ UNCHANGED <<jobs, ev>>
        BY <2>2 DEF TimerDpc
      <3>3. ~dpc'
        BY <2>2 DEF TimerDpc
      <3>4. bfill = 0 \/ bfill > 0
        BY <1>1
      <3>. QED BY <3>1, <3>2, <3>3, <3>4
    <2>. QED BY <2>1, <2>2
  <1>. QED BY <1>4, <1>5, <1>6

\* Job k is done.
LEMMA FertigKeeps ==
  ASSUME IInv, OneUser, NEW k \in 1 .. Len(jobs), Fertig(k),
         UNCHANGED <<op, mutex, flags, timer, dpc>>
  PROVE  OneUser'
  <1>1. jobs \in Seq(Job) /\ Len(jobs) \in Nat
    BY DEF IInv, TypeOK
  <1>2. /\ Len(jobs') = Len(jobs) - 1
        /\ \A i \in 1 .. Len(jobs) - 1 : jobs'[i] = IF i < k THEN jobs[i] ELSE jobs[i + 1]
    BY <1>1, RemoveAtElements DEF Fertig
  \* Each job left was there before, in another place than k.
  <1>3. \A i \in 1 .. Len(jobs') : \E j \in 1 .. Len(jobs) :
          j # k /\ jobs'[i] = jobs[j] /\ j = IF i < k THEN i ELSE i + 1
    BY <1>1, <1>2
  <1>4. \A i \in 1 .. Len(jobs') : jobs'[i].irpj # jobs[k].irpj
    BY <1>3 DEF OneUser, OneJobEach
  <1>5. \A i, j \in 1 .. Len(jobs') : jobs'[i].irpj = jobs'[j].irpj => i = j
    <2>1. ASSUME NEW i \in 1 .. Len(jobs'), NEW j \in 1 .. Len(jobs'),
                 jobs'[i].irpj = jobs'[j].irpj
          PROVE  i = j
      <3>1. PICK a \in 1 .. Len(jobs) : jobs'[i] = jobs[a] /\ a = IF i < k THEN i ELSE i + 1
        BY <1>3
      <3>2. PICK b \in 1 .. Len(jobs) : jobs'[j] = jobs[b] /\ b = IF j < k THEN j ELSE j + 1
        BY <1>3
      <3>3. a = b
        BY <2>1, <3>1, <3>2 DEF OneUser, OneJobEach
      <3>. QED BY <3>1, <3>2, <3>3
    <2>. QED BY <2>1
  <1>6. CASE jobs[k].irpj = NoThread
    <2>1. bfill' = 0 /\ ev' /\ pc' = pc
      BY <1>6 DEF Fertig
    <2>2. OneJobEach'
      BY <1>3, <1>5, <2>1 DEF OneUser, OneJobEach
    <2>3. Signal'
      BY <1>4, <1>6, <2>1 DEF Signal
    <2>4. Held'
      BY <2>1 DEF OneUser, Held
    <2>5. WholeCommands'
      <3>1. ~ev
        BY <1>6 DEF OneUser, Signal
      <3>2. \A u \in Threads : pc[u] # "data"
        BY <3>1 DEF OneUser, Signal
      <3>. QED BY <2>1, <3>2, EvenNext DEF WholeCommands
    <2>. QED BY <2>2, <2>3, <2>4, <2>5 DEF OneUser
  <1>7. CASE jobs[k].irpj # NoThread
    <2>. DEFINE t == jobs[k].irpj
    <2>1. pc' = [pc EXCEPT ![t] = "idle"] /\ UNCHANGED <<bfill, ev>>
      BY <1>7 DEF Fertig, Goto
    <2>2. t \in Threads /\ pc[t] = "pending"
      BY <1>7, JobOf DEF OneUser, OneJobEach
    <2>. HIDE DEF t
    <2>3. pc'[t] = "idle" /\ \A u \in Threads \ {t} : pc'[u] = pc[u]
      BY <2>1, <2>2 DEF IInv, TypeOK
    <2>4. OneJobEach'
      <3>1. ASSUME NEW i \in 1 .. Len(jobs'), jobs'[i].irpj # NoThread
            PROVE  pc'[jobs'[i].irpj] = "pending"
        <4>1. jobs'[i].irpj # t
          BY <1>4 DEF t
        <4>2. PICK j \in 1 .. Len(jobs) : jobs'[i] = jobs[j]
          BY <1>3
        <4>3. jobs[j].irpj \in Threads
          BY <3>1, <4>2, JobOf
        <4>. QED BY <2>3, <3>1, <4>1, <4>2, <4>3 DEF OneUser, OneJobEach
      <3>. QED BY <1>5, <3>1 DEF OneJobEach
    <2>5. Signal'
      <3>1. (\A i \in 1 .. Len(jobs') : jobs'[i].irpj # NoThread) <=>
              \A i \in 1 .. Len(jobs) : jobs[i].irpj # NoThread
        <4>1. ASSUME NEW j \in 1 .. Len(jobs), jobs[j].irpj = NoThread
              PROVE  \E i \in 1 .. Len(jobs') : jobs'[i].irpj = NoThread
          <5>1. j # k
            BY <1>7, <4>1
          <5>2. CASE j < k
            BY <1>1, <1>2, <4>1, <5>2
          <5>3. CASE j > k
            <6>1. j - 1 \in 1 .. Len(jobs) - 1 /\ ~(j - 1 < k) /\ (j - 1) + 1 = j
              BY <1>1, <5>3
            <6>2. jobs'[j - 1] = jobs[j]
              BY <1>2, <6>1
            <6>. QED BY <1>2, <4>1, <6>1, <6>2
          <5>. QED BY <5>1, <5>2, <5>3
        <4>. QED BY <1>3, <4>1
      <3>. QED BY <2>1, <2>3, <3>1 DEF OneUser, Signal
    <2>6. Held'
      BY <2>1 DEF OneUser, Held
    <2>7. WholeCommands'
      BY <2>1, <2>2, <2>3 DEF OneUser, WholeCommands, Storing
    <2>. QED BY <2>4, <2>5, <2>6, <2>7 DEF OneUser
  <1>. QED BY <1>6, <1>7

LEMMA DoneKeeps ==
  ASSUME IInv, OneUser, OutDone \/ InDone
  PROVE  OneUser'
  <1>1. UNCHANGED <<op, mutex, flags, timer, dpc>>
    BY DEF OutDone, InDone, cache
  <1>2. PICK k \in 1 .. Len(jobs) :
          \/ Fertig(k)
          \/ jobs' = [jobs EXCEPT ![k].w = FALSE] /\ UNCHANGED <<pc, bfill, ev>>
          \/ jobs' = [jobs EXCEPT ![k].r = FALSE] /\ UNCHANGED <<pc, bfill, ev>>
    BY DEF OutDone, InDone
  <1>3. CASE Fertig(k)
    BY <1>1, <1>3, FertigKeeps
  <1>4. CASE ~Fertig(k)
    <2>1. jobs \in Seq(Job) /\ \A i \in 1 .. Len(jobs) : jobs[i] \in Job
      BY JobOf DEF IInv, TypeOK
    <2>2. Len(jobs') = Len(jobs) /\ \A i \in 1 .. Len(jobs) : jobs'[i].irpj = jobs[i].irpj
      <3>1. PICK job : /\ jobs' = [jobs EXCEPT ![k] = job]
                       /\ job \in {[jobs[k] EXCEPT !.w = FALSE], [jobs[k] EXCEPT !.r = FALSE]}
        BY <1>2, <1>4
      <3>2. job.irpj = jobs[k].irpj
        BY <2>1, <3>1 DEF Job
      <3>. QED BY <2>1, <3>1, <3>2
    <2>. QED BY <1>1, <1>2, <1>4, <2>2
         DEF OneUser, OneJobEach, Signal, Held, WholeCommands, Storing
  <1>. QED BY <1>3, <1>4
-----------------------------------------------------------------------------
LEMMA InitOneUser == Init => OneUser
  <1>. SUFFICES ASSUME Init PROVE OneUser
    OBVIOUS
  <1>1. Len(jobs) = 0 /\ Even(0)
    BY EvenNext DEF Init
  <1>. QED BY <1>1 DEF Init, OneUser, OneJobEach, Signal, Held, WholeCommands, Storing

LEMMA NextOneUser ==
  ASSUME OneUserAssumption
  PROVE  IInv /\ OneUser /\ [Next /\ WriteCacheStays]_vars => OneUser'
  <1>. SUFFICES ASSUME IInv, OneUser, [Next /\ WriteCacheStays]_vars PROVE OneUser'
    OBVIOUS
  <1>1. ASSUME NEW t \in Threads, Call(t) \/ Lock(t) \/ Thread(t) PROVE OneUser'
    BY <1>1, CallKeeps, ThreadKeeps
  <1>2. ASSUME NEW f \in Configs, UserCfg(f), WriteCacheStays PROVE OneUser'
    BY <1>2, UserCfgKeeps
  <1>3. CASE TimerExpires \/ TimerDpc
    BY <1>3, TimerKeeps
  <1>4. CASE OutDone \/ InDone
    BY <1>4, DoneKeeps
  <1>5. CASE UNCHANGED vars
    BY <1>5 DEF vars, cache, OneUser, OneJobEach, Signal, Held, WholeCommands, Storing
  <1>. QED BY <1>1, <1>2, <1>3, <1>4, <1>5 DEF Next

LEMMA OneUserSuffices ==
  ASSUME OneUserAssumption, IInv, OneUser
  PROVE  BufferHasOneUser
  <1>1. AssertFill
    <2>1. SUFFICES ASSUME NEW t \in Threads, pc[t] = "room"
                   PROVE  bfill < BufSize /\ bfill % 2 = 0
      BY DEF AssertFill
    <2>2. pc[t] \in Owned /\ ev /\ \A u \in Threads : ~Storing(u)
      BY <2>1, Alone DEF Owned, Storing, OneUser, Signal
    <2>3. Even(bfill)
      BY <2>2 DEF OneUser, WholeCommands
    <2>4. BufSize \in Nat /\ BufSize % 2 = 1 /\ bfill \in 0 .. BufSize
      BY ThreadType DEF OneUserAssumption
    <2>. QED BY <2>3, <2>4 DEF Even
  <1>2. PrivateBuffer
    BY DEF PrivateBuffer, OneUser, OneJobEach, Signal
  <1>. QED BY <1>1, <1>2 DEF BufferHasOneUser

\* Who gets X->bmutex and finds ev green finds whole OUT commands and room for one
\* more in X->buffer, and nobody changes the buffer while OutIn sends it: for any number
\* of threads and any accesses, if the timer fires between accesses, allocations succeed
\* and the write cache is switched before the port is used (Usb2lpt.c, HandleOut,
\* HandleIn, TimerDpc; without those conditions README, Findings).
THEOREM BufferUsedByOne ==
  ASSUME OneUserAssumption
  PROVE  SteadySpec => []BufferHasOneUser
  <1>1. Init => IInv /\ OneUser
    BY InitIInv, InitOneUser
  <1>2. IInv /\ OneUser /\ [Next /\ WriteCacheStays]_vars => IInv' /\ OneUser'
    BY NextIInv, NextOneUser
  <1>3. IInv /\ OneUser => BufferHasOneUser
    BY OneUserSuffices
  <1>. QED BY <1>1, <1>2, <1>3, PTL DEF SteadySpec
=============================================================================
