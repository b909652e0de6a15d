--------------------------- MODULE Adapter_proofs ---------------------------
(***************************************************************************)
(* Proofs about what the driver does for an adapter, part by part: the     *)
(* requests of the kernel (Requests), its start at the USB (Configure),    *)
(* the names of its port (PortNames) and the sheet with its properties     *)
(* (PropSheet), for any number of requests, adapters, numbers and starts.  *)
(***************************************************************************)
EXTENDS MCAdapter, Sequences, WellFoundedInduction, TLAPS

(***************************************************************************)
(* The requests of the kernel, for any number of them at once: each of     *)
(* them is answered once and gives the remove lock back, whenever the      *)
(* adapter is removed; the counts of WMI are true, and power requests go   *)
(* on.                                                                     *)
(***************************************************************************)

\* One processor, and no power request in work at or after a surprise removal: the
\* code does not keep the counts, nor the power requests, otherwise (README, Findings).
AsTested == ~Smp /\ ~PowerAfterAll

Inside == {"locked", "counting", "served", "unlock"}
Fields == {"kind", "large", "at", "ret", "answers"}

\* A request in work.
Open(x, c) ==
  /\ DOMAIN x = Fields /\ x.kind \in Kinds
  /\ x.at \in {"sent", "looked", "locked", "counting", "served", "answer", "unlock"}
  /\ x.answers = IF x.at = "unlock" THEN 1 ELSE 0
  /\ x.at \in {"counting", "served", "answer"} => x.kind \in IoctlKinds
  /\ x.at = "counting" => x.kind \in Counted /\ x.ret = c[x.kind]

Fits(x, c) == x = NoIrp \/ x = Ended(1) \/ Open(x, c)

Types ==
  /\ DOMAIN irp = Irps /\ irp = [i \in Irps |-> irp[i]]
  /\ \A i \in Irps : Fits(irp[i], counts)
  /\ stage \in {"present", "surprise", "removing", "removed"}
  /\ counts \in [Counted -> Nat]

\* The lock is held by those that are inside; none is when the adapter is removed.
Held ==
  /\ locks = {i \in Irps : irp[i].at \in Inside}
  /\ stage \in {"present", "surprise"} => ~gone
  /\ stage = "removed" => gone /\ locks = {}

\* One request at most is amid ++, and every one that is through has been counted.
Told ==
  /\ \A i, j \in Irps : irp[i].at = "counting" /\ irp[j].at = "counting" => i = j
  /\ counts = done /\ told[1] = told[2]
  /\ (\A i \in Irps : irp[i] = NoIrp) => done = Zero /\ powerFree

\* A power request that has not come to PoStartNextPowerIrp.
Waiting(x) == x.at \in {"sent", "looked", "locked"} /\ x.kind = "power"

Power ==
  /\ stage = "present" => powerFree \/ \E i \in Irps : Waiting(irp[i])
  /\ stage = "surprise" => powerFree /\ ~PowerInWork

KernelIInv == Types /\ Held /\ Told /\ Power
-----------------------------------------------------------------------------
LEMMA KindsApart ==
  /\ Counted \subseteq IoctlKinds /\ IoctlKinds \subseteq Kinds /\ "power" \notin IoctlKinds
  /\ {"allocate", "free"} = Counted
  <1>1. DOMAIN PortIoctl = {"allocate", "portinfo", "connect", "disconnect", "chipmode"}
    BY DEF PortIoctl
  <1>2. DOMAIN BusIoctl = {"free", "classinfo", "select", "todo", "unknown"}
    BY DEF BusIoctl
  <1>3. IoctlKinds = DOMAIN PortIoctl \cup DOMAIN BusIoctl
    BY DEF IoctlKinds
  <1>4. IoctlKinds = {"allocate", "portinfo", "connect", "disconnect", "chipmode",
                      "free", "classinfo", "select", "todo", "unknown"}
    BY <1>1, <1>2, <1>3
  <1>5. IoctlKinds \subseteq Kinds
    BY DEF Kinds
  <1>. QED BY <1>4, <1>5 DEF Counted

LEMMA Ends ==
  /\ NoIrp.at = "none" /\ Ended(1).at = "end" /\ Ended(1).answers = 1
  /\ Ended(1) # NoIrp /\ Ended(0 + 1) = Ended(1)
  <1>1. NoIrp.at = "none" /\ Ended(1).at = "end" /\ Ended(1).answers = 1
    BY DEF NoIrp, Ended
  <1>2. 0 + 1 = 1
    OBVIOUS
  <1>. QED BY <1>1, <1>2

\* Where a request is tells which form it has.
LEMMA InWork ==
  ASSUME NEW x, NEW c, Fits(x, c), x.at \notin {"none", "end"}
  PROVE  Open(x, c) /\ x # NoIrp
  BY Ends DEF Fits

LEMMA NotOpen ==
  ASSUME NEW x, NEW c, Fits(x, c), ~Open(x, c)
  PROVE  ~Waiting(x) /\ x.at \in {"none", "end"}
  BY Ends DEF Fits, Waiting

\* A request goes on to another place.
LEMMA IrpMoves ==
  ASSUME NEW x, NEW c, Open(x, c), NEW p, NEW y, y = [x EXCEPT !.at = p]
  PROVE  /\ DOMAIN y = Fields /\ y.kind = x.kind /\ y.answers = x.answers /\ y.at = p
         /\ y.ret = x.ret /\ y.large = x.large
  BY DEF Open, Fields

\* The step of one request: from x to y.
LEMMA OneSteps ==
  ASSUME KernelIInv, NEW i \in Irps, NEW y, irp' = [irp EXCEPT ![i] = y],
         Fits(y, counts), y # NoIrp, UNCHANGED <<stage, gone, counts, done>>,
         told' = told \/ told'[1] = told'[2],
         locks' = IF y.at \in Inside THEN locks \cup {i} ELSE locks \ {i},
         stage = "removed" => y.at \notin Inside,
         y.at = "counting" => \A k \in Irps : irp[k].at # "counting"
  PROVE  Types' /\ Held' /\ Told' /\ irp'[i] = y /\ (\A k \in Irps \ {i} : irp'[k] = irp[k])
  <1>1. /\ irp'[i] = y /\ (\A k \in Irps \ {i} : irp'[k] = irp[k])
        /\ DOMAIN irp' = Irps /\ irp' = [k \in Irps |-> irp'[k]]
    BY DEF KernelIInv, Types
  <1>2. Types'
    BY <1>1 DEF KernelIInv, Types
  <1>3. Held'
    <2>1. \A k \in Irps : (k \in locks') <=> (irp'[k].at \in Inside)
      BY <1>1 DEF KernelIInv, Held
    <2>2. locks' \subseteq Irps
      BY DEF KernelIInv, Held
    <2>3. locks' = {k \in Irps : irp'[k].at \in Inside}
      BY <2>1, <2>2
    <2>4. stage' = "removed" => locks' = {}
      BY DEF KernelIInv, Held
    <2>. QED BY <2>3, <2>4 DEF KernelIInv, Held
  <1>4. Told'
    BY <1>1 DEF KernelIInv, Told
  <1>. QED BY <1>1, <1>2, <1>3, <1>4

\* What is not about a waiting power request leaves the power manager alone.
LEMMA PowerStays ==
  ASSUME KernelIInv, NEW i \in Irps, irp[i] # NoIrp, UNCHANGED <<stage, powerFree>>,
         \A k \in Irps \ {i} : irp'[k] = irp[k],
         Waiting(irp[i]) => stage # "present" \/ Waiting(irp'[i]),
         irp'[i].at = "end" \/ (irp[i].at \notin {"none", "end"} /\ irp'[i].kind = irp[i].kind)
  PROVE  Power'
  <1>1. stage = "surprise" => ~PowerInWork'
    BY DEF KernelIInv, Power, PowerInWork
  <1>2. ASSUME stage = "present", ~powerFree PROVE \E k \in Irps : Waiting(irp'[k])
    <2>1. PICK k \in Irps : Waiting(irp[k])
      BY <1>2 DEF KernelIInv, Power
    <2>. QED BY <1>2, <2>1 DEF Waiting
  <1>. QED BY <1>1, <1>2 DEF KernelIInv, Power
-----------------------------------------------------------------------------
(* The adapter *)

LEMMA DriverStep ==
  ASSUME KernelIInv, DriverEntry \/ Unload
  PROVE  KernelIInv'
  <1>1. UNCHANGED <<stage, gone, locks, irp, counts, done, told, powerFree>>
    BY DEF DriverEntry, Unload
  <1>. QED BY <1>1 DEF KernelIInv, Types, Held, Told, Power, PowerInWork

LEMMA AddDeviceStep ==
  ASSUME KernelIInv, AddDevice
  PROVE  KernelIInv'
  <1>1. /\ stage = "removed" /\ (\A i \in Irps : irp[i] = NoIrp) /\ stage' = "present"
        /\ ~gone' /\ counts' = Zero /\ UNCHANGED <<locks, irp, done, told, powerFree>>
    BY DEF AddDevice
  <1>2. Types'
    BY <1>1 DEF KernelIInv, Types, Fits, Zero
  <1>3. Held' /\ Told' /\ Power'
    BY <1>1, Ends DEF KernelIInv, Held, Told, Power
  <1>. QED BY <1>2, <1>3 DEF KernelIInv

LEMMA RemovalStep ==
  ASSUME AsTested, KernelIInv, Surprise \/ Removing \/ LockAndWait \/ Removed
  PROVE  KernelIInv'
  <1>1. /\ UNCHANGED <<locks, irp, counts, done, told, powerFree>>
        /\ stage' \in {"surprise", "removing", "removed"}
        /\ stage' = "surprise" => stage = "present" /\ gone' = gone /\ ~PowerInWork
        /\ stage' = "removed" => gone' /\ locks = {}
    BY DEF AsTested, Surprise, Removing, LockAndWait, Removed
  <1>2. Types' /\ Held' /\ Told'
    BY <1>1 DEF KernelIInv, Types, Held, Told
  <1>3. Power'
    <2>1. PowerInWork' <=> PowerInWork
      BY <1>1 DEF PowerInWork
    <2>2. (\E i \in Irps : Waiting(irp[i])) => PowerInWork
      BY DEF Waiting, PowerInWork
    <2>. QED BY <1>1, <2>1, <2>2 DEF KernelIInv, Power
  <1>. QED BY <1>2, <1>3 DEF KernelIInv
-----------------------------------------------------------------------------
(* A request *)

LEMMA SendStep ==
  ASSUME AsTested, KernelIInv, NEW i \in Irps, NEW kind \in Kinds, NEW large, Send(i, kind, large)
  PROVE  KernelIInv'
  <1>. DEFINE y == [kind |-> kind, large |-> large, at |-> "sent", ret |-> "none", answers |-> 0]
  <1>1. /\ irp[i] = NoIrp /\ irp' = [irp EXCEPT ![i] = y]
        /\ UNCHANGED <<stage, gone, locks, counts, done, told>>
        /\ powerFree' = (powerFree /\ kind # "power")
        /\ kind = "power" => stage # "surprise"
    BY DEF Send, AsTested
  <1>2. y.at = "sent" /\ y.kind = kind /\ y # NoIrp /\ Open(y, counts)
    BY Ends DEF Open, Fields
  <1>. HIDE DEF y
  <1>3. locks' = locks \ {i} /\ y.at \notin Inside /\ y.at # "counting"
    BY <1>1, <1>2, Ends DEF KernelIInv, Held, Inside
  <1>4. Types' /\ Held' /\ Told' /\ irp'[i] = y /\ (\A k \in Irps \ {i} : irp'[k] = irp[k])
    <2>1. Fits(y, counts)
      BY <1>2 DEF Fits
    <2>. QED BY <1>1, <1>2, <1>3, <2>1, OneSteps
  <1>5. Power'
    <2>1. CASE kind = "power"
      <3>1. Waiting(irp'[i])
        BY <1>2, <1>4, <2>1 DEF Waiting
      <3>. QED BY <1>1, <2>1, <3>1 DEF KernelIInv, Power
    <2>2. CASE kind # "power"
      <3>1. ~Waiting(irp[i])
        BY <1>1, Ends DEF Waiting
      <3>2. stage = "surprise" => ~PowerInWork'
        BY <1>2, <1>4, <2>2 DEF KernelIInv, Power, PowerInWork
      <3>3. (\E k \in Irps : Waiting(irp[k])) => \E k \in Irps : Waiting(irp'[k])
        BY <1>4, <3>1
      <3>. QED BY <1>1, <2>2, <3>2, <3>3 DEF KernelIInv, Power
    <2>. QED BY <2>1, <2>2
  <1>. QED BY <1>4, <1>5 DEF KernelIInv

\* A request that takes a step and is not answered by it: it keeps its kind.
LEMMA IrpGoesOn ==
  ASSUME KernelIInv, NEW i \in Irps, Open(irp[i], counts), NEW y, irp' = [irp EXCEPT ![i] = y],
         Open(y, counts), y.kind = irp[i].kind,
         UNCHANGED <<stage, gone, counts, done, powerFree>>,
         told' = told \/ told'[1] = told'[2],
         locks' = IF y.at \in Inside THEN locks \cup {i} ELSE locks \ {i},
         stage = "removed" => y.at \notin Inside,
         y.at = "counting" => \A k \in Irps : irp[k].at # "counting",
         Waiting(irp[i]) => stage # "present" \/ Waiting(y)
  PROVE  KernelIInv'
  <1>1. y # NoIrp /\ irp[i] # NoIrp /\ irp[i].at \notin {"none", "end"}
    BY Ends DEF Open
  <1>2. Types' /\ Held' /\ Told' /\ irp'[i] = y /\ (\A k \in Irps \ {i} : irp'[k] = irp[k])
    BY <1>1, OneSteps DEF Fits
  <1>3. Power'
    BY <1>1, <1>2, PowerStays
  <1>. QED BY <1>2, <1>3 DEF KernelIInv

\* A request that is at its end, with one answer.
LEMMA Ending ==
  ASSUME KernelIInv, NEW i \in Irps, Open(irp[i], counts), irp' = [irp EXCEPT ![i] = Ended(1)],
         UNCHANGED <<stage, gone, counts, done, told, powerFree>>, locks' = locks \ {i},
         Waiting(irp[i]) => stage # "present"
  PROVE  KernelIInv'
  <1>1. irp[i] # NoIrp /\ Ended(1).at \notin Inside /\ Ended(1).at # "counting"
    BY Ends DEF Open, Inside
  <1>2. Types' /\ Held' /\ Told' /\ irp'[i] = Ended(1) /\ (\A k \in Irps \ {i} : irp'[k] = irp[k])
    BY <1>1, Ends, OneSteps DEF Fits
  <1>3. Power'
    BY <1>1, <1>2, Ends, PowerStays
  <1>. QED BY <1>2, <1>3 DEF KernelIInv

\* The flag, and the remove lock.
LEMMA EnterStep ==
  ASSUME KernelIInv, NEW i \in Irps, Looked(i) \/ Acquire(i)
  PROVE  KernelIInv'
  <1>. DEFINE x == irp[i]
  <1>1. Open(x, counts) /\ x.at \in {"sent", "looked"} /\ x.answers = 0 /\ i \notin locks
    <2>1. x.at \in {"sent", "looked"} /\ Fits(x, counts)
      BY DEF Looked, Acquire, At, KernelIInv, Types
    <2>2. Open(x, counts)
      BY <2>1, InWork
    <2>. QED BY <2>1, <2>2 DEF Open, KernelIInv, Held, Inside
  <1>2. UNCHANGED <<stage, gone, counts, done, told, powerFree>>
    BY DEF Looked, Acquire
  <1>3. CASE \E p \in {"looked", "locked"} :
               /\ irp' = [irp EXCEPT ![i].at = p]
               /\ p = "looked" => UNCHANGED locks
               /\ p = "locked" => locks' = locks \cup {i} /\ stage # "removed"
    <2>1. PICK p \in {"looked", "locked"} :
               /\ irp' = [irp EXCEPT ![i].at = p]
               /\ p = "looked" => UNCHANGED locks
               /\ p = "locked" => locks' = locks \cup {i} /\ stage # "removed"
      BY <1>3
    <2>2. PICK y : y = [x EXCEPT !.at = p]
      OBVIOUS
    <2>3. irp' = [irp EXCEPT ![i] = y]
      BY <2>1, <2>2 DEF KernelIInv, Types
    <2>4. y.kind = x.kind /\ y.at = p /\ Open(y, counts)
      BY <1>1, <2>1, <2>2, IrpMoves DEF Open
    <2>5. locks' = IF y.at \in Inside THEN locks \cup {i} ELSE locks \ {i}
      BY <1>1, <2>1, <2>4 DEF Inside
    <2>6. y.at # "counting" /\ (Waiting(irp[i]) => Waiting(y)) /\ (stage = "removed" => y.at \notin Inside)
      BY <2>1, <2>4 DEF Waiting, Inside
    <2>. QED BY <1>1, <1>2, <2>3, <2>4, <2>5, <2>6, IrpGoesOn
  <1>4. CASE irp' = [irp EXCEPT ![i] = Ended(@.answers + 1)] /\ UNCHANGED locks /\ stage # "present"
    <2>1. irp' = [irp EXCEPT ![i] = Ended(1)]
      BY <1>1, <1>4
    <2>. QED BY <1>1, <1>2, <1>4, <2>1, Ending
  <1>5. CASE irp' = [irp EXCEPT ![i] = Ended(@.answers + 1)] /\ UNCHANGED locks
             /\ x.kind \in IoctlKinds
    <2>1. irp' = [irp EXCEPT ![i] = Ended(1)] /\ ~Waiting(irp[i])
      BY <1>1, <1>5, KindsApart DEF Waiting
    <2>. QED BY <1>1, <1>2, <1>5, <2>1, Ending
  <1>6. CASE Looked(i)
    BY <1>3, <1>5, <1>6 DEF Looked, Go, Complete
  <1>7. CASE Acquire(i)
    BY <1>3, <1>4, <1>7 DEF Acquire, Go, Complete, KernelIInv, Held
  <1>. QED BY <1>6, <1>7

LEMMA LeaveStep ==
  ASSUME KernelIInv, NEW i \in Irps, Unlocked(i) \/ Reply(i)
  PROVE  KernelIInv'
  <1>1. /\ irp[i].at \in {"unlock", "answer"}
        /\ irp' = [irp EXCEPT ![i] = Ended(IF irp[i].at = "unlock" THEN @.answers ELSE @.answers + 1)]
        /\ locks' = IF irp[i].at = "unlock" THEN locks \ {i} ELSE locks
        /\ UNCHANGED <<stage, gone, counts, done, told, powerFree>>
    BY DEF Unlocked, Reply, At, Release, Complete
  <1>2. Open(irp[i], counts) /\ ~Waiting(irp[i])
    BY <1>1, InWork DEF KernelIInv, Types, Waiting
  <1>3. irp' = [irp EXCEPT ![i] = Ended(1)]
    <2>1. (IF irp[i].at = "unlock" THEN irp[i].answers ELSE irp[i].answers + 1) = 1
      BY <1>1, <1>2 DEF Open
    <2>2. irp' = [irp EXCEPT ![i] =
                    Ended(IF irp[i].at = "unlock" THEN irp[i].answers ELSE irp[i].answers + 1)]
      BY <1>1
    <2>. QED BY <2>1, <2>2
  <1>4. locks' = locks \ {i}
    BY <1>1 DEF KernelIInv, Held, Inside
  <1>. QED BY <1>1, <1>2, <1>3, <1>4, Ending
-----------------------------------------------------------------------------
(* What is done under the lock *)

LEMMA LockedOpen ==
  ASSUME KernelIInv, NEW i \in Irps, irp[i].at \in Inside
  PROVE  Open(irp[i], counts) /\ i \in locks /\ stage # "removed"
  BY InWork DEF Inside, KernelIInv, Types, Held

LEMMA ServeStep ==
  ASSUME KernelIInv, NEW i \in Irps, Serve(i) \/ Unlock(i)
  PROVE  KernelIInv'
  <1>1. PICK p \in {"served", "answer"} :
          /\ irp' = [irp EXCEPT ![i].at = p]
          /\ irp[i].at = IF p = "served" THEN "locked" ELSE "served"
          /\ p = "served" => irp[i].kind \in IoctlKinds /\ UNCHANGED locks
          /\ p = "answer" => locks' = locks \ {i}
          /\ UNCHANGED <<stage, gone, counts, done, told, powerFree>>
    BY DEF Serve, Unlock, Doing, At, Go, Release
  <1>2. Open(irp[i], counts) /\ i \in locks /\ stage # "removed"
    BY <1>1, LockedOpen DEF Inside
  <1>3. PICK y : y = [irp[i] EXCEPT !.at = p]
    OBVIOUS
  <1>4. irp' = [irp EXCEPT ![i] = y]
    BY <1>1, <1>3 DEF KernelIInv, Types
  <1>5. y.kind = irp[i].kind /\ y.at = p /\ Open(y, counts)
    BY <1>1, <1>2, <1>3, IrpMoves DEF Open
  <1>6. locks' = IF y.at \in Inside THEN locks \cup {i} ELSE locks \ {i}
    BY <1>1, <1>2, <1>5 DEF Inside
  <1>7. ~Waiting(irp[i]) /\ y.at # "counting"
    BY <1>1, <1>2, <1>5, KindsApart DEF Waiting, Open
  <1>. QED BY <1>1, <1>2, <1>4, <1>5, <1>6, <1>7, IrpGoesOn

\* ++: what has been read stays true, as nobody else counts meanwhile.
LEMMA CountStep ==
  ASSUME AsTested, KernelIInv, NEW i \in Irps, Count(i)
  PROVE  KernelIInv'
  <1>1. /\ irp[i].at = "locked" /\ irp[i].kind \in Counted
        /\ \A k \in Irps : irp[k].at # "counting"
        /\ irp' = [irp EXCEPT ![i].at = "counting", ![i].ret = counts[irp[i].kind]]
        /\ UNCHANGED <<stage, gone, locks, counts, done, told, powerFree>>
    BY DEF Count, Doing, At, AsTested
  <1>2. Open(irp[i], counts) /\ i \in locks /\ stage # "removed"
    BY <1>1, LockedOpen DEF Inside
  <1>3. PICK y : y = [irp[i] EXCEPT !.at = "counting", !.ret = counts[irp[i].kind]]
    OBVIOUS
  <1>4. irp' = [irp EXCEPT ![i] = y]
    BY <1>1, <1>3 DEF KernelIInv, Types
  <1>5. DOMAIN y = Fields /\ y.kind = irp[i].kind /\ y.at = "counting"
        /\ y.ret = counts[irp[i].kind] /\ y.answers = irp[i].answers
    BY <1>2, <1>3 DEF Open, Fields
  <1>6. Open(y, counts)
    BY <1>1, <1>2, <1>5, KindsApart DEF Open
  <1>7. ~Waiting(irp[i]) /\ y.at \in Inside /\ locks' = locks \cup {i}
    BY <1>1, <1>2, <1>5, KindsApart DEF Waiting, Inside
  <1>. QED BY <1>1, <1>2, <1>4, <1>5, <1>6, <1>7, IrpGoesOn

LEMMA CountWrittenStep ==
  ASSUME KernelIInv, NEW i \in Irps, CountWritten(i)
  PROVE  KernelIInv'
  <1>1. /\ irp[i].at = "counting" /\ irp' = [irp EXCEPT ![i].at = "served"]
        /\ counts' = [counts EXCEPT ![irp[i].kind] = irp[i].ret + 1]
        /\ done' = [done EXCEPT ![irp[i].kind] = @ + 1]
        /\ UNCHANGED <<stage, gone, locks, told, powerFree>>
    BY DEF CountWritten, At, Go
  <1>2. Open(irp[i], counts) /\ i \in locks
    BY <1>1, LockedOpen DEF Inside
  <1>3. PICK y : y = [irp[i] EXCEPT !.at = "served"]
    OBVIOUS
  <1>4. irp' = [irp EXCEPT ![i] = y] /\ irp'[i] = y /\ (\A k \in Irps \ {i} : irp'[k] = irp[k])
        /\ DOMAIN irp' = Irps /\ irp' = [k \in Irps |-> irp'[k]]
    BY <1>1, <1>3 DEF KernelIInv, Types
  <1>5. /\ y.kind = irp[i].kind /\ y.at = "served" /\ y # NoIrp
        /\ \A c : Open(y, c)
    <2>1. /\ DOMAIN y = Fields /\ y.kind = irp[i].kind /\ y.answers = irp[i].answers
          /\ y.at = "served"
      BY <1>2, <1>3, IrpMoves
    <2>2. irp[i].kind \in Kinds /\ irp[i].kind \in IoctlKinds /\ irp[i].answers = 0
      BY <1>1, <1>2 DEF Open
    <2>3. \A c : Open(y, c)
      BY <2>1, <2>2 DEF Open
    <2>. QED BY <2>1, <2>3, Ends
  <1>6. counts' = done' /\ counts' \in [Counted -> Nat]
    <2>1. irp[i].kind \in Counted /\ irp[i].ret = counts[irp[i].kind]
      BY <1>1, <1>2 DEF Open
    <2>2. counts \in [Counted -> Nat] /\ counts = done
      BY DEF KernelIInv, Types, Told
    <2>. QED BY <1>1, <2>1, <2>2
  <1>7. \A k \in Irps \ {i} : Fits(irp'[k], counts')
    <2>1. \A k \in Irps \ {i} : irp[k].at # "counting" /\ Fits(irp[k], counts)
      BY <1>1 DEF KernelIInv, Types, Told
    <2>. QED BY <1>4, <2>1 DEF Fits, Open
  <1>8. Types'
    BY <1>1, <1>4, <1>5, <1>6, <1>7 DEF KernelIInv, Types, Fits
  <1>9. Held'
    <2>1. \A k \in Irps : irp'[k].at \in Inside <=> irp[k].at \in Inside
      BY <1>1, <1>4, <1>5 DEF Inside
    <2>. QED BY <1>1, <2>1 DEF KernelIInv, Held
  <1>10. Told'
    <2>1. \A k \in Irps : irp'[k].at # "counting"
      BY <1>1, <1>4, <1>5 DEF KernelIInv, Told
    <2>2. irp'[i] # NoIrp /\ told'[1] = told'[2]
      BY <1>1, <1>4, <1>5 DEF KernelIInv, Told
    <2>. QED BY <1>6, <2>1, <2>2 DEF Told
  <1>11. Power'
    BY <1>1, <1>2, <1>4, <1>5, PowerStays, Ends DEF Waiting, Open
  <1>. QED BY <1>8, <1>9, <1>10, <1>11 DEF KernelIInv
-----------------------------------------------------------------------------
(* Answered under the lock *)

\* With one answer, and to be unlocked; a power request excepted, which lets the
\* power manager go on.
LEMMA Answered ==
  ASSUME KernelIInv, NEW i \in Irps, irp[i].at = "locked", irp[i].kind # "power", NEW ret,
         Answer(i, ret), UNCHANGED <<stage, gone, locks, counts, done, powerFree>>,
         told' = told \/ told'[1] = told'[2]
  PROVE  KernelIInv'
  <1>1. Open(irp[i], counts) /\ i \in locks /\ stage # "removed"
    BY LockedOpen DEF Inside
  <1>2. PICK y : y = [irp[i] EXCEPT !.at = "unlock", !.answers = @ + 1, !.ret = ret]
    OBVIOUS
  <1>3. irp' = [irp EXCEPT ![i] = y]
    BY <1>2 DEF Answer, KernelIInv, Types
  <1>4. y.kind = irp[i].kind /\ y.at = "unlock" /\ Open(y, counts)
    BY <1>1, <1>2 DEF Open, Fields
  <1>5. ~Waiting(irp[i]) /\ y.at \in Inside /\ locks' = locks \cup {i}
    BY <1>1, <1>4 DEF Waiting, Inside
  <1>. QED BY <1>1, <1>3, <1>4, <1>5, IrpGoesOn

LEMMA QueryStep ==
  ASSUME KernelIInv, NEW i \in Irps,
         QueryWmiDataBlock(i) \/ SystemControl(i) \/ QueryDeviceText(i)
           \/ QueryCapabilities(i) \/ DefaultPnpHandler(i)
  PROVE  KernelIInv'
  <1>. SUFFICES /\ irp[i].at = "locked" /\ irp[i].kind # "power" /\ (\E ret : Answer(i, ret))
                /\ UNCHANGED <<stage, gone, locks, counts, done, powerFree>>
                /\ told' = told \/ told'[1] = told'[2]
    BY Answered
  <1>1. CASE QueryWmiDataBlock(i)
    <2>1. irp[i].at = "locked" /\ irp[i].kind = "block"
          /\ UNCHANGED <<stage, gone, locks, counts, done, powerFree>>
      BY <1>1 DEF QueryWmiDataBlock, Doing, At
    <2>2. counts = done
      BY DEF KernelIInv, Told
    <2>3. CASE "out" \in irp[i].large
      <3>1. told' = <<counts, done>> /\ Answer(i, "success")
        BY <1>1, <2>3 DEF QueryWmiDataBlock
      <3>2. told'[1] = counts /\ told'[2] = done
        BY <3>1
      <3>. QED BY <2>1, <2>2, <3>1, <3>2
    <2>4. CASE "out" \notin irp[i].large
      <3>1. told' = told /\ Answer(i, "too small")
        BY <1>1, <2>4 DEF QueryWmiDataBlock
      <3>. QED BY <2>1, <3>1
    <2>. QED BY <2>3, <2>4
  <1>2. CASE SystemControl(i)
    BY <1>2 DEF SystemControl, Doing, At
  <1>3. CASE QueryDeviceText(i)
    BY <1>3 DEF QueryDeviceText, Doing, At
  <1>4. CASE QueryCapabilities(i)
    BY <1>4 DEF QueryCapabilities, Doing, At
  <1>5. CASE DefaultPnpHandler(i)
    BY <1>5 DEF DefaultPnpHandler, Doing, At
  <1>. QED BY <1>1, <1>2, <1>3, <1>4, <1>5

\* PoStartNextPowerIrp; none comes after a surprise removal.
LEMMA PowerStep ==
  ASSUME KernelIInv, NEW i \in Irps, DispatchPower(i)
  PROVE  KernelIInv'
  <1>1. irp[i].at = "locked" /\ irp[i].kind = "power"
        /\ UNCHANGED <<stage, gone, locks, counts, done, told>>
    BY DEF DispatchPower, Doing, At
  <1>2. stage # "surprise" /\ irp[i] # NoIrp
    BY <1>1, Ends DEF KernelIInv, Power, PowerInWork
  <1>3. PICK ret : Answer(i, ret) /\ powerFree' = TRUE
    BY <1>2 DEF DispatchPower
  <1>4. Open(irp[i], counts) /\ i \in locks /\ stage # "removed"
    BY <1>1, LockedOpen DEF Inside
  <1>5. PICK y : y = [irp[i] EXCEPT !.at = "unlock", !.answers = @ + 1, !.ret = ret]
    OBVIOUS
  <1>6. irp' = [irp EXCEPT ![i] = y]
    BY <1>3, <1>5 DEF Answer, KernelIInv, Types
  <1>7. y.at = "unlock" /\ Open(y, counts) /\ y # NoIrp
    <2>1. y.at = "unlock" /\ Open(y, counts)
      BY <1>1, <1>4, <1>5 DEF Open, Fields
    <2>. QED BY <2>1, Ends
  <1>8. y.at \in Inside /\ locks' = locks \cup {i} /\ Fits(y, counts)
    BY <1>1, <1>4, <1>7 DEF Inside, Fits
  <1>9. Types' /\ Held' /\ Told'
    BY <1>1, <1>4, <1>6, <1>7, <1>8, OneSteps
  <1>. QED BY <1>1, <1>2, <1>3, <1>9 DEF KernelIInv, Power
-----------------------------------------------------------------------------
(* The invariant *)

LEMMA InitIInv ==
  ASSUME Init
  PROVE  KernelIInv
  <1>1. Zero \in [Counted -> Nat]
    BY DEF Zero
  <1>2. Types
    BY <1>1 DEF Init, Types, Fits
  <1>3. \A i \in Irps : irp[i].at = "none"
    BY Ends DEF Init
  <1>4. Held
    BY <1>3 DEF Init, Held, Inside
  <1>5. Told
    BY <1>3 DEF Init, Told
  <1>. QED BY <1>2, <1>4, <1>5 DEF KernelIInv, Init, Power

LEMMA NextIInv ==
  ASSUME AsTested, KernelIInv, [Next]_reqVars
  PROVE  KernelIInv'
  <1>1. CASE UNCHANGED reqVars
    BY <1>1 DEF reqVars, KernelIInv, Types, Held, Told, Power, PowerInWork
  <1>2. ASSUME NEW i \in Irps, Work(i) PROVE KernelIInv'
    BY <1>2, EnterStep, LeaveStep, ServeStep, CountStep, CountWrittenStep, QueryStep, PowerStep
    DEF Work
  <1>3. ASSUME NEW i \in Irps, NEW kind \in Kinds, NEW large, Send(i, kind, large) PROVE KernelIInv'
    BY <1>3, SendStep
  <1>. QED BY <1>1, <1>2, <1>3, DriverStep, AddDeviceStep, RemovalStep DEF Next

THEOREM KernelInvariant == ASSUME AsTested PROVE Spec => []KernelIInv
  <1>. QED BY InitIInv, NextIInv, PTL DEF Spec

\* For any number of requests at once: ProcessIntIoctl, DispatchSystemControl,
\* DispatchPower and DispatchPnp let each of them be answered once and give the
\* remove lock back, none works on an adapter that is removed, WMI tells the true
\* counts, and the power manager is never kept waiting.
THEOREM KernelServed == ASSUME AsTested PROVE Spec => []RequestsKept
  <1>1. ASSUME KernelIInv PROVE AnsweredOnce
    <2>1. SUFFICES ASSUME NEW i \in Irps
                   PROVE  /\ irp[i].at = "end" => irp[i].answers = 1 /\ i \notin locks
                          /\ stage = "removed" =>
                               irp[i].at \in {"none", "sent", "looked", "answer", "end"}
      BY DEF AnsweredOnce
    <2>2. irp[i].at = "end" => irp[i] = Ended(1)
      BY <1>1, Ends DEF KernelIInv, Types, Fits, Open
    <2>3. irp[i].at = "end" => irp[i].answers = 1 /\ i \notin locks
      BY <1>1, <2>2, Ends DEF KernelIInv, Held, Inside
    <2>4. irp[i].at \in {"none", "end", "sent", "looked", "locked", "counting", "served",
                         "answer", "unlock"}
      BY <1>1, Ends DEF KernelIInv, Types, Fits, Open
    <2>5. stage = "removed" => irp[i].at \notin Inside
      BY <1>1 DEF KernelIInv, Held
    <2>. QED BY <2>3, <2>4, <2>5 DEF Inside
  <1>2. ASSUME KernelIInv PROVE CountsTell /\ PowerFlows
    <2>1. (\E i \in Irps : Waiting(irp[i])) => PowerInWork
      BY DEF Waiting, PowerInWork
    <2>. QED BY <1>2, <2>1 DEF KernelIInv, Told, Power, CountsTell, PowerFlows
  <1>3. KernelIInv => RequestsKept
    BY <1>1, <1>2 DEF RequestsKept
  <1>. QED BY <1>3, KernelInvariant, PTL
-----------------------------------------------------------------------------
(***************************************************************************)
(* The start of an adapter at the USB.                                     *)
(***************************************************************************)

\* The code as it is meant: no memory is missing, no request fails while the adapter
\* is plugged in, and programs transfer only while it is started (README, Findings).
StartsAsMeant == ~Drops /\ ~PoolFails /\ ~Eager

ConfTypes ==
  /\ firmware \in Firmwares /\ vista \in BOOLEAN /\ dead \in BOOLEAN
  /\ starts \in Nat /\ iface.number \in Nat
  /\ pool = [descriptor |-> pool.descriptor, urb |-> pool.urb, iface |-> pool.iface]
  /\ pool.urb \in Int /\ pool.iface \in Nat

\* Where the handler is, and for which state of the adapter.
Reading == {"head", "all", "select"}
Handling ==
  /\ step \in {"idle", "abort", "delete"} \cup Reading
  /\ state \in {"added", "running", "stopped", "failed", "removing", "removed"}
  /\ step \in Reading => state \in {"added", "stopped"}
  /\ step \in {"abort", "delete"} <=> state = "removing"

\* A descriptor that is not whole is only ever of an adapter that has gone.
Whole ==
  /\ step = "all" => size \/ dead
  /\ step = "select" => size
  /\ ~stray

\* Blocks are kept while the descriptor is read, and one for each interface; the last
\* is freed with the adapter.
Blocks ==
  /\ pool.descriptor = IF step \in Reading THEN 1 ELSE 0
  /\ iface.number = 0 => pool.iface = 0
  /\ step \in Reading => pool.iface < starts
  /\ iface.number # 0 => pool.iface >= IF state = "removed" THEN 0 ELSE 1
  /\ pool.iface <= IF state = "removed" /\ iface.number # 0 THEN starts - 1 ELSE starts

\* Transfers are of an interface, and end before the adapter is deleted.
Transfers ==
  /\ used[1] = used[2]
  /\ iface.number = 0 => pending = {}
  /\ step = "delete" \/ state = "removed" => pending = {}

ConfIInv == ConfTypes /\ Handling /\ Whole /\ Blocks /\ Transfers /\ C!SettingFits
-----------------------------------------------------------------------------
\* A firmware has one setting or two.
LEMMA Settings ==
  ASSUME firmware \in Firmwares
  PROVE  /\ Len(firmware) \in {1, 2} /\ DOMAIN firmware = 1 .. Len(firmware)
         /\ C!Wanted \in C!Range(firmware) => C!AlternateSetting = C!Wanted
  <1>1. firmware \in Seq({"bulk", "interrupt"}) /\ Len(firmware) \in {1, 2}
    BY PartsAssumption DEF C!ConfigureAssumption
  <1>2. DOMAIN firmware = 1 .. Len(firmware)
    BY <1>1
  <1>3. ASSUME C!Wanted \in C!Range(firmware) PROVE C!AlternateSetting = C!Wanted
    <2>1. PICK i \in 1 .. Len(firmware) : firmware[i] = C!Wanted
      BY <1>2, <1>3 DEF C!Range
    <2>2. i = 1 \/ (i = 2 /\ Len(firmware) = 2)
      BY <1>1, <2>1
    <2>3. firmware[1] = C!Wanted \/ (Len(firmware) = 2 /\ firmware[2] = C!Wanted)
      BY <2>1, <2>2
    <2>. QED BY <2>3 DEF C!AlternateSetting
  <1>. QED BY <1>1, <1>2, <1>3

\* What the blocks of the pool are after one of them was taken or given back.
LEMMA PoolField ==
  ASSUME ConfTypes, NEW n
  PROVE  /\ [pool EXCEPT !.descriptor = n] =
              [descriptor |-> n, urb |-> pool.urb, iface |-> pool.iface]
         /\ [pool EXCEPT !.iface = n] =
              [descriptor |-> pool.descriptor, urb |-> pool.urb, iface |-> n]
  <1>1. PICK d, u, i : pool = [descriptor |-> d, urb |-> u, iface |-> i]
    BY DEF ConfTypes
  <1>. QED BY <1>1

LEMMA StartStep ==
  ASSUME StartsAsMeant, ConfIInv, C!Start
  PROVE  ConfIInv'
  <1>1. C!Memory = {TRUE}
    BY DEF StartsAsMeant, C!Memory
  <1>2. /\ step = "idle" /\ state \in {"added", "stopped"} /\ starts' = starts + 1
        /\ pool' = [pool EXCEPT !.descriptor = pool.descriptor + 1] /\ step' = "head"
        /\ UNCHANGED <<state, bus, iface, stray, firmware, vista, dead, size, pending, used>>
    BY <1>1 DEF C!Start, C!link
  <1>3. pool.descriptor = 0 /\ starts \in Nat
    BY <1>2 DEF ConfIInv, Blocks, ConfTypes, Reading
  <1>4. pool' = [descriptor |-> 1, urb |-> pool.urb, iface |-> pool.iface]
    <2>1. pool' = [pool EXCEPT !.descriptor = 1]
      BY <1>2, <1>3
    <2>. QED BY <2>1, PoolField DEF ConfIInv
  <1>5. ConfTypes'
    BY <1>2, <1>3, <1>4 DEF ConfIInv, ConfTypes
  <1>6. Handling' /\ Whole' /\ Transfers' /\ C!SettingFits'
    BY <1>2 DEF ConfIInv, Handling, Whole, Transfers, C!SettingFits, C!Wanted, C!Range, Reading
  <1>7. Blocks'
    <2>1. pool'.iface = pool.iface /\ pool'.descriptor = 1 /\ pool.iface \in Nat
      BY <1>4 DEF ConfIInv, ConfTypes
    <2>2. pool.iface <= starts
      BY <1>2 DEF ConfIInv, Blocks
    <2>. QED BY <1>2, <1>3, <2>1, <2>2 DEF ConfIInv, Blocks, Reading
  <1>. QED BY <1>5, <1>6, <1>7 DEF ConfIInv

\* A start that fails gives the descriptor back.
LEMMA Failed ==
  ASSUME ConfIInv, step \in Reading, C!Fail,
         pool' = [pool EXCEPT !.descriptor = pool.descriptor - 1],
         UNCHANGED <<firmware, vista, dead, pending, used, starts>>
  PROVE  ConfIInv'
  <1>1. state' = "failed" /\ step' = "idle" /\ UNCHANGED <<bus, iface, stray>>
    BY DEF C!Fail
  <1>2. pool.descriptor = 1
    BY DEF ConfIInv, Blocks
  <1>3. PICK n : n = 0 /\ pool' = [pool EXCEPT !.descriptor = n]
    BY <1>2
  <1>4. pool' = [descriptor |-> n, urb |-> pool.urb, iface |-> pool.iface]
    BY <1>3, PoolField DEF ConfIInv
  <1>5. ConfTypes'
    BY <1>1, <1>4 DEF ConfIInv, ConfTypes
  <1>6. Handling' /\ Whole' /\ Transfers' /\ C!SettingFits'
    BY <1>1 DEF ConfIInv, Handling, Whole, Transfers, C!SettingFits, Reading
  <1>7. Blocks'
    <2>1. pool'.iface = pool.iface /\ pool'.descriptor = 0
      BY <1>3, <1>4
    <2>2. /\ state \in {"added", "stopped"} /\ pool.iface < starts
          /\ pool.iface \in Nat /\ starts \in Nat
      BY DEF ConfIInv, ConfTypes, Blocks, Handling
    <2>. QED BY <1>1, <2>1, <2>2 DEF ConfIInv, Blocks, Reading
  <1>. QED BY <1>5, <1>6, <1>7 DEF ConfIInv

\* A step of the handler that goes on to another of the steps of a start.
LEMMA StartGoesOn ==
  ASSUME ConfIInv, step \in Reading, step' \in Reading,
         UNCHANGED <<firmware, vista, dead, state, bus, iface, pool, pending, used, stray, starts>>,
         step' = "all" => size' \/ dead, step' = "select" => size'
  PROVE  ConfIInv'
  <1>1. ConfTypes' /\ Handling' /\ Whole'
    BY DEF ConfIInv, ConfTypes, Handling, Whole, Reading
  <1>2. Blocks'
    BY DEF ConfIInv, Blocks
  <1>3. Transfers' /\ C!SettingFits'
    BY DEF ConfIInv, Transfers, C!SettingFits, C!Wanted, C!Range, Reading
  <1>. QED BY <1>1, <1>2, <1>3 DEF ConfIInv

LEMMA ReadHeadStep ==
  ASSUME StartsAsMeant, ConfIInv, C!ReadHead
  PROVE  ConfIInv'
  <1>1. C!Memory = {TRUE} /\ C!CallUSBD \cup (IF Drops THEN {FALSE} ELSE {}) = {~dead}
    BY DEF StartsAsMeant, C!Memory, C!CallUSBD
  <1>2. /\ step = "head" /\ step' = "all"
        /\ UNCHANGED <<firmware, vista, dead, state, bus, iface, pool, pending, used, stray, starts>>
    BY <1>1 DEF C!ReadHead, C!link
  <1>3. size' \/ dead
    <2>1. ASSUME ~dead PROVE size'
      <3>1. C!CallUSBD \cup (IF Drops THEN {FALSE} ELSE {}) = {TRUE}
        BY <1>1, <2>1
      <3>2. PICK ok \in C!CallUSBD \cup (IF Drops THEN {FALSE} ELSE {}) :
              IF ok THEN size' = TRUE ELSE size' \in BOOLEAN
        BY Zenon DEF C!ReadHead
      <3>3. ok
        BY <3>1
      <3>. QED BY <3>2, <3>3
    <2>. QED BY <2>1
  <1>4. step \in Reading /\ step' \in Reading /\ step' # "select"
    BY <1>2 DEF Reading
  <1>. QED BY <1>2, <1>3, <1>4, StartGoesOn

LEMMA DescriptorsStep ==
  ASSUME StartsAsMeant, ConfIInv, C!Descriptors
  PROVE  ConfIInv'
  <1>1. step = "all" /\ UNCHANGED <<firmware, vista, dead, size, pending, used, starts>>
    BY DEF C!Descriptors, C!link
  <1>2. CASE dead
    <2>1. C!Fail /\ pool' = [pool EXCEPT !.descriptor = pool.descriptor - 1]
      BY <1>2 DEF C!Descriptors, C!CallUSBD
    <2>. QED BY <1>1, <2>1, Failed DEF Reading
  <1>3. CASE ~dead
    <2>1. step' = "select" /\ UNCHANGED <<state, pool, bus, iface, stray>>
      BY <1>3 DEF C!Descriptors, C!CallUSBD
    <2>2. size'
      BY <1>1, <1>3 DEF ConfIInv, Whole
    <2>. QED BY <1>1, <2>1, <2>2, StartGoesOn DEF Reading
  <1>. QED BY <1>2, <1>3

LEMMA SelectInterfacesStep ==
  ASSUME StartsAsMeant, ConfIInv, C!SelectInterfaces
  PROVE  ConfIInv'
  <1>1. C!Memory = {TRUE} /\ C!CallUSBD = {~dead}
    BY DEF StartsAsMeant, C!Memory, C!CallUSBD
  <1>2. /\ step = "select" /\ step' = "idle"
        /\ UNCHANGED <<firmware, vista, dead, size, pending, used, starts>>
        /\ stray' = (stray \/ ~size)
        /\ bus' = IF ~dead THEN [number |-> starts, setting |-> C!AlternateSetting] ELSE bus
        /\ iface' = IF ~dead THEN bus' ELSE iface
        /\ pool' = [descriptor |-> pool.descriptor - 1, urb |-> pool.urb + 1,
                    iface |-> IF ~dead THEN pool.iface + 1 ELSE pool.iface]
        /\ state' = IF ~dead THEN "running" ELSE "failed"
    BY <1>1 DEF C!SelectInterfaces, C!link
  <1>3. /\ pool.descriptor = 1 /\ pool.iface \in Nat /\ pool.urb \in Int /\ starts \in Nat
        /\ pool.iface < starts /\ state \in {"added", "stopped"} /\ iface.number \in Nat
    BY <1>2 DEF ConfIInv, ConfTypes, Blocks, Handling, Reading
  <1>4. /\ pool'.descriptor = 0 /\ pool'.urb = pool.urb + 1
        /\ pool'.iface = IF ~dead THEN pool.iface + 1 ELSE pool.iface
        /\ pool' = [descriptor |-> pool'.descriptor, urb |-> pool'.urb, iface |-> pool'.iface]
    BY <1>2, <1>3
  <1>5. dead \/ (iface' = bus' /\ bus'.number = starts /\ bus'.setting = C!AlternateSetting)
    BY <1>2
  <1>6. ConfTypes'
    BY <1>2, <1>3, <1>4, <1>5 DEF ConfIInv, ConfTypes
  <1>7. Handling' /\ Whole' /\ Transfers'
    <2>1. Handling'
      BY <1>2, <1>3 DEF Handling, Reading
    <2>2. Whole'
      BY <1>2 DEF ConfIInv, Whole
    <2>3. iface'.number = 0 => iface.number = 0
      BY <1>2, <1>3
    <2>4. Transfers'
      BY <1>2, <2>3 DEF ConfIInv, Transfers
    <2>. QED BY <2>1, <2>2, <2>4
  <1>8. Blocks'
    BY <1>2, <1>3, <1>4, <1>5 DEF ConfIInv, Blocks, Reading
  <1>9. C!SettingFits'
    BY <1>2, <1>5, Settings DEF ConfIInv, ConfTypes, C!SettingFits, C!Wanted, C!Range
  <1>. QED BY <1>6, <1>7, <1>8, <1>9 DEF ConfIInv

LEMMA StopDeviceStep ==
  ASSUME ConfIInv, C!StopDevice
  PROVE  ConfIInv'
  <1>1. /\ step = "idle" /\ state = "running" /\ state' = "stopped"
        /\ pending' = {} \/ pending' = pending
        /\ UNCHANGED <<firmware, vista, dead, step, size, iface, pool, used, stray, starts>>
    BY DEF C!StopDevice, C!link
  <1>2. ConfTypes' /\ Handling' /\ Whole' /\ Transfers' /\ C!SettingFits'
    BY <1>1 DEF ConfIInv, ConfTypes, Handling, Whole, Transfers, C!SettingFits, Reading
  <1>3. Blocks'
    BY <1>1 DEF ConfIInv, Blocks, Reading
  <1>. QED BY <1>2, <1>3 DEF ConfIInv

LEMMA RemoveStep ==
  ASSUME ConfIInv, C!Remove
  PROVE  ConfIInv'
  <1>1. /\ step = "idle" /\ state' = "removing" /\ state # "removed"
        /\ step' = IF iface.number = 0 THEN "delete" ELSE "abort"
        /\ UNCHANGED <<firmware, vista, dead, size, bus, iface, pool, pending, used, stray, starts>>
    BY DEF C!Remove, C!link
  <1>2. ConfTypes' /\ Handling' /\ Whole' /\ Transfers' /\ C!SettingFits'
    BY <1>1 DEF ConfIInv, ConfTypes, Handling, Whole, Transfers, C!SettingFits, Reading
  <1>3. Blocks'
    BY <1>1 DEF ConfIInv, Blocks, Reading
  <1>. QED BY <1>2, <1>3 DEF ConfIInv

LEMMA AbortPipeStep ==
  ASSUME StartsAsMeant, ConfIInv, C!AbortPipe
  PROVE  ConfIInv'
  <1>1. /\ step = "abort" /\ step' = "delete" /\ pending' = {}
        /\ UNCHANGED <<firmware, vista, dead, state, size, bus, iface, pool, used, stray, starts>>
    BY DEF C!AbortPipe, C!link, StartsAsMeant
  <1>2. ConfTypes' /\ Handling' /\ Whole' /\ Transfers' /\ C!SettingFits'
    BY <1>1 DEF ConfIInv, ConfTypes, Handling, Whole, Transfers, C!SettingFits, C!Wanted,
                C!Range, Reading
  <1>3. Blocks'
    BY <1>1 DEF ConfIInv, Blocks, Reading
  <1>. QED BY <1>2, <1>3 DEF ConfIInv

LEMMA DeleteStep ==
  ASSUME ConfIInv, C!Delete
  PROVE  ConfIInv'
  <1>1. /\ step = "delete" /\ step' = "idle" /\ state' = "removed"
        /\ pool' = IF iface.number = 0 THEN pool ELSE [pool EXCEPT !.iface = pool.iface - 1]
        /\ UNCHANGED <<firmware, vista, dead, size, bus, iface, pending, used, stray, starts>>
    BY DEF C!Delete, C!link
  <1>2. /\ state = "removing" /\ pool.descriptor = 0 /\ pool.iface \in Nat /\ starts \in Nat
        /\ iface.number = 0 => pool.iface = 0
        /\ iface.number # 0 => pool.iface >= 1
        /\ pool.iface <= starts /\ pool.urb \in Int
    BY <1>1 DEF ConfIInv, ConfTypes, Handling, Blocks, Reading
  <1>3. /\ pool' = [descriptor |-> pool'.descriptor, urb |-> pool'.urb, iface |-> pool'.iface]
        /\ pool'.descriptor = 0 /\ pool'.urb = pool.urb
        /\ pool'.iface = IF iface.number = 0 THEN 0 ELSE pool.iface - 1
    <2>1. CASE iface.number = 0
      BY <1>1, <1>2, <2>1 DEF ConfIInv, ConfTypes
    <2>2. CASE iface.number # 0
      <3>1. pool' = [descriptor |-> pool.descriptor, urb |-> pool.urb, iface |-> pool.iface - 1]
        BY <1>1, <2>2, PoolField DEF ConfIInv
      <3>. QED BY <1>2, <2>2, <3>1
    <2>. QED BY <2>1, <2>2
  <1>4. ConfTypes'
    BY <1>1, <1>2, <1>3 DEF ConfIInv, ConfTypes
  <1>5. Handling' /\ Whole' /\ Transfers' /\ C!SettingFits'
    BY <1>1 DEF ConfIInv, Handling, Whole, Transfers, C!SettingFits, Reading
  <1>6. Blocks'
    BY <1>1, <1>2, <1>3 DEF ConfIInv, Blocks, Reading
  <1>. QED BY <1>4, <1>5, <1>6 DEF ConfIInv

\* What programs, the device and the plug do leaves the handler alone.
LEMMA OutsideStep ==
  ASSUME ConfIInv,
         UNCHANGED <<firmware, vista, state, step, size, bus, iface, pool, stray, starts>>,
         dead' \in BOOLEAN, dead => dead', Transfers'
  PROVE  ConfIInv'
  <1>1. ConfTypes' /\ Handling' /\ Whole'
    BY DEF ConfIInv, ConfTypes, Handling, Whole
  <1>2. Blocks' /\ C!SettingFits'
    BY DEF ConfIInv, Blocks, C!SettingFits, C!Wanted, C!Range
  <1>. QED BY <1>1, <1>2 DEF ConfIInv

LEMMA ProgramStep ==
  ASSUME StartsAsMeant, ConfIInv, NEW p, C!Transfer(p) \/ C!Done(p)
  PROVE  ConfIInv'
  <1>1. UNCHANGED <<firmware, vista, dead, state, step, size, bus, iface, pool, stray, starts>>
    BY DEF C!Transfer, C!Done, C!link
  <1>2. CASE C!Transfer(p)
    <2>1. state = "running" /\ step = "idle" /\ iface.number # 0
          /\ used' = <<iface.number, bus.number>>
      BY <1>2 DEF C!Transfer, StartsAsMeant
    <2>2. Transfers'
      BY <1>1, <2>1 DEF ConfIInv, Transfers, C!SettingFits
    <2>. QED BY <1>1, <2>2, OutsideStep DEF ConfIInv, ConfTypes
  <1>3. CASE C!Done(p)
    <2>1. UNCHANGED used /\ pending' = pending \ {p}
      BY <1>3 DEF C!Done
    <2>2. Transfers'
      BY <1>1, <2>1 DEF ConfIInv, Transfers
    <2>. QED BY <1>1, <2>2, OutsideStep DEF ConfIInv, ConfTypes
  <1>. QED BY <1>2, <1>3

LEMMA UnplugStep ==
  ASSUME ConfIInv, C!Unplug
  PROVE  ConfIInv'
  <1>1. /\ dead' = TRUE /\ pending' = {}
        /\ UNCHANGED <<firmware, vista, state, step, size, bus, iface, pool, used, stray, starts>>
    BY DEF C!Unplug, C!link
  <1>2. Transfers'
    BY <1>1 DEF ConfIInv, Transfers
  <1>. QED BY <1>1, <1>2, OutsideStep

LEMMA ConfInit ==
  ASSUME C!Init
  PROVE  ConfIInv
  <1>1. ConfTypes
    <2>1. pool = [descriptor |-> 0, urb |-> 0, iface |-> 0]
      BY DEF C!Init
    <2>2. pool.urb = 0 /\ pool.iface = 0
          /\ pool = [descriptor |-> pool.descriptor, urb |-> pool.urb, iface |-> pool.iface]
      BY <2>1
    <2>3. /\ firmware \in Firmwares /\ vista \in BOOLEAN /\ dead \in BOOLEAN
          /\ starts \in Nat /\ iface.number \in Nat
      BY DEF C!Init, C!Off
    <2>. QED BY <2>2, <2>3 DEF ConfTypes
  <1>4. Handling /\ Whole
    BY DEF C!Init, Handling, Whole, Reading
  <1>2. Blocks
    BY DEF C!Init, C!Off, Blocks, Reading
  <1>3. Transfers /\ C!SettingFits
    BY DEF C!Init, Transfers, C!SettingFits
  <1>. QED BY <1>1, <1>2, <1>3, <1>4 DEF ConfIInv

LEMMA ConfNext ==
  ASSUME StartsAsMeant, ConfIInv, [C!Next]_(C!confVars)
  PROVE  ConfIInv'
  <1>1. CASE UNCHANGED C!confVars
    <2>1. UNCHANGED <<firmware, vista, dead, state, step, size, bus, iface, pool, pending, used,
                      stray, starts>>
      BY <1>1 DEF C!confVars, C!link
    <2>2. Transfers'
      BY <2>1 DEF ConfIInv, Transfers
    <2>. QED BY <2>1, <2>2, OutsideStep DEF ConfIInv, ConfTypes
  <1>2. CASE C!Next
    BY <1>2, StartStep, ReadHeadStep, DescriptorsStep, SelectInterfacesStep, StopDeviceStep,
       RemoveStep, AbortPipeStep, DeleteStep, ProgramStep, UnplugStep DEF C!Next
  <1>. QED BY <1>1, <1>2

\* For every order of starts, stops, transfers, the removal and the unplugging:
\* SelectInterfaces leaves a started adapter in the setting that suits the system, with
\* X->Interface of the setting in use, no transfer uses a handle of an earlier
\* configuration, and RemoveDevice leaves neither transfers nor blocks behind.
THEOREM StartsHold == ASSUME StartsAsMeant PROVE C!Spec => []StartHolds
  <1>1. C!Init => ConfIInv
    BY ConfInit
  <1>2. ConfIInv /\ [C!Next]_(C!confVars) => ConfIInv'
    BY ConfNext
  <1>3. ConfIInv => StartHolds
    <2>1. ASSUME ConfIInv PROVE C!Clean
      <3>1. used[1] = used[2] /\ (state = "removed" => pending = {} /\ step \notin Reading)
        BY <2>1 DEF ConfIInv, Transfers, Handling
      <3>2. state = "removed" => pool.descriptor = 0
        BY <2>1, <3>1 DEF ConfIInv, Blocks
      <3>3. ASSUME state = "removed", starts <= 1 PROVE pool.iface = 0
        BY <2>1, <3>3 DEF ConfIInv, Blocks, ConfTypes
      <3>. QED BY <3>1, <3>2, <3>3 DEF C!Clean
    <2>. QED BY <2>1 DEF ConfIInv, Whole, StartHolds, C!StartHolds
  <1>. QED BY <1>1, <1>2, <1>3, PTL DEF C!Spec
-----------------------------------------------------------------------------
(***************************************************************************)
(* The names of an adapter's port.                                         *)
(***************************************************************************)

\* Others make a link only with a device object, the registry has no number for an
\* adapter that was never there, and there is memory for the names.
AsInstalled == ~LinkOnly /\ ~Moved /\ ~NamesFail

Places == {"out", "try", "link", "link and write", "present", "failed"}
Takes(a) == naming[a].at \in {"link", "link and write"}
There(a) == naming[a].at = "present"
Numbered(a) == reg[a].cfg \/ There(a)
Occupied(a) == naming[a].at \in {"try", "link", "link and write"}

NameTypes ==
  /\ nt \in BOOLEAN
  /\ devices \in [N!Numbers -> Adapters \cup {N!Other, N!Nobody}]
  /\ links \in [N!Numbers -> Adapters \cup {N!Other, N!Nobody}]
  /\ others \in [N!Numbers -> {"none", "bios", "port"}]
  /\ naming \in [Adapters -> [at : Places, n : Int]]
  /\ instance \in [Adapters -> Int]
  /\ reg \in [Adapters -> [port : N!Numbers, cfg : BOOLEAN]]
  /\ lowest \in Int

\* A port of others has both names.
OthersOwn ==
  /\ \A n \in N!Numbers : (others[n] = "port") <=> (links[n] = N!Other)
  /\ \A n \in N!Numbers : (others[n] = "port") <=> (devices[n] = N!Other)
  /\ \A n \in N!Numbers : others[n] = "bios" => ~nt /\ n \in N!Bios

\* What an adapter has: the device object as soon as it has chosen a number, the
\* link once it is present.
AdaptersOwn ==
  /\ \A a \in Adapters : Occupied(a) => naming[a].n \in N!Numbers
  /\ \A a \in Adapters : There(a) => instance[a] \in N!Numbers
  /\ \A a \in Adapters, n \in N!Numbers : Takes(a) /\ naming[a].n = n => devices[n] = a
  /\ \A a \in Adapters, n \in N!Numbers : There(a) /\ instance[a] = n => devices[n] = a
  /\ \A a \in Adapters, n \in N!Numbers : (links[n] = a) <=> (There(a) /\ instance[a] = n)

\* The number in the registry.
Registered ==
  /\ \A a \in Adapters : There(a) => reg[a].port = instance[a]
  /\ \A a \in Adapters : naming[a].at = "link" => reg[a].cfg /\ reg[a].port = naming[a].n
  /\ \A a \in Adapters, n \in N!Numbers :
       Numbered(a) /\ reg[a].port = n => others[n] # "bios"
  /\ \A a \in Adapters, n \in N!Numbers :
       naming[a].at = "link and write" /\ naming[a].n = n => others[n] # "bios"

\* The search passes no number that stays free.
Searched ==
  /\ \A a \in Adapters : naming[a].at = "try" =>
       /\ naming[a].n <= lowest
       /\ lowest = Limit \/ (lowest \in N!FreeNumbers /\ ~N!Skipped(lowest))
  /\ \A a \in Adapters : naming[a].at = "link and write" => naming[a].n <= lowest
  /\ \A a, b \in Adapters : Occupied(a) /\ Occupied(b) => a = b

NamesIInv == NameTypes /\ OthersOwn /\ AdaptersOwn /\ Registered /\ Searched

LEMMA NamesSettings ==
  /\ Limit \in Nat /\ Limit > 0 /\ N!Numbers \subseteq Nat /\ 0 \in N!Numbers /\ Limit - 1 \in N!Numbers
  /\ \A n \in N!Numbers : n < Limit
  /\ \A n \in N!Numbers : n < Limit - 1 => n + 1 \in N!Numbers
  /\ N!None \notin N!Numbers
  /\ N!Other \notin Adapters /\ N!Nobody \notin Adapters /\ N!Other # N!Nobody
  BY PartsAssumption DEF N!PortNamesAssumption, N!Numbers, N!None, N!Other, N!Nobody

LEMMA LeastOf ==
  ASSUME NEW X \in SUBSET Nat, X # {}
  PROVE  N!Min(X) \in X /\ \A m \in X : N!Min(X) <= m
  <1>. DEFINE Less == {p \in Nat \X Nat : p[1] < p[2]}
  <1>1. IsWellFoundedOn(Less, Nat)
    BY NatLessThanWellFounded DEF OpToRel
  <1>. HIDE DEF Less
  <1>2. PICK n \in X : \A m \in X : ~(<<m, n>> \in Less)
    BY <1>1, WFMin
  <1>3. \A m \in X : ~(m < n)
    BY <1>2 DEF Less
  <1>4. \E k \in X : \A m \in X : k <= m
    BY <1>3
  <1>. QED BY <1>4 DEF N!Min

LEMMA OneMoves ==
  ASSUME NameTypes, NEW a \in Adapters, NEW p \in Places, NEW k \in Int,
         naming' = [naming EXCEPT ![a] = [at |-> p, n |-> k]]
  PROVE  /\ naming' \in [Adapters -> [at : Places, n : Int]]
         /\ naming'[a].at = p /\ naming'[a].n = k
         /\ \A b \in Adapters : b # a => naming'[b] = naming[b]
         /\ \A b \in Adapters : Takes(b)' <=> IF b = a THEN p \in {"link", "link and write"} ELSE Takes(b)
         /\ \A b \in Adapters : There(b)' <=> IF b = a THEN p = "present" ELSE There(b)
         /\ \A b \in Adapters : Occupied(b)' <=> IF b = a THEN p \in {"try", "link", "link and write"}
                                                         ELSE Occupied(b)
  <1>1. naming \in [Adapters -> [at : Places, n : Int]]
    BY DEF NameTypes
  <1>2. [at |-> p, n |-> k] \in [at : Places, n : Int]
    OBVIOUS
  <1>3. naming' \in [Adapters -> [at : Places, n : Int]]
    BY <1>1, <1>2
  <1>4. naming'[a].at = p /\ naming'[a].n = k
    BY <1>1
  <1>5. \A b \in Adapters : b # a => naming'[b] = naming[b]
    BY <1>1
  <1>6. \A b \in Adapters : Takes(b)' <=> IF b = a THEN p \in {"link", "link and write"} ELSE Takes(b)
    BY <1>4, <1>5 DEF Takes
  <1>7. \A b \in Adapters : There(b)' <=> IF b = a THEN p = "present" ELSE There(b)
    BY <1>4, <1>5 DEF There
  <1>8. \A b \in Adapters : Occupied(b)' <=> IF b = a THEN p \in {"try", "link", "link and write"}
                                                     ELSE Occupied(b)
    BY <1>4, <1>5 DEF Occupied
  <1>. QED BY <1>3, <1>4, <1>5, <1>6, <1>7, <1>8

LEMMA NamesInit == ASSUME AsInstalled, N!Init PROVE NamesIInv
  <1>0. \A a \in Adapters : naming[a].at = "out"
    BY DEF N!Init, N!Out
  <1>. DEFINE P == [at : Places, n : Int]
  <1>a. [at |-> "out", n |-> -1] \in P
    BY DEF Places
  <1>b. naming \in [Adapters -> P] /\ instance \in [Adapters -> Int]
    BY <1>a DEF N!Init, N!Out, N!None
  <1>c. reg \in [Adapters -> [port : N!Numbers, cfg : BOOLEAN]]
    BY NamesSettings DEF AsInstalled, N!Init
  <1>d. others \in [N!Numbers -> {"none", "bios", "port"}]
    BY DEF N!Init
  <1>1. NameTypes
    BY <1>b, <1>c, <1>d DEF N!Init, NameTypes, N!None
  <1>2. OthersOwn
    BY NamesSettings, Zenon DEF N!Init, OthersOwn, N!Other, N!Nobody
  <1>3. AdaptersOwn
    BY <1>0, NamesSettings DEF N!Init, AdaptersOwn, Takes, There, Occupied
  <1>4. Registered
    <2>1. \A a \in Adapters : ~Numbered(a)
      BY <1>0 DEF AsInstalled, N!Init, Numbered, There
    <2>. QED BY <2>1, <1>0 DEF Registered, There
  <1>5. Searched
    BY <1>0 DEF Searched, Occupied
  <1>. QED BY <1>1, <1>2, <1>3, <1>4, <1>5 DEF NamesIInv

LEMMA StartNaming ==
  ASSUME AsInstalled, NamesIInv, NEW a \in Adapters, N!AddDevice(a)
  PROVE  NamesIInv'
  <1>. DEFINE Candidates == {n \in N!FreeNumbers : ~N!Skipped(n)} \cup {Limit}
  <1>. USE DEF NamesIInv
  <1>1. N!Min(Candidates) \in Candidates /\ lowest' = N!Min(Candidates)
    BY NamesSettings, LeastOf DEF N!AddDevice, N!FreeNumbers
  <1>2. lowest' = Limit \/ (lowest' \in N!FreeNumbers /\ ~N!Skipped(lowest'))
    BY <1>1
  <1>3. lowest' \in Nat
    BY <1>2, NamesSettings DEF N!FreeNumbers
  <1>. HIDE DEF Candidates
  <1>4. \A b \in Adapters : ~Occupied(b)
    BY DEF N!AddDevice, N!Busy, Occupied, NameTypes, Places
  <1>5. UNCHANGED <<nt, links, others, instance, reg>> /\ naming[a].at = "out"
    BY DEF N!AddDevice
  <1>6. \A b \in Adapters : ~Takes(b) /\ ~(There(b) /\ b = a)
    BY <1>4, <1>5 DEF Takes, There, Occupied
  <1>7. CASE N!GetPortIndex(a) \in N!FreeNumbers
    <2>1. PICK k \in N!Numbers : k = N!GetPortIndex(a) /\ devices[k] = N!Nobody
      BY <1>7 DEF N!FreeNumbers
    <2>2. reg[a].cfg /\ reg[a].port = k
      BY <2>1, NamesSettings DEF N!GetPortIndex
    <2>3. /\ naming' = [naming EXCEPT ![a] = [at |-> "link", n |-> k]]
          /\ devices' = [devices EXCEPT ![k] = a]
      BY <1>7, <2>1 DEF N!AddDevice
    <2>4. "link" \in Places /\ k \in Int
      BY NamesSettings DEF Places
    <2>. DEFINE Moves == /\ naming'[a].at = "link" /\ naming'[a].n = k
                         /\ \A b \in Adapters : b # a => naming'[b] = naming[b]
                         /\ \A b \in Adapters : Takes(b)' <=> b = a
                         /\ \A b \in Adapters : There(b)' <=> There(b)
                         /\ \A b \in Adapters : Occupied(b)' <=> b = a
    <2>5. Moves /\ naming' \in [Adapters -> [at : Places, n : Int]]
      BY <2>3, <2>4, <1>4, <1>6, OneMoves
    <2>6. others[k] # "port"
      BY <2>1, NamesSettings DEF OthersOwn
    <2>7. devices' \in [N!Numbers -> Adapters \cup {N!Other, N!Nobody}]
      BY <2>3 DEF NameTypes
    <2>8. \A n \in N!Numbers : devices'[n] = IF n = k THEN a ELSE devices[n]
      BY <2>3 DEF NameTypes
    <2>9. NameTypes'
      BY <2>5, <2>7, <1>3, <1>5 DEF NameTypes
    <2>10. OthersOwn'
      BY <2>1, <2>6, <2>8, <1>5, NamesSettings DEF OthersOwn
    <2>11. AdaptersOwn'
      BY <2>1, <2>5, <2>8, <1>5, NamesSettings DEF AdaptersOwn
    <2>12. Registered'
      <3>1. \A b \in Adapters : Numbered(b)' => Numbered(b)
        BY <2>2, <2>5, <1>5, Zenon DEF Numbered
      <3>2. \A b \in Adapters : naming'[b].at \in {"link", "link and write"} => b = a
        BY <2>5 DEF Takes
      <3>. QED BY <3>1, <3>2, <2>2, <2>5, <1>5 DEF Registered
    <2>13. Searched'
      BY <2>5, <1>4 DEF Searched, Occupied
    <2>. QED BY <2>9, <2>10, <2>11, <2>12, <2>13
  <1>8. CASE N!GetPortIndex(a) \notin N!FreeNumbers
    <2>3. /\ naming' = [naming EXCEPT ![a] = [at |-> "try", n |-> 0]]
          /\ devices' = devices
      BY <1>8 DEF N!AddDevice
    <2>4. "try" \in Places /\ 0 \in Int
      BY DEF Places
    <2>. DEFINE Moves == /\ naming'[a].at = "try" /\ naming'[a].n = 0
                         /\ \A b \in Adapters : b # a => naming'[b] = naming[b]
                         /\ \A b \in Adapters : ~Takes(b)'
                         /\ \A b \in Adapters : There(b)' <=> There(b)
                         /\ \A b \in Adapters : Occupied(b)' <=> b = a
    <2>5. Moves /\ naming' \in [Adapters -> [at : Places, n : Int]]
      BY <2>3, <2>4, <1>4, <1>6, OneMoves
    <2>6. NameTypes'
      BY <2>3, <2>5, <1>3, <1>5 DEF NameTypes
    <2>7. OthersOwn'
      BY <2>3, <1>5 DEF OthersOwn
    <2>8. AdaptersOwn'
      BY <2>3, <2>5, <1>5, NamesSettings DEF AdaptersOwn
    <2>9. Registered'
      <3>1. \A b \in Adapters : Numbered(b)' => Numbered(b)
        BY <2>5, <1>5, Zenon DEF Numbered
      <3>2. \A b \in Adapters : naming'[b].at \notin {"link", "link and write"}
        BY <2>5 DEF Takes
      <3>. QED BY <3>1, <3>2, <2>5, <1>5 DEF Registered
    <2>10. lowest' = Limit \/ (lowest' \in N!FreeNumbers' /\ ~N!Skipped(lowest)')
      BY <2>3, <1>2, <1>5 DEF N!FreeNumbers, N!Skipped
    <2>11. \A b \in Adapters : naming'[b].at = "try" => b = a
      BY <2>5 DEF Occupied
    <2>12. \A b \in Adapters : naming'[b].at # "link and write"
      BY <2>5 DEF Takes
    <2>13. Searched'
      <3>1. naming'[a].n <= lowest'
        BY <2>5, <1>3
      <3>. QED BY <3>1, <2>5, <2>10, <2>11, <2>12 DEF Searched
    <2>. QED BY <2>6, <2>7, <2>8, <2>9, <2>13
  <1>. QED BY <1>7, <1>8

LEMMA TryNaming ==
  ASSUME AsInstalled, NamesIInv, NEW a \in Adapters, N!TryNext(a)
  PROVE  NamesIInv'
  <1>. USE DEF NamesIInv
  <1>1. UNCHANGED <<nt, links, others, instance, reg, lowest>> /\ naming[a].at = "try"
    BY DEF N!TryNext
  <1>2. PICK k \in N!Numbers : k = naming[a].n
    BY <1>1 DEF AdaptersOwn, Occupied
  <1>3. \A b \in Adapters : Occupied(b) <=> b = a
    BY <1>1 DEF Searched, Occupied
  <1>4. k <= lowest /\ (lowest = Limit \/ (lowest \in N!FreeNumbers /\ ~N!Skipped(lowest)))
    BY <1>1, <1>2 DEF Searched
  <1>5. k \in Nat /\ k < Limit /\ lowest \in Int /\ Limit \in Nat
    BY NamesSettings DEF NameTypes
  <1>6. \A b \in Adapters : ~Takes(b) /\ ~(There(b) /\ b = a)
    BY <1>1, <1>3 DEF Takes, There, Occupied
  <1>7. CASE k \in N!FreeNumbers /\ ~N!Skipped(k)
    <2>1. /\ naming' = [naming EXCEPT ![a] = [at |-> "link and write", n |-> k]]
          /\ devices' = [devices EXCEPT ![k] = a]
      BY <1>7, <1>2 DEF N!TryNext
    <2>2. devices[k] = N!Nobody
      BY <1>7 DEF N!FreeNumbers
    <2>3. others[k] # "port"
      BY <2>2, NamesSettings DEF OthersOwn
    <2>4. others[k] # "bios"
      BY <1>7 DEF N!Skipped, OthersOwn
    <2>5. "link and write" \in Places /\ k \in Int
      BY NamesSettings DEF Places
    <2>. DEFINE Moves == /\ naming'[a].at = "link and write" /\ naming'[a].n = k
                         /\ \A b \in Adapters : b # a => naming'[b] = naming[b]
                         /\ \A b \in Adapters : Takes(b)' <=> b = a
                         /\ \A b \in Adapters : There(b)' <=> There(b)
                         /\ \A b \in Adapters : Occupied(b)' <=> b = a
    <2>6. Moves /\ naming' \in [Adapters -> [at : Places, n : Int]]
      BY <2>1, <2>5, <1>3, <1>6, OneMoves
    <2>7. devices' \in [N!Numbers -> Adapters \cup {N!Other, N!Nobody}]
      BY <2>1 DEF NameTypes
    <2>8. \A n \in N!Numbers : devices'[n] = IF n = k THEN a ELSE devices[n]
      BY <2>1 DEF NameTypes
    <2>9. NameTypes'
      BY <2>6, <2>7, <1>1 DEF NameTypes
    <2>10. OthersOwn'
      BY <2>2, <2>3, <2>8, <1>1, NamesSettings DEF OthersOwn
    <2>11. AdaptersOwn'
      <3>1. \A b \in Adapters, n \in N!Numbers : devices[n] = b => devices'[n] = b
        BY <2>2, <2>8, NamesSettings
      <3>2. \A b \in Adapters, n \in N!Numbers : Takes(b)' /\ naming'[b].n = n => devices'[n] = b
        BY <2>6, <2>8
      <3>3. \A b \in Adapters : Occupied(b)' => naming'[b].n \in N!Numbers
        BY <2>6
      <3>4. \A b \in Adapters : There(b)' => There(b)
        BY <2>6
      <3>. QED BY <3>1, <3>2, <3>3, <3>4, <2>6, <1>1 DEF AdaptersOwn
    <2>12. Registered'
      <3>1. \A b \in Adapters : b # a => naming'[b].at # "link and write"
        BY <2>6 DEF Takes
      <3>2. \A b \in Adapters : Numbered(b)' => Numbered(b)
        BY <2>6, <1>1, Zenon DEF Numbered
      <3>3. \A b \in Adapters : naming'[b].at # "link"
        BY <2>6 DEF Takes
      <3>. QED BY <3>1, <3>2, <3>3, <2>4, <2>6, <1>1 DEF Registered
    <2>13. Searched'
      <3>1. \A b \in Adapters : b # a => naming'[b].at \notin {"try", "link and write"}
        BY <2>6 DEF Occupied
      <3>. QED BY <3>1, <2>6, <1>1, <1>4 DEF Searched
    <2>. QED BY <2>9, <2>10, <2>11, <2>12, <2>13
  <1>8. CASE ~(k \in N!FreeNumbers /\ ~N!Skipped(k))
    <2>1. devices' = devices
      BY <1>8, <1>2 DEF N!TryNext
    <2>2. k # lowest /\ k + 1 <= lowest
      BY <1>4, <1>5, <1>8
    <2>3. PICK p \in {"try", "failed"}, m \in Int :
            /\ p = "try" => m = k + 1 /\ m \in N!Numbers
            /\ naming' = [naming EXCEPT ![a] = [at |-> p, n |-> m]]
      <3>1. CASE k < Limit - 1
        <4>1. k + 1 \in N!Numbers /\ k + 1 \in Int
          BY <3>1, NamesSettings
        <4>2. naming' = [naming EXCEPT ![a] = [at |-> "try", n |-> k + 1]]
          BY <3>1, <1>8, <1>2 DEF N!TryNext
        <4>. QED BY <4>1, <4>2
      <3>2. CASE ~(k < Limit - 1)
        <4>1. naming' = [naming EXCEPT ![a] = [at |-> "failed", n |-> -1]]
          BY <3>2, <1>8, <1>2 DEF N!TryNext, N!None
        <4>2. -1 \in Int /\ "failed" # "try"
          OBVIOUS
        <4>. QED BY <4>1, <4>2
      <3>. QED BY <3>1, <3>2
    <2>4. p \in Places
      BY DEF Places
    <2>. DEFINE Moves == /\ naming'[a].at = p /\ naming'[a].n = m
                         /\ \A b \in Adapters : b # a => naming'[b] = naming[b]
                         /\ \A b \in Adapters : ~Takes(b)'
                         /\ \A b \in Adapters : There(b)' <=> There(b)
                         /\ \A b \in Adapters : Occupied(b)' <=> (b = a /\ p = "try")
    <2>5. Moves /\ naming' \in [Adapters -> [at : Places, n : Int]]
      BY <2>3, <2>4, <1>3, <1>6, OneMoves
    <2>6. NameTypes'
      BY <2>1, <2>5, <1>1 DEF NameTypes
    <2>7. OthersOwn'
      BY <2>1, <1>1 DEF OthersOwn
    <2>8. AdaptersOwn'
      BY <2>1, <2>3, <2>5, <1>1, NamesSettings DEF AdaptersOwn
    <2>9. Registered'
      <3>1. \A b \in Adapters : Numbered(b)' => Numbered(b)
        BY <2>5, <1>1, Zenon DEF Numbered
      <3>2. \A b \in Adapters : naming'[b].at \notin {"link", "link and write"}
        BY <2>5 DEF Takes
      <3>. QED BY <3>1, <3>2, <2>5, <1>1 DEF Registered
    <2>10. lowest' = Limit \/ (lowest' \in N!FreeNumbers' /\ ~N!Skipped(lowest)')
      BY <2>1, <1>1, <1>4 DEF N!FreeNumbers, N!Skipped
    <2>11. \A b \in Adapters : naming'[b].at = "try" => b = a
      BY <2>5 DEF Occupied
    <2>12. \A b \in Adapters : naming'[b].at # "link and write"
      BY <2>5 DEF Takes
    <2>13. naming'[a].at = "try" => naming'[a].n <= lowest'
      BY <2>2, <2>3, <2>5, <1>1
    <2>14. Searched'
      BY <2>5, <2>10, <2>11, <2>12, <2>13 DEF Searched
    <2>. QED BY <2>6, <2>7, <2>8, <2>9, <2>14
  <1>. QED BY <1>7, <1>8

LEMMA LinkNaming ==
  ASSUME AsInstalled, NamesIInv, NEW a \in Adapters, N!Link(a)
  PROVE  NamesIInv'
  <1>. USE DEF NamesIInv
  <1>1. UNCHANGED <<nt, devices, others>> /\ Takes(a) /\ lowest' = -1
    BY DEF N!Link, Takes, N!None
  <1>2. PICK k \in N!Numbers : k = naming[a].n /\ devices[k] = a
    BY <1>1 DEF AdaptersOwn, Takes, Occupied
  <1>3. \A b \in Adapters : Occupied(b) <=> b = a
    BY <1>1 DEF Searched, Occupied, Takes
  <1>4. \A b \in Adapters : (Takes(b) => b = a) /\ ~(There(b) /\ b = a)
    BY <1>1, <1>3 DEF Takes, There, Occupied
  <1>5. links[k] = N!Nobody
    <2>1. links[k] # N!Other
      BY <1>2, NamesSettings DEF OthersOwn
    <2>2. ASSUME NEW b \in Adapters, links[k] = b PROVE FALSE
      <3>1. There(b) /\ instance[b] = k
        BY <2>2 DEF AdaptersOwn
      <3>2. devices[k] = b
        BY <3>1 DEF AdaptersOwn
      <3>. QED BY <3>1, <3>2, <1>2, <1>4
    <2>. QED BY <2>1, <2>2 DEF NameTypes
  <1>6. links' = [links EXCEPT ![k] = a]
    BY <1>2, <1>5 DEF AsInstalled, N!Link, N!Linked
  <1>7. /\ instance' = [instance EXCEPT ![a] = k]
        /\ naming' = [naming EXCEPT ![a] = [at |-> "present", n |-> k]]
    BY <1>2 DEF N!Link
  <1>8. others[k] # "bios" /\ others[k] # "port"
    <2>1. others[k] # "port"
      BY <1>2, NamesSettings DEF OthersOwn
    <2>2. others[k] # "bios"
      BY <1>1, <1>2, Zenon DEF Registered, Numbered, Takes
    <2>. QED BY <2>1, <2>2
  <1>9. reg' \in [Adapters -> [port : N!Numbers, cfg : BOOLEAN]] /\ reg'[a].port = k
        /\ \A b \in Adapters : b # a => reg'[b] = reg[b]
    <2>1. CASE naming[a].at = "link and write"
      <3>1. reg' = [reg EXCEPT ![a].port = k]
        BY <2>1, <1>2 DEF N!Link, N!SetPortName
      <3>. QED BY <3>1 DEF NameTypes
    <2>2. CASE naming[a].at = "link"
      <3>1. reg' = reg /\ reg[a].port = k
        BY <2>2, <1>2 DEF N!Link, N!SetPortName, Registered
      <3>. QED BY <3>1 DEF NameTypes
    <2>. QED BY <2>1, <2>2, <1>1 DEF Takes
  <1>10. "present" \in Places /\ k \in Int
    BY NamesSettings DEF Places
  <1>. DEFINE Moves == /\ naming'[a].at = "present" /\ naming'[a].n = k
                       /\ \A b \in Adapters : b # a => naming'[b] = naming[b]
                       /\ \A b \in Adapters : ~Takes(b)'
                       /\ \A b \in Adapters : There(b)' <=> (There(b) \/ b = a)
                       /\ \A b \in Adapters : ~Occupied(b)'
  <1>11. Moves /\ naming' \in [Adapters -> [at : Places, n : Int]]
    BY <1>3, <1>4, <1>7, <1>10, OneMoves
  <1>12. /\ instance' \in [Adapters -> Int] /\ instance'[a] = k
         /\ \A b \in Adapters : b # a => instance'[b] = instance[b]
    BY <1>7, <1>10 DEF NameTypes
  <1>13. /\ links' \in [N!Numbers -> Adapters \cup {N!Other, N!Nobody}]
         /\ \A n \in N!Numbers : links'[n] = IF n = k THEN a ELSE links[n]
    BY <1>6 DEF NameTypes
  <1>14. NameTypes'
    BY <1>1, <1>9, <1>11, <1>12, <1>13 DEF NameTypes
  <1>15. OthersOwn'
    BY <1>1, <1>8, <1>13, NamesSettings DEF OthersOwn
  <1>16. AdaptersOwn'
    <2>1. \A b \in Adapters : b # a /\ There(b) => instance[b] # k
      BY <1>2 DEF AdaptersOwn
    <2>2. \A b \in Adapters, n \in N!Numbers : (links'[n] = b) <=> (There(b)' /\ instance'[b] = n)
      BY <2>1, <1>4, <1>5, <1>11, <1>12, <1>13, NamesSettings DEF AdaptersOwn
    <2>3. \A b \in Adapters : There(b)' => instance'[b] \in N!Numbers
      BY <1>11, <1>12 DEF AdaptersOwn
    <2>4. \A b \in Adapters, n \in N!Numbers : There(b)' /\ instance'[b] = n => devices'[n] = b
      BY <1>1, <1>2, <1>11, <1>12 DEF AdaptersOwn
    <2>. QED BY <2>2, <2>3, <2>4, <1>11 DEF AdaptersOwn
  <1>17. Registered'
    <2>1. \A b \in Adapters : naming'[b].at \notin {"link", "link and write"}
      BY <1>11 DEF Takes
    <2>2. \A b \in Adapters, n \in N!Numbers :
            Numbered(b)' /\ reg'[b].port = n => others'[n] # "bios"
      <3>1. \A b \in Adapters : b # a /\ Numbered(b)' => Numbered(b)
        BY <1>9, <1>11, Zenon DEF Numbered
      <3>2. \A b \in Adapters, n \in N!Numbers : b # a /\ Numbered(b) /\ reg[b].port = n => others[n] # "bios"
        BY DEF Registered
      <3>. QED BY <3>1, <3>2, <1>1, <1>8, <1>9
    <2>3. \A b \in Adapters : There(b)' => reg'[b].port = instance'[b]
      BY <1>9, <1>11, <1>12 DEF Registered
    <2>. QED BY <2>1, <2>2, <2>3 DEF Registered
  <1>18. Searched'
    BY <1>11 DEF Searched, Occupied
  <1>. QED BY <1>14, <1>15, <1>16, <1>17, <1>18

LEMMA RemoveNaming ==
  ASSUME AsInstalled, NamesIInv, NEW a \in Adapters, N!RemoveDevice(a)
  PROVE  NamesIInv'
  <1>. USE DEF NamesIInv
  <1>1. UNCHANGED <<nt, others, lowest>> /\ There(a)
    BY DEF N!RemoveDevice, There
  <1>2. PICK k \in N!Numbers : k = instance[a] /\ devices[k] = a /\ links[k] = a
    BY <1>1 DEF AdaptersOwn
  <1>3. /\ links' = [links EXCEPT ![k] = N!Nobody]
        /\ devices' = [devices EXCEPT ![k] = N!Nobody]
        /\ naming' = [naming EXCEPT ![a] = [at |-> "out", n |-> -1]]
        /\ instance' = [instance EXCEPT ![a] = -1]
        /\ reg' = [reg EXCEPT ![a].cfg = TRUE]
    BY <1>2 DEF N!RemoveDevice, N!Out, N!None
  <1>4. others[k] # "port"
    BY <1>2, NamesSettings DEF OthersOwn
  <1>5. reg[a].port = k /\ others[k] # "bios"
    <2>1. reg[a].port = k /\ Numbered(a)
      BY <1>1, <1>2 DEF Registered, Numbered
    <2>. QED BY <2>1 DEF Registered
  <1>6. "out" \in Places /\ -1 \in Int
    BY DEF Places
  <1>. DEFINE Moves == /\ naming'[a].at = "out"
                       /\ \A b \in Adapters : b # a => naming'[b] = naming[b]
                       /\ \A b \in Adapters : Takes(b)' <=> (Takes(b) /\ b # a)
                       /\ \A b \in Adapters : There(b)' <=> (There(b) /\ b # a)
                       /\ \A b \in Adapters : Occupied(b)' <=> (Occupied(b) /\ b # a)
  <1>7. Moves /\ naming' \in [Adapters -> [at : Places, n : Int]]
    BY <1>3, <1>6, OneMoves
  <1>8. /\ instance' \in [Adapters -> Int]
        /\ \A b \in Adapters : b # a => instance'[b] = instance[b]
    BY <1>3, <1>6 DEF NameTypes
  <1>9. /\ reg' \in [Adapters -> [port : N!Numbers, cfg : BOOLEAN]]
        /\ \A b \in Adapters : b # a => reg'[b] = reg[b]
        /\ reg'[a].port = k
    BY <1>3, <1>5 DEF NameTypes
  <1>10. /\ links' \in [N!Numbers -> Adapters \cup {N!Other, N!Nobody}]
         /\ \A n \in N!Numbers : links'[n] = IF n = k THEN N!Nobody ELSE links[n]
    BY <1>3 DEF NameTypes
  <1>11. /\ devices' \in [N!Numbers -> Adapters \cup {N!Other, N!Nobody}]
         /\ \A n \in N!Numbers : devices'[n] = IF n = k THEN N!Nobody ELSE devices[n]
    BY <1>3 DEF NameTypes
  <1>14. NameTypes'
    BY <1>1, <1>7, <1>8, <1>9, <1>10, <1>11 DEF NameTypes
  <1>15. OthersOwn'
    BY <1>1, <1>4, <1>10, <1>11, NamesSettings DEF OthersOwn
  <1>16. AdaptersOwn'
    <2>1. \A b \in Adapters : b # a /\ There(b) => instance[b] # k
      BY <1>2 DEF AdaptersOwn
    <2>2. \A b \in Adapters, n \in N!Numbers : (links'[n] = b) <=> (There(b)' /\ instance'[b] = n)
      BY <2>1, <1>1, <1>2, <1>7, <1>8, <1>10, NamesSettings DEF AdaptersOwn
    <2>3. \A b \in Adapters, n \in N!Numbers : b # a /\ devices[n] = b => devices'[n] = b
      BY <1>2, <1>11
    <2>. QED BY <2>2, <2>3, <1>7, <1>8 DEF AdaptersOwn
  <1>17. Registered'
    <2>1. \A b \in Adapters : b # a => naming'[b] = naming[b] /\ reg'[b] = reg[b]
      BY <1>7, <1>9
    <2>2. \A b \in Adapters, n \in N!Numbers :
            Numbered(b)' /\ reg'[b].port = n => others'[n] # "bios"
      <3>1. \A b \in Adapters : b # a /\ Numbered(b)' => Numbered(b)
        BY <1>7, <1>9, Zenon DEF Numbered
      <3>2. \A b \in Adapters, n \in N!Numbers : b # a /\ Numbered(b) /\ reg[b].port = n => others[n] # "bios"
        BY DEF Registered
      <3>. QED BY <3>1, <3>2, <1>1, <1>5, <1>9
    <2>3. \A b \in Adapters : There(b)' => reg'[b].port = instance'[b]
      BY <1>7, <1>8, <1>9 DEF Registered
    <2>4. \A b \in Adapters : naming'[b].at \in {"link", "link and write"} => b # a
      BY <1>7
    <2>5. \A b \in Adapters : naming'[b].at = "link" => reg'[b].cfg /\ reg'[b].port = naming'[b].n
      BY <2>1, <2>4, Zenon DEF Registered
    <2>6. \A b \in Adapters, n \in N!Numbers :
            naming'[b].at = "link and write" /\ naming'[b].n = n => others'[n] # "bios"
      <3>1. \A b \in Adapters, n \in N!Numbers :
              naming[b].at = "link and write" /\ naming[b].n = n => others[n] # "bios"
        BY DEF Registered
      <3>. QED BY <3>1, <2>1, <2>4, <1>1
    <2>. QED BY <2>2, <2>3, <2>5, <2>6 DEF Registered
  <1>18. Searched'
    <2>1. N!FreeNumbers \subseteq N!FreeNumbers'
      BY <1>11 DEF N!FreeNumbers
    <2>2. lowest' = lowest /\ (N!Skipped(lowest)' <=> N!Skipped(lowest))
      BY <1>1 DEF N!Skipped
    <2>. QED BY <2>1, <2>2, <1>7 DEF Searched
  <1>. QED BY <1>14, <1>15, <1>16, <1>17, <1>18

\* Other ports change nothing of what an adapter is doing.
LEMMA SameNaming ==
  ASSUME naming' = naming
  PROVE  \A b \in Adapters : /\ (reg' = reg => (Numbered(b)' <=> Numbered(b)))
                             /\ Takes(b)' <=> Takes(b)
                             /\ There(b)' <=> There(b)
                             /\ Occupied(b)' <=> Occupied(b)
  BY Zenon DEF Takes, There, Occupied, Numbered

LEMMA ArriveNaming ==
  ASSUME AsInstalled, NamesIInv, NEW n \in N!Numbers, NEW kind \in {"port", "link"},
         N!OtherArrives(n, kind)
  PROVE  NamesIInv'
  <1>. USE DEF NamesIInv
  <1>1. UNCHANGED <<nt, naming, instance, reg>> /\ kind = "port" /\ others[n] = "none"
        /\ links[n] = N!Nobody /\ devices[n] = N!Nobody
    BY DEF N!OtherArrives, AsInstalled
  <1>2. /\ others' = [others EXCEPT ![n] = "port"]
        /\ links' = [links EXCEPT ![n] = N!Other]
        /\ devices' = [devices EXCEPT ![n] = N!Other]
        /\ lowest' = IF n = lowest THEN Limit ELSE lowest
    BY <1>1 DEF N!OtherArrives
  <1>3. \A m \in N!Numbers : /\ others'[m] = IF m = n THEN "port" ELSE others[m]
                             /\ links'[m] = IF m = n THEN N!Other ELSE links[m]
                             /\ devices'[m] = IF m = n THEN N!Other ELSE devices[m]
    BY <1>2 DEF NameTypes
  <1>11. NameTypes'
    BY <1>1, <1>2, NamesSettings DEF NameTypes
  <1>12. OthersOwn'
    BY <1>1, <1>3 DEF OthersOwn
  <1>13. AdaptersOwn'
    BY <1>1, <1>3, SameNaming, NamesSettings DEF AdaptersOwn
  <1>14. Registered'
    BY <1>1, <1>3, SameNaming DEF Registered
  <1>15. Searched'
    <2>1. \A k \in N!Numbers : k <= lowest => k <= lowest'
      BY <1>2, NamesSettings DEF NameTypes
    <2>2. lowest \in N!FreeNumbers /\ ~N!Skipped(lowest) /\ lowest # n
          => lowest' \in N!FreeNumbers' /\ ~N!Skipped(lowest)'
      BY <1>1, <1>2 DEF N!FreeNumbers, N!Skipped, NameTypes
    <2>3. lowest = n \/ lowest = Limit => lowest' = Limit
      BY <1>2
    <2>4. \A b \in Adapters : naming[b].at = "try" \/ naming[b].at = "link and write" => naming[b].n \in N!Numbers
      BY DEF AdaptersOwn, Occupied
    <2>. QED BY <2>1, <2>2, <2>3, <2>4, <1>1 DEF Searched, Occupied
  <1>. QED BY <1>11, <1>12, <1>13, <1>14, <1>15

LEMMA LeaveNaming ==
  ASSUME AsInstalled, NamesIInv, NEW n \in N!Numbers, N!OtherLeaves(n)
  PROVE  NamesIInv'
  <1>. USE DEF NamesIInv
  <1>1. UNCHANGED <<nt, naming, instance, reg, lowest>> /\ others[n] = "port"
    BY DEF N!OtherLeaves, NameTypes
  <1>2. links[n] = N!Other /\ devices[n] = N!Other
    BY <1>1 DEF OthersOwn
  <1>3. /\ others' = [others EXCEPT ![n] = "none"]
        /\ links' = [links EXCEPT ![n] = N!Nobody]
        /\ devices' = [devices EXCEPT ![n] = N!Nobody]
    BY <1>2 DEF N!OtherLeaves, NameTypes
  <1>4. \A m \in N!Numbers : /\ others'[m] = IF m = n THEN "none" ELSE others[m]
                             /\ links'[m] = IF m = n THEN N!Nobody ELSE links[m]
                             /\ devices'[m] = IF m = n THEN N!Nobody ELSE devices[m]
    BY <1>3 DEF NameTypes
  <1>11. NameTypes'
    BY <1>1, <1>3 DEF NameTypes
  <1>12. OthersOwn'
    BY <1>1, <1>4, NamesSettings DEF OthersOwn
  <1>13. AdaptersOwn'
    BY <1>1, <1>2, <1>4, SameNaming, NamesSettings DEF AdaptersOwn
  <1>14. Registered'
    BY <1>1, <1>4, SameNaming DEF Registered
  <1>15. Searched'
    <2>1. lowest \in N!FreeNumbers /\ ~N!Skipped(lowest)
          => lowest' \in N!FreeNumbers' /\ ~N!Skipped(lowest)'
      BY <1>1, <1>3 DEF N!FreeNumbers, N!Skipped, NameTypes
    <2>. QED BY <2>1, <1>1 DEF Searched, Occupied
  <1>. QED BY <1>11, <1>12, <1>13, <1>14, <1>15

LEMMA NamesNext ==
  ASSUME AsInstalled, NamesIInv, [N!Next]_(N!nameVars) PROVE NamesIInv'
  <1>1. CASE UNCHANGED N!nameVars
    <2>. USE <1>1 DEF N!nameVars, NamesIInv
    <2>1. NameTypes' /\ OthersOwn'
      BY DEF NameTypes, OthersOwn
    <2>2. AdaptersOwn'
      BY SameNaming DEF AdaptersOwn
    <2>4. Registered'
      BY SameNaming DEF Registered
    <2>3. Searched'
      BY SameNaming DEF Searched, N!FreeNumbers, N!Skipped
    <2>. QED BY <2>1, <2>2, <2>3, <2>4
  <1>2. ASSUME NEW a \in Adapters, N!AddDevice(a) \/ N!TryNext(a) \/ N!Link(a) \/ N!RemoveDevice(a)
        PROVE  NamesIInv'
    BY <1>2, StartNaming, TryNaming, LinkNaming, RemoveNaming
  <1>3. ASSUME NEW n \in N!Numbers, N!OtherLeaves(n) PROVE NamesIInv'
    BY <1>3, LeaveNaming
  <1>4. ASSUME NEW n \in N!Numbers, NEW kind \in {"port", "link"}, N!OtherArrives(n, kind)
        PROVE NamesIInv'
    BY <1>4, ArriveNaming
  <1>. QED BY <1>1, <1>2, <1>3, <1>4 DEF N!Next

LEMMA NamesShown == NamesIInv => NamesKept
  <1>. SUFFICES ASSUME NamesIInv PROVE N!LinksBelong /\ N!BiosKept /\ N!LowestFirst
    BY DEF NamesKept, N!NamesKept
  <1>. USE DEF NamesIInv
  <1>1. N!LinksBelong
    BY DEF N!LinksBelong, OthersOwn, AdaptersOwn, NameTypes, There
  <1>2. N!BiosKept
    <2>. SUFFICES ASSUME NEW a \in Adapters, There(a) PROVE others[instance[a]] # "bios"
      BY DEF N!BiosKept, There
    <2>1. Numbered(a)
      BY DEF Numbered
    <2>2. instance[a] \in N!Numbers /\ reg[a].port = instance[a]
      BY DEF AdaptersOwn, Registered
    <2>. QED BY <2>1, <2>2 DEF Registered
  <1>3. N!LowestFirst
    BY DEF N!LowestFirst, Registered, Searched
  <1>. QED BY <1>1, <1>2, <1>3

\* However adapters and the ports of others come and go: each adapter that is present has
\* the link with its number and keeps it, no link of another port is taken, on 9x no port
\* of the BIOS's, and AddDevice passes no number that was free all the time.
THEOREM NamesStay == ASSUME AsInstalled PROVE N!Spec => []NamesKept
  <1>1. N!Init => NamesIInv
    BY AsInstalled, NamesInit
  <1>2. NamesIInv /\ [N!Next]_(N!nameVars) => NamesIInv'
    BY AsInstalled, NamesNext
  <1>. QED BY <1>1, <1>2, NamesShown, PTL DEF N!Spec
-----------------------------------------------------------------------------
(***************************************************************************)
(* The sheet with the properties.                                          *)
(***************************************************************************)

\* None of the cases that break the promises of the sheet (README, Findings).
NoMishap == Mishaps = {}

SettingFields == {"base", "mode", "timeout", "flags", "cache"}

\* Settings that can be decoded.
Sound(s) ==
  /\ s.base >= 256 /\ s.base % 4 = 0 /\ (s.mode % 2 = 1 => s.base % 8 = 0)
  /\ s.timeout <= 1000

\* The page Emulation is in front, or what it has left in the setup data is sound.
SheetSettings ==
  /\ DOMAIN drv.uc = SettingFields /\ Sound(drv.uc)
  /\ DOMAIN edit = SettingFields /\ edit.timeout <= 1000
  /\ sheet = "open" /\ pages["emul"] = "shown" /\ active # "emul" => Sound(edit)

CountTypes ==
  /\ drv = [uc |-> drv.uc, cnt |-> drv.cnt]
  /\ drv.cnt \in [S!Groups -> Nat] /\ had \in [S!Groups -> Nat] /\ zeroed \subseteq S!Groups
  /\ ac = S!Unread \/ ac \in [S!Groups -> Nat]

\* A counter that was not reset since it was shown has not become less, and none is more
\* than the accesses since.
Counters ==
  /\ CountTypes
  /\ pages["stat"] # "shown" /\ sheet \in {"loading", "open"} => ac = S!Unread
  /\ \A g \in S!Groups : drv.cnt[g] <= had[g] /\ (g \in zeroed \/ ac[g] <= drv.cnt[g])

\* What an update has written up to now.
Update ==
  /\ rom = [first |-> rom.first, rest |-> rom.rest]
  /\ rom.first \in {"valid", "erased", "blank", "stay"}
  /\ rom.first = "valid" => rom.rest \in {"old", "new"}
  /\ rom.first = "erased" => rom.rest \in {"old", "new", "mixed"}
  /\ fw \in {"idle", "head", "rest", "mark"}
  /\ fw = "mark" => rom.rest = "new"

\* How many pages are in one of the given states.
Among(x, P) == IF x \in P THEN 1 ELSE 0
Number(f, P) == Among(f["emul"], P) + Among(f["stat"], P) + Among(f["mon"], P)
Loaded == {"added", "shown"}
PageStates == {"new", "gone"} \cup Loaded

SetupTypes ==
  /\ setup = [refs |-> setup.refs, shown |-> setup.shown, live |-> setup.live,
              bad |-> FALSE, used |-> setup.used]
  /\ setup.live \in BOOLEAN /\ setup.used \in BOOLEAN /\ setup.shown \in Nat
  /\ pages \in [S!Pages -> PageStates]
  /\ sheet \in {"loading", "open", "closing", "closed"}

\* What pages there are while the sheet is put together, shown and taken down.
PagesFit ==
  /\ sheet = "loading" => pages["emul"] \in {"new", "added"}
  /\ sheet = "open" => pages["emul"] \in Loaded
  /\ sheet # "loading" => \A p \in S!Pages : pages[p] # "new"
  /\ sheet = "closed" => \A p \in S!Pages : pages[p] = "gone"

\* A page in front has been shown.
InFront ==
  /\ sheet = "loading" => active = S!NoPage
  /\ sheet = "open" => active = S!NoPage \/ (active \in S!Pages /\ pages[active] = "shown")

\* The counters of the setup data are those of the pages; it is there as long as they say.
CountsFit ==
  /\ sheet \in {"loading", "open"} => setup.live
  /\ IF sys = "addref"
     THEN /\ setup.refs = Number(pages, Loaded) /\ setup.shown <= setup.refs
          /\ sheet \in {"loading", "open"} => setup.shown = Number(pages, {"shown"})
          /\ sheet \in {"closing", "closed"} => setup.live = (setup.refs # 0)
     ELSE /\ setup.refs = 0 /\ setup.shown = Number(pages, {"shown"})
          /\ sheet \in {"closing", "closed"} => setup.live = (setup.used => setup.shown # 0)
          /\ setup.shown # 0 => setup.used
          /\ sheet \in {"loading", "open"} /\ setup.used => setup.shown # 0

SetupCounts == SetupTypes /\ PagesFit /\ CountsFit

\* The dialog has what the device has, and never both bits of the box with three states.
Extras ==
  /\ feature \cap {1, 2} # {1, 2}
  /\ \/ extras = S!NoDialog
     \/ /\ extras = [open |-> TRUE, touched |-> extras.touched, bits |-> extras.bits,
                     three |-> extras.three, ecr |-> extras.ecr]
        /\ extras.bits \cap {1, 2} = {} /\ extras.three \in {"on", "off", "third"}
        /\ extras.touched \/ (S!Written(extras) = feature /\ extras.ecr = ecr)

SheetIInv == SetupCounts /\ InFront /\ SheetSettings /\ Counters /\ Update /\ Extras
-----------------------------------------------------------------------------
(* The firmware update *)

LEMMA UpdateStep ==
  ASSUME NoMishap, Update, S!Next
  PROVE  Update'
  <1>1. CASE UNCHANGED <<rom, fw>>
    BY <1>1 DEF Update
  <1>2. ASSUME NEW shift \in BOOLEAN, S!FwBegin(shift) PROVE Update'
    <2>1. PICK f, r : rom = [first |-> f, rest |-> r]
      BY DEF Update
    <2>2. fw = "idle"
      BY <1>2 DEF S!FwBegin, S!Act
    <2>3. CASE S!BackDoor(shift)
      <3>1. /\ rom.first = "erased" => rom.rest # "mixed"
            /\ rom' = [rom EXCEPT !.first = S!Toggled(rom.first)] /\ fw' = fw
        BY <1>2, <2>3 DEF S!FwBegin, S!Mishap, NoMishap
      <3>2. rom' = [first |-> S!Toggled(f), rest |-> r]
        BY <2>1, <3>1
      <3>3. rom'.first = S!Toggled(f) /\ rom'.rest = r
        BY <3>2
      <3>4. rom.first = f /\ rom.rest = r
        BY <2>1
      <3>5. S!Toggled(f) = CASE f = "valid" -> "erased" [] f = "erased" -> "valid"
                             [] f = "blank" -> "stay" [] f = "stay" -> "blank"
        BY DEF S!Toggled
      <3>. QED BY <2>2, <3>1, <3>2, <3>3, <3>4, <3>5 DEF Update
    <2>4. CASE ~S!BackDoor(shift)
      <3>1. fw' = "head" /\ rom' = rom
        BY <1>2, <2>4 DEF S!FwBegin
      <3>. QED BY <3>1 DEF Update
    <2>. QED BY <2>3, <2>4
  <1>3. ASSUME S!FwWrite PROVE Update'
    <2>1. PICK f, r : rom = [first |-> f, rest |-> r]
      BY DEF Update
    <2>2. CASE dev # "open"
      BY <1>3, <2>2 DEF S!FwWrite, Update
    <2>3. CASE dev = "open" /\ fw = "head"
      <3>1. fw' = "rest" /\ rom' = [first |-> "erased", rest |-> "mixed"]
        BY <1>3, <2>3 DEF S!FwWrite
      <3>. QED BY <3>1 DEF Update
    <2>4. CASE dev = "open" /\ fw = "rest"
      <3>1. fw' = "mark" /\ rom' = [rom EXCEPT !.rest = "new"]
        BY <1>3, <2>4 DEF S!FwWrite
      <3>2. rom' = [first |-> f, rest |-> "new"]
        BY <2>1, <3>1
      <3>. QED BY <2>1, <3>1, <3>2 DEF Update
    <2>5. CASE dev = "open" /\ fw = "mark"
      <3>1. fw' = "idle" /\ rom' = [rom EXCEPT !.first = "valid"]
        BY <1>3, <2>5 DEF S!FwWrite
      <3>2. rom' = [first |-> "valid", rest |-> r] /\ r = "new"
        BY <2>1, <2>5, <3>1 DEF Update
      <3>. QED BY <3>1, <3>2 DEF Update
    <2>6. fw \in {"head", "rest", "mark"}
      BY <1>3 DEF S!FwWrite, Update
    <2>. QED BY <2>2, <2>3, <2>4, <2>5, <2>6
  <1>4. \/ UNCHANGED <<rom, fw>> \/ S!FwWrite \/ \E shift \in BOOLEAN : S!FwBegin(shift)
    <2>1. ASSUME NEW p, S!LoadPage(p) \/ S!ClosePage(p) \/ S!Select(p)
          PROVE  UNCHANGED <<rom, fw>>
      BY <2>1 DEF S!LoadPage, S!ClosePage, S!Select, S!world
    <2>2. ASSUME NEW g, S!Reset(g) \/ S!Count(g) \/ S!CloseExtras(g) PROVE UNCHANGED <<rom, fw>>
      BY <2>2 DEF S!Reset, S!Count, S!CloseExtras
    <2>3. ASSUME S!Ok \/ S!WizNext \/ S!Unplug \/ S!Plug PROVE UNCHANGED <<rom, fw>>
      BY <2>3 DEF S!Ok, S!WizNext, S!Apply, S!Unplug, S!Plug
    <2>4. ASSUME S!Loaded \/ S!Closed \/ S!Edit \/ S!CacheBox \/ S!Cancel \/ S!Tick
                 \/ S!OpenExtras \/ S!Touch
          PROVE  UNCHANGED <<rom, fw>>
      BY <2>4 DEF S!Loaded, S!Closed, S!Edit, S!CacheBox, S!Cancel, S!Tick, S!OpenExtras,
                  S!Touch, S!world
    <2>. QED BY <2>1, <2>2, <2>3, <2>4, Zenon DEF S!Next
  <1>. QED BY <1>1, <1>2, <1>3, <1>4
-----------------------------------------------------------------------------
(* The dialog Extras *)

\* Of the two bits of the box with three states one at most is written.
LEMMA BitsAgain ==
  ASSUME NEW f, f \cap {1, 2} # {1, 2}
  PROVE  /\ (f \ {1, 2}) \cup S!BitsOf(S!ThreeState(f)) = f
         /\ S!ThreeState(f) \in {"on", "off", "third"}
         /\ (f \ {1, 2}) \cap {1, 2} = {}
  <1>1. CASE 2 \in f
    BY <1>1 DEF S!ThreeState, S!BitsOf
  <1>2. CASE 2 \notin f /\ 1 \in f
    BY <1>2 DEF S!ThreeState, S!BitsOf
  <1>3. CASE 2 \notin f /\ 1 \notin f
    BY <1>3 DEF S!ThreeState, S!BitsOf
  <1>. QED BY <1>1, <1>2, <1>3

LEMMA OneBit ==
  ASSUME NEW b, b \cap {1, 2} = {}, NEW t \in {"on", "off", "third"}
  PROVE  (b \cup S!BitsOf(t)) \cap {1, 2} # {1, 2}
  BY DEF S!BitsOf

LEMMA ExtrasStep ==
  ASSUME NoMishap, Extras, S!Next
  PROVE  Extras'
  <1>1. CASE UNCHANGED <<feature, ecr, extras>>
    BY <1>1 DEF Extras, S!Written
  <1>2. ASSUME S!OpenExtras PROVE Extras'
    <2>1. extras' = [open |-> TRUE, touched |-> FALSE, bits |-> feature \ {1, 2},
                     three |-> S!ThreeState(feature), ecr |-> ecr]
      BY <1>2 DEF S!OpenExtras, S!Dialog, S!Shown, S!Mishap, NoMishap
    <2>2. UNCHANGED <<feature, ecr>>
      BY <1>2 DEF S!OpenExtras, S!world
    <2>. QED BY <2>1, <2>2, BitsAgain DEF Extras, S!Written
  <1>3. ASSUME S!Touch PROVE Extras'
    <2>1. PICK b \in SUBSET {0, 6}, t \in {"on", "off", "third"}, e \in {0, 1} :
            extras' = [extras EXCEPT !.touched = TRUE, !.bits = b, !.three = t, !.ecr = e]
      BY <1>3 DEF S!Touch
    <2>2. extras.open /\ UNCHANGED <<feature, ecr>>
      BY <1>3 DEF S!Touch, S!world
    <2>3. PICK x : extras = [open |-> TRUE, touched |-> x.touched, bits |-> x.bits,
                             three |-> x.three, ecr |-> x.ecr]
      BY <2>2 DEF Extras, S!NoDialog
    <2>4. extras' = [open |-> TRUE, touched |-> TRUE, bits |-> b, three |-> t, ecr |-> e]
      BY <2>1, <2>3
    <2>5. b \cap {1, 2} = {}
      OBVIOUS
    <2>. QED BY <2>2, <2>4, <2>5 DEF Extras
  <1>4. ASSUME NEW how, S!CloseExtras(how) PROVE Extras'
    <2>1. PICK o, b, t, e : extras = [open |-> TRUE, touched |-> o, bits |-> b, three |-> t,
                                      ecr |-> e]
      BY <1>4 DEF S!CloseExtras, Extras, S!NoDialog
    <2>2. b \cap {1, 2} = {} /\ t \in {"on", "off", "third"}
      BY <2>1 DEF Extras, S!NoDialog
    <2>3. S!Written(extras) = b \cup S!BitsOf(t) /\ extras.ecr = e
      BY <2>1 DEF S!Written
    <2>4. feature' \cap {1, 2} # {1, 2}
      <3>1. feature' = feature \/ feature' = b \cup S!BitsOf(t)
        BY <1>4, <2>3 DEF S!CloseExtras
      <3>. QED BY <2>2, <3>1, OneBit DEF Extras
    <2>5. CASE how # "apply"
      <3>1. extras' = S!NoDialog
        BY <1>4, <2>5 DEF S!CloseExtras
      <3>. QED BY <2>4, <3>1 DEF Extras
    <2>6. CASE how = "apply" /\ dev = "open"
      <3>1. feature' = b \cup S!BitsOf(t) /\ ecr' = e
        BY <1>4, <2>3, <2>6 DEF S!CloseExtras
      <3>2. extras' = [extras EXCEPT !.touched = FALSE, !.bits = feature' \ {1, 2},
                                     !.three = S!ThreeState(feature')]
        BY <1>4, <2>6 DEF S!CloseExtras
      <3>3. extras' = [open |-> TRUE, touched |-> FALSE, bits |-> feature' \ {1, 2},
                       three |-> S!ThreeState(feature'), ecr |-> e]
        BY <2>1, <3>2
      <3>. QED BY <2>4, <3>1, <3>3, BitsAgain DEF Extras, S!Written
    <2>7. CASE how = "apply" /\ dev # "open"
      <3>1. extras' = [extras EXCEPT !.touched = TRUE, !.bits = {0, 1, 2} \ {1, 2},
                                     !.three = S!ThreeState({0, 1, 2})]
        BY <1>4, <2>7 DEF S!CloseExtras
      <3>2. extras' = [open |-> TRUE, touched |-> TRUE, bits |-> {0, 1, 2} \ {1, 2},
                       three |-> S!ThreeState({0, 1, 2}), ecr |-> e]
        BY <2>1, <3>1
      <3>3. S!ThreeState({0, 1, 2}) = "on" /\ ({0, 1, 2} \ {1, 2}) \cap {1, 2} = {}
        BY DEF S!ThreeState
      <3>. QED BY <2>4, <3>2, <3>3 DEF Extras
    <2>. QED BY <2>5, <2>6, <2>7
  <1>5. \/ UNCHANGED <<feature, ecr, extras>> \/ S!OpenExtras \/ S!Touch
        \/ \E how \in {"ok", "apply", "cancel"} : S!CloseExtras(how)
    <2>1. ASSUME NEW p, S!LoadPage(p) \/ S!ClosePage(p) \/ S!Select(p)
          PROVE  UNCHANGED <<feature, ecr, extras>>
      BY <2>1 DEF S!LoadPage, S!ClosePage, S!Select, S!world
    <2>2. ASSUME NEW g, S!Reset(g) \/ S!Count(g) \/ S!FwBegin(g)
          PROVE  UNCHANGED <<feature, ecr, extras>>
      BY <2>2 DEF S!Reset, S!Count, S!FwBegin
    <2>3. ASSUME S!Ok \/ S!WizNext \/ S!Unplug \/ S!Plug \/ S!FwWrite
          PROVE  UNCHANGED <<feature, ecr, extras>>
      BY <2>3 DEF S!Ok, S!WizNext, S!Apply, S!Unplug, S!Plug, S!FwWrite
    <2>4. ASSUME S!Loaded \/ S!Closed \/ S!Edit \/ S!CacheBox \/ S!Cancel \/ S!Tick
          PROVE  UNCHANGED <<feature, ecr, extras>>
      BY <2>4 DEF S!Loaded, S!Closed, S!Edit, S!CacheBox, S!Cancel, S!Tick, S!world
    <2>. QED BY <2>1, <2>2, <2>3, <2>4, Zenon DEF S!Next
  <1>. QED BY <1>1, <1>2, <1>3, <1>4, <1>5
-----------------------------------------------------------------------------
(* The setup data and the pages *)

\* What AddRef, Create and Release make of setup data that are there.
Fresh(m) ==
  m = [refs |-> m.refs, shown |-> m.shown, live |-> TRUE, bad |-> FALSE, used |-> m.used]

LEMMA Calls ==
  ASSUME NEW m, Fresh(m)
  PROVE  /\ S!AddRef(m) = [refs |-> m.refs + 1, shown |-> m.shown, live |-> TRUE,
                           bad |-> FALSE, used |-> m.used]
         /\ S!Create(m) = [refs |-> m.refs, shown |-> m.shown + 1, live |-> TRUE,
                           bad |-> FALSE, used |-> TRUE]
         /\ m.refs + m.shown # 0 => S!Release(m) =
              [refs |-> S!Less(m.refs), shown |-> S!Less(m.shown),
               live |-> S!Less(m.refs) + S!Less(m.shown) # 0, bad |-> FALSE, used |-> m.used]
  <1>1. PICK r, n, u : /\ m = [refs |-> r, shown |-> n, live |-> TRUE, bad |-> FALSE, used |-> u]
                       /\ r = m.refs /\ n = m.shown /\ u = m.used
    BY DEF Fresh
  <1>2. m.live /\ (m.bad \/ ~m.live) = FALSE
    BY <1>1
  <1>3. S!AddRef(m) = [m EXCEPT !.refs = r + 1, !.bad = FALSE]
    BY <1>1, <1>2 DEF S!AddRef
  <1>4. S!Create(m) = [m EXCEPT !.shown = n + 1, !.bad = FALSE, !.used = TRUE]
    BY <1>1, <1>2 DEF S!Create
  <1>5. r + n # 0 => S!Release(m) = [m EXCEPT !.refs = S!Less(r), !.shown = S!Less(n),
                                              !.live = S!Less(r) + S!Less(n) # 0]
    BY <1>1, <1>2 DEF S!Release
  <1>. QED BY <1>1, <1>3, <1>4, <1>5

LEMMA Numbers ==
  ASSUME NEW f, NEW P
  PROVE  /\ Number(f, P) \in Nat
         /\ Number(f, P) = 0 <=> \A p \in S!Pages : f[p] \notin P
  <1>1. \A p : Among(f[p], P) \in {0, 1} /\ (Among(f[p], P) = 0 <=> f[p] \notin P)
    BY DEF Among
  <1>2. S!Pages = {"emul", "stat", "mon"}
    BY DEF S!Pages
  <1>. QED BY <1>1, <1>2 DEF Number

\* One page goes from one state to another.
PageGoes(a, b) ==
  /\ pages \in [S!Pages -> PageStates]
  /\ \E p \in S!Pages : pages[p] = a /\ pages' = [pages EXCEPT ![p] = b]

LEMMA NumberMoves ==
  ASSUME NEW a, NEW b, NEW P, PageGoes(a, b)
  PROVE  Number(pages', P) + Among(a, P) = Number(pages, P) + Among(b, P)
  <1>1. PICK p \in S!Pages : pages[p] = a /\ pages' = [pages EXCEPT ![p] = b]
    BY DEF PageGoes
  <1>2. pages'[p] = b /\ \A x \in S!Pages \ {p} : pages'[x] = pages[x]
    BY <1>1 DEF PageGoes
  <1>3. \A x : Among(x, P) \in Nat
    BY DEF Among
  <1>4. {"emul", "stat", "mon"} = S!Pages
    BY DEF S!Pages
  <1>5. CASE p = "emul"
    BY <1>1, <1>2, <1>3, <1>4, <1>5 DEF Number
  <1>6. CASE p = "stat"
    BY <1>1, <1>2, <1>3, <1>4, <1>6 DEF Number
  <1>7. CASE p = "mon"
    BY <1>1, <1>2, <1>3, <1>4, <1>7 DEF Number
  <1>. QED BY <1>1, <1>4, <1>5, <1>6, <1>7

LEMMA PageAdded ==
  ASSUME PageGoes("new", "added")
  PROVE  /\ Number(pages', Loaded) = Number(pages, Loaded) + 1
         /\ Number(pages', {"shown"}) = Number(pages, {"shown"})
  <1>1. /\ Among("new", Loaded) = 0 /\ Among("added", Loaded) = 1
        /\ Among("new", {"shown"}) = 0 /\ Among("added", {"shown"}) = 0
    BY DEF Among, Loaded
  <1>2. /\ Number(pages, Loaded) \in Nat /\ Number(pages, {"shown"}) \in Nat
        /\ Number(pages', Loaded) \in Nat /\ Number(pages', {"shown"}) \in Nat
    BY Numbers
  <1>3. Number(pages', Loaded) + Among("new", Loaded)
          = Number(pages, Loaded) + Among("added", Loaded)
    BY NumberMoves
  <1>4. Number(pages', {"shown"}) + Among("new", {"shown"})
          = Number(pages, {"shown"}) + Among("added", {"shown"})
    BY NumberMoves
  <1>. QED BY <1>1, <1>2, <1>3, <1>4

LEMMA PageShown ==
  ASSUME PageGoes("added", "shown")
  PROVE  /\ Number(pages', Loaded) = Number(pages, Loaded)
         /\ Number(pages', {"shown"}) = Number(pages, {"shown"}) + 1
  <1>1. /\ Among("added", Loaded) = 1 /\ Among("shown", Loaded) = 1
        /\ Among("added", {"shown"}) = 0 /\ Among("shown", {"shown"}) = 1
    BY DEF Among, Loaded
  <1>2. /\ Number(pages, Loaded) \in Nat /\ Number(pages, {"shown"}) \in Nat
        /\ Number(pages', Loaded) \in Nat /\ Number(pages', {"shown"}) \in Nat
    BY Numbers
  <1>3. Number(pages', Loaded) + Among("added", Loaded)
          = Number(pages, Loaded) + Among("shown", Loaded)
    BY NumberMoves
  <1>4. Number(pages', {"shown"}) + Among("added", {"shown"})
          = Number(pages, {"shown"}) + Among("shown", {"shown"})
    BY NumberMoves
  <1>. QED BY <1>1, <1>2, <1>3, <1>4

LEMMA PageGone ==
  ASSUME NEW a \in Loaded, PageGoes(a, "gone")
  PROVE  /\ Number(pages', Loaded) = Number(pages, Loaded) - 1
         /\ Number(pages', {"shown"}) =
              IF a = "shown" THEN Number(pages, {"shown"}) - 1 ELSE Number(pages, {"shown"})
  <1>1. /\ Among(a, Loaded) = 1 /\ Among("gone", Loaded) = 0
        /\ Among(a, {"shown"}) = (IF a = "shown" THEN 1 ELSE 0) /\ Among("gone", {"shown"}) = 0
    BY DEF Among, Loaded
  <1>2. /\ Number(pages, Loaded) \in Nat /\ Number(pages, {"shown"}) \in Nat
        /\ Number(pages', Loaded) \in Nat /\ Number(pages', {"shown"}) \in Nat
    BY Numbers
  <1>3. Number(pages', Loaded) + Among(a, Loaded)
          = Number(pages, Loaded) + Among("gone", Loaded)
    BY NumberMoves
  <1>4. Number(pages', {"shown"}) + Among(a, {"shown"})
          = Number(pages, {"shown"}) + Among("gone", {"shown"})
    BY NumberMoves
  <1>. QED BY <1>1, <1>2, <1>3, <1>4

LEMMA ShownAreLoaded == \A f : Number(f, {"shown"}) <= Number(f, Loaded)
  <1>1. \A x : Among(x, {"shown"}) <= Among(x, Loaded)
               /\ Among(x, {"shown"}) \in Nat /\ Among(x, Loaded) \in Nat
    BY DEF Among, Loaded
  <1>. QED BY <1>1 DEF Number

LEMMA LoadPageStep ==
  ASSUME NoMishap, SetupCounts, NEW p \in S!Pages, S!LoadPage(p)
  PROVE  SetupCounts'
  <1>1. /\ sheet = "loading" /\ pages[p] = "new" /\ UNCHANGED <<sys, sheet>>
        /\ pages' = [pages EXCEPT ![p] = "added"]
        /\ setup' = IF sys = "addref" THEN S!AddRef(setup) ELSE setup
    BY DEF S!LoadPage, S!Mishap, NoMishap
  <1>2. Fresh(setup) /\ setup.used \in BOOLEAN /\ setup.shown \in Nat
    BY <1>1 DEF SetupCounts, SetupTypes, CountsFit, Fresh
  <1>3. pages' \in [S!Pages -> PageStates] /\ pages'["emul"] \in {"new", "added"}
    BY <1>1 DEF SetupCounts, SetupTypes, PagesFit, S!Pages, PageStates, Loaded
  <1>4. /\ Number(pages', Loaded) = Number(pages, Loaded) + 1
        /\ Number(pages', {"shown"}) = Number(pages, {"shown"})
    BY <1>1, PageAdded DEF PageGoes, SetupCounts, SetupTypes
  <1>5. CASE sys = "addref"
    <2>1. setup' = [refs |-> setup.refs + 1, shown |-> setup.shown, live |-> TRUE, bad |-> FALSE,
                    used |-> setup.used]
      BY <1>1, <1>2, <1>5, Calls
    <2>2. /\ setup.refs = Number(pages, Loaded) /\ setup.shown = Number(pages, {"shown"})
          /\ setup.shown <= setup.refs /\ setup.refs \in Nat
      BY <1>1, <1>5, Numbers DEF SetupCounts, CountsFit
    <2>3. /\ setup'.refs = setup.refs + 1 /\ setup'.shown = setup.shown /\ setup'.live = TRUE
          /\ setup'.used = setup.used
          /\ setup' = [refs |-> setup'.refs, shown |-> setup'.shown, live |-> setup'.live,
                       bad |-> FALSE, used |-> setup'.used]
      BY <2>1
    <2>4. SetupTypes' /\ PagesFit'
      BY <1>1, <1>2, <1>3, <2>2, <2>3 DEF SetupCounts, SetupTypes, PagesFit
    <2>5. CountsFit'
      BY <1>1, <1>2, <1>4, <1>5, <2>2, <2>3 DEF CountsFit
    <2>. QED BY <2>4, <2>5 DEF SetupCounts
  <1>6. CASE sys # "addref"
    <2>1. setup' = setup
      BY <1>1, <1>6
    <2>. QED BY <1>1, <1>2, <1>3, <1>4, <1>6, <2>1
         DEF SetupCounts, SetupTypes, PagesFit, CountsFit
  <1>. QED BY <1>5, <1>6

LEMMA SelectStep ==
  ASSUME SetupCounts, NEW p \in S!Pages, S!Select(p)
  PROVE  SetupCounts'
  <1>1. sheet = "open" /\ pages[p] \in {"added", "shown"} /\ UNCHANGED <<sys, sheet>>
    BY DEF S!Select, S!Act
  <1>2. CASE UNCHANGED <<pages, setup>>
    BY <1>1, <1>2 DEF SetupCounts, SetupTypes, PagesFit, CountsFit
  <1>3. CASE pages[p] = "shown" /\ pages' = [pages EXCEPT ![p] = "shown"] /\ setup' = setup
    <2>1. pages' = pages
      BY <1>3 DEF SetupCounts, SetupTypes
    <2>. QED BY <1>1, <1>3, <2>1 DEF SetupCounts, SetupTypes, PagesFit, CountsFit
  <1>4. CASE /\ pages[p] = "added" /\ pages' = [pages EXCEPT ![p] = "shown"]
             /\ setup' = S!Create(setup)
    <2>1. Fresh(setup) /\ setup.used \in BOOLEAN /\ setup.shown \in Nat
      BY <1>1 DEF SetupCounts, SetupTypes, CountsFit, Fresh
    <2>2. setup' = [refs |-> setup.refs, shown |-> setup.shown + 1, live |-> TRUE, bad |-> FALSE,
                    used |-> TRUE]
      BY <1>4, <2>1, Calls
    <2>3. /\ pages' \in [S!Pages -> PageStates]
          /\ pages'["emul"] \in Loaded /\ \A x \in S!Pages : pages'[x] # "new"
      BY <1>1, <1>4 DEF SetupCounts, SetupTypes, PagesFit, S!Pages, Loaded, PageStates
    <2>4. /\ Number(pages', Loaded) = Number(pages, Loaded)
          /\ Number(pages', {"shown"}) = Number(pages, {"shown"}) + 1
      BY <1>4, PageShown DEF PageGoes, SetupCounts, SetupTypes
    <2>5. Number(pages', {"shown"}) <= Number(pages', Loaded)
      BY ShownAreLoaded
    <2>6. /\ setup'.refs = setup.refs /\ setup'.shown = setup.shown + 1 /\ setup'.live = TRUE
          /\ setup'.used = TRUE
          /\ setup' = [refs |-> setup'.refs, shown |-> setup'.shown, live |-> setup'.live,
                       bad |-> FALSE, used |-> setup'.used]
      BY <2>2
    <2>7. SetupTypes' /\ PagesFit'
      <3>1. setup.shown + 1 \in Nat
        BY <2>1
      <3>2. setup'.shown \in Nat
        BY <2>6, <3>1
      <3>. QED BY <1>1, <2>3, <2>6, <3>2 DEF SetupTypes, PagesFit
    <2>8. CASE sys = "addref"
      <3>1. CountsFit'
        BY <1>1, <2>4, <2>5, <2>6, <2>8 DEF SetupCounts, CountsFit
      <3>. QED BY <2>7, <3>1 DEF SetupCounts
    <2>9. CASE sys # "addref"
      <3>1. CountsFit'
        BY <1>1, <2>1, <2>4, <2>6, <2>9, Numbers DEF SetupCounts, CountsFit
      <3>. QED BY <2>7, <3>1 DEF SetupCounts
    <2>. QED BY <2>8, <2>9
  <1>. QED BY <1>1, <1>2, <1>3, <1>4 DEF S!Select

LEMMA ClosePageStep ==
  ASSUME SetupCounts, NEW p \in S!Pages, S!ClosePage(p)
  PROVE  SetupCounts'
  <1>1. /\ sheet = "closing" /\ pages[p] \in Loaded /\ UNCHANGED <<sys, sheet>>
        /\ pages' = [pages EXCEPT ![p] = "gone"]
        /\ setup' = IF sys = "addref" \/ pages[p] = "shown" THEN S!Release(setup) ELSE setup
    BY DEF S!ClosePage, Loaded
  <1>2. pages \in [S!Pages -> PageStates] /\ Number(pages, Loaded) # 0
        /\ (pages[p] = "shown" => Number(pages, {"shown"}) # 0)
    BY <1>1, Numbers DEF SetupCounts, SetupTypes
  <1>3. /\ Number(pages', Loaded) = Number(pages, Loaded) - 1
        /\ Number(pages', {"shown"}) =
             IF pages[p] = "shown" THEN Number(pages, {"shown"}) - 1 ELSE Number(pages, {"shown"})
    <2>1. PageGoes(pages[p], "gone")
      BY <1>1, <1>2 DEF PageGoes
    <2>. QED BY <1>1, <2>1, PageGone
  <1>4. /\ pages' \in [S!Pages -> PageStates] /\ PagesFit'
    BY <1>1, <1>2 DEF SetupCounts, PagesFit, PageStates
  <1>5. Number(pages, Loaded) \in Nat /\ Number(pages, {"shown"}) \in Nat
    BY Numbers
  <1>6. CASE sys = "addref"
    <2>1. /\ setup.refs = Number(pages, Loaded) /\ setup.shown <= setup.refs
          /\ setup.shown \in Nat /\ setup.refs # 0 /\ setup.live = TRUE
      BY <1>1, <1>2, <1>6 DEF SetupCounts, SetupTypes, CountsFit
    <2>2. Fresh(setup) /\ setup.refs + setup.shown # 0
      BY <1>5, <2>1 DEF SetupCounts, SetupTypes, Fresh
    <2>3. setup' = [refs |-> S!Less(setup.refs), shown |-> S!Less(setup.shown),
                    live |-> S!Less(setup.refs) + S!Less(setup.shown) # 0, bad |-> FALSE,
                    used |-> setup.used]
      BY <1>1, <1>6, <2>2, Calls
    <2>4. S!Less(setup.refs) = setup.refs - 1
          /\ S!Less(setup.shown) = (IF setup.shown = 0 THEN 0 ELSE setup.shown - 1)
      BY <2>1 DEF S!Less
    <2>5. /\ setup'.refs = setup.refs - 1
          /\ setup'.shown = (IF setup.shown = 0 THEN 0 ELSE setup.shown - 1)
          /\ setup'.used = setup.used
          /\ setup' = [refs |-> setup'.refs, shown |-> setup'.shown, live |-> setup'.live,
                       bad |-> FALSE, used |-> setup'.used]
      BY <2>3, <2>4
    <2>6. setup'.live = (setup'.refs + setup'.shown # 0)
      BY <2>3, <2>4, <2>5
    <2>7. setup'.shown <= setup'.refs /\ setup'.shown \in Nat /\ setup'.refs \in Nat
          /\ ((setup'.refs + setup'.shown # 0) <=> (setup'.refs # 0))
      BY <1>5, <2>1, <2>5
    <2>8. setup'.live = (setup'.refs # 0)
      BY <2>6, <2>7
    <2>9. SetupTypes'
      BY <1>1, <1>4, <2>5, <2>7, <2>8 DEF SetupCounts, SetupTypes
    <2>10. CountsFit'
      BY <1>1, <1>3, <1>6, <2>1, <2>5, <2>7, <2>8 DEF CountsFit
    <2>. QED BY <1>4, <2>9, <2>10 DEF SetupCounts
  <1>7. CASE sys # "addref" /\ pages[p] = "shown"
    <2>1. /\ setup.refs = 0 /\ setup.shown = Number(pages, {"shown"}) /\ setup.shown # 0
          /\ setup.shown \in Nat /\ setup.used = TRUE /\ setup.live = TRUE
      BY <1>1, <1>2, <1>7 DEF SetupCounts, SetupTypes, CountsFit
    <2>2. Fresh(setup) /\ setup.refs + setup.shown # 0
      BY <2>1 DEF SetupCounts, SetupTypes, Fresh
    <2>3. setup' = [refs |-> S!Less(setup.refs), shown |-> S!Less(setup.shown),
                    live |-> S!Less(setup.refs) + S!Less(setup.shown) # 0, bad |-> FALSE,
                    used |-> setup.used]
      BY <1>1, <1>7, <2>2, Calls
    <2>4. S!Less(setup.refs) = 0 /\ S!Less(setup.shown) = setup.shown - 1
      BY <2>1 DEF S!Less
    <2>5. /\ setup'.refs = 0 /\ setup'.shown = setup.shown - 1 /\ setup'.used = TRUE
          /\ setup' = [refs |-> setup'.refs, shown |-> setup'.shown, live |-> setup'.live,
                       bad |-> FALSE, used |-> setup'.used]
      BY <2>1, <2>3, <2>4
    <2>6. setup'.live = (setup'.shown # 0)
      BY <2>1, <2>3, <2>4, <2>5
    <2>7. setup'.shown \in Nat
      BY <2>1, <2>5
    <2>8. SetupTypes'
      BY <1>1, <1>4, <2>5, <2>6, <2>7 DEF SetupCounts, SetupTypes
    <2>9. CountsFit'
      BY <1>1, <1>3, <1>7, <2>1, <2>5, <2>6 DEF CountsFit
    <2>. QED BY <1>4, <2>8, <2>9 DEF SetupCounts
  <1>8. CASE sys # "addref" /\ pages[p] # "shown"
    <2>1. setup' = setup
      BY <1>1, <1>8
    <2>2. SetupTypes'
      BY <1>1, <1>4, <2>1 DEF SetupCounts, SetupTypes
    <2>3. CountsFit'
      BY <1>1, <1>3, <1>8, <2>1 DEF SetupCounts, CountsFit
    <2>. QED BY <1>4, <2>2, <2>3 DEF SetupCounts
  <1>. QED BY <1>6, <1>7, <1>8

LEMMA SetupStep ==
  ASSUME NoMishap, SetupCounts, S!Next
  PROVE  SetupCounts'
  <1>1. CASE UNCHANGED <<setup, pages, sheet, sys>>
    BY <1>1 DEF SetupCounts, SetupTypes, PagesFit, CountsFit
  <1>2. ASSUME S!Loaded PROVE SetupCounts'
    <2>1. sheet = "loading" /\ sheet' = "open" /\ \A p \in S!Pages : pages[p] # "new"
      BY <1>2 DEF S!Loaded
    <2>2. UNCHANGED <<setup, pages, sys>> /\ "emul" \in S!Pages
      BY <1>2 DEF S!Loaded, S!Pages
    <2>3. pages["emul"] \in Loaded
      BY <2>1, <2>2 DEF SetupCounts, PagesFit, Loaded
    <2>. QED BY <2>1, <2>2, <2>3 DEF SetupCounts, SetupTypes, PagesFit, CountsFit
  <1>3. ASSUME sheet = "open", sheet' = "closing", UNCHANGED <<setup, pages, sys>>
        PROVE  SetupCounts'
    <2>1. SetupTypes' /\ PagesFit'
      BY <1>3 DEF SetupCounts, SetupTypes, PagesFit
    <2>2. Number(pages, Loaded) # 0 /\ Number(pages, Loaded) \in Nat
      <3>1. "emul" \in S!Pages
        BY DEF S!Pages
      <3>. QED BY <1>3, <3>1, Numbers DEF SetupCounts, PagesFit
    <2>3. setup.live = TRUE /\ setup.used \in BOOLEAN
      BY <1>3 DEF SetupCounts, SetupTypes, CountsFit
    <2>4. CASE sys = "addref"
      <3>1. CountsFit'
        BY <1>3, <2>2, <2>3, <2>4 DEF SetupCounts, CountsFit
      <3>. QED BY <2>1, <3>1 DEF SetupCounts
    <2>5. CASE sys # "addref"
      <3>1. setup.used => setup.shown # 0
        BY <1>3, <2>5 DEF SetupCounts, CountsFit
      <3>2. CountsFit'
        BY <1>3, <2>3, <2>5, <3>1 DEF SetupCounts, CountsFit
      <3>. QED BY <2>1, <3>2 DEF SetupCounts
    <2>. QED BY <2>4, <2>5
  <1>4. ASSUME S!Closed PROVE SetupCounts'
    <2>1. sheet = "closing" /\ sheet' = "closed" /\ \A p \in S!Pages : pages[p] = "gone"
      BY <1>4 DEF S!Closed
    <2>2. UNCHANGED <<setup, pages, sys>>
      BY <1>4 DEF S!Closed
    <2>. QED BY <2>1, <2>2 DEF SetupCounts, SetupTypes, PagesFit, CountsFit
  <1>5. \/ UNCHANGED <<setup, pages, sheet, sys>> \/ S!Loaded \/ S!Closed
        \/ (sheet = "open" /\ sheet' = "closing" /\ UNCHANGED <<setup, pages, sys>>)
        \/ \E p \in S!Pages : S!LoadPage(p) \/ S!ClosePage(p) \/ S!Select(p)
    <2>1. ASSUME NEW g, S!Reset(g) \/ S!Count(g) \/ S!CloseExtras(g) \/ S!FwBegin(g)
          PROVE  UNCHANGED <<setup, pages, sheet, sys>>
      BY <2>1 DEF S!Reset, S!Count, S!CloseExtras, S!FwBegin
    <2>2. ASSUME S!Ok \/ S!WizNext \/ S!Cancel
          PROVE  /\ sheet = "open" /\ sheet' \in {"open", "closing"}
                 /\ UNCHANGED <<setup, pages, sys>>
      BY <2>2 DEF S!Ok, S!WizNext, S!Cancel, S!Apply, S!Act
    <2>3. ASSUME S!Unplug \/ S!Plug \/ S!FwWrite PROVE UNCHANGED <<setup, pages, sheet, sys>>
      BY <2>3 DEF S!Unplug, S!Plug, S!FwWrite
    <2>4. ASSUME S!Edit \/ S!CacheBox \/ S!Tick \/ S!OpenExtras \/ S!Touch
          PROVE  UNCHANGED <<setup, pages, sheet, sys>>
      BY <2>4 DEF S!Edit, S!CacheBox, S!Tick, S!OpenExtras, S!Touch
    <2>. QED BY <2>1, <2>2, <2>3, <2>4, Zenon DEF S!Next
  <1>. QED BY <1>1, <1>2, <1>3, <1>4, <1>5, LoadPageStep, ClosePageStep, SelectStep

LEMMA InFrontStep ==
  ASSUME SetupCounts, InFront, S!Next
  PROVE  InFront'
  <1>1. pages \in [S!Pages -> PageStates] /\ "emul" \in S!Pages
    BY DEF SetupCounts, SetupTypes, S!Pages
  <1>2. CASE UNCHANGED <<pages, sheet, active>>
    BY <1>2 DEF InFront
  <1>3. CASE sheet' \in {"closing", "closed"}
    BY <1>3 DEF InFront
  <1>4. CASE UNCHANGED active /\ sheet = "loading"
    BY <1>4 DEF InFront
  <1>5. ASSUME NEW p \in S!Pages, S!Select(p) PROVE InFront'
    <2>1. sheet = "open" /\ sheet' = "open"
      BY <1>5 DEF S!Select, S!Act
    <2>2. CASE active' = p /\ pages' = [pages EXCEPT ![p] = "shown"]
      BY <1>1, <2>1, <2>2 DEF InFront
    <2>3. CASE UNCHANGED <<pages, active>>
      BY <2>1, <2>3 DEF InFront
    <2>. QED BY <1>5, <2>2, <2>3 DEF S!Select
  <1>6. ASSUME S!Apply, S!Act PROVE InFront'
    <2>1. UNCHANGED pages /\ (sheet' = "closing" \/ (active' = "emul" /\ sheet' = "open"))
          /\ (sheet' # "closing" => pages["emul"] = "shown")
      BY <1>6 DEF S!Apply, S!Act
    <2>. QED BY <1>1, <2>1 DEF InFront
  <1>7. \/ UNCHANGED <<pages, sheet, active>> \/ sheet' \in {"closing", "closed"}
        \/ (UNCHANGED active /\ sheet = "loading")
        \/ (\E p \in S!Pages : S!Select(p)) \/ (S!Apply /\ S!Act)
    <2>1. ASSUME NEW g, S!Reset(g) \/ S!Count(g) \/ S!CloseExtras(g) \/ S!FwBegin(g)
          PROVE  UNCHANGED <<pages, sheet, active>>
      BY <2>1 DEF S!Reset, S!Count, S!CloseExtras, S!FwBegin
    <2>2. S!Ok \/ S!WizNext => S!Apply /\ S!Act
      BY DEF S!Ok, S!WizNext
    <2>3. ASSUME S!Unplug \/ S!Plug \/ S!FwWrite PROVE UNCHANGED <<pages, sheet, active>>
      BY <2>3 DEF S!Unplug, S!Plug, S!FwWrite
    <2>4. ASSUME S!Edit \/ S!CacheBox \/ S!Tick \/ S!OpenExtras \/ S!Touch
          PROVE  UNCHANGED <<pages, sheet, active>>
      BY <2>4 DEF S!Edit, S!CacheBox, S!Tick, S!OpenExtras, S!Touch
    <2>5. ASSUME NEW p, S!LoadPage(p) \/ S!Loaded PROVE UNCHANGED active /\ sheet = "loading"
      BY <2>5 DEF S!LoadPage, S!Loaded
    <2>6. ASSUME NEW p, S!ClosePage(p) \/ S!Closed \/ S!Cancel
          PROVE  sheet' \in {"closing", "closed"}
      BY <2>6 DEF S!ClosePage, S!Closed, S!Cancel
    <2>. QED BY <2>1, <2>2, <2>3, <2>4, <2>5, <2>6, Zenon DEF S!Next
  <1>. QED BY <1>2, <1>3, <1>4, <1>5, <1>6, <1>7
-----------------------------------------------------------------------------
(* The counters *)

\* The page Statistics is shown as little as before.
StatStays ==
  pages'["stat"] # "shown" /\ sheet' \in {"loading", "open"} =>
    pages["stat"] # "shown" /\ sheet \in {"loading", "open"}

LEMMA CountersStay ==
  ASSUME Counters, StatStays, drv'.cnt = drv.cnt, drv' = [uc |-> drv'.uc, cnt |-> drv'.cnt],
         UNCHANGED <<had, zeroed, ac>>
  PROVE  Counters' /\ S!NeverBack
  <1>1. CountTypes'
    BY DEF Counters, CountTypes
  <1>2. Counters'
    BY <1>1 DEF Counters, StatStays
  <1>3. S!NeverBack
    <2>1. \A g \in S!Groups : ac[g] \in Int
      BY DEF Counters, CountTypes, S!Unread
    <2>. QED BY <2>1 DEF S!NeverBack
  <1>. QED BY <1>2, <1>3

\* The counters are shown as they are.
LEMMA CountersShown ==
  ASSUME Counters, UNCHANGED <<drv, had>>, ac' = drv.cnt, zeroed' = {},
         pages'["stat"] = "shown",
         ac = S!Unread \/ ~(\E g \in S!Groups : g \notin zeroed /\ ac[g] > drv.cnt[g])
  PROVE  Counters' /\ S!NeverBack
  <1>1. /\ drv.cnt \in [S!Groups -> Nat] /\ had \in [S!Groups -> Nat]
        /\ \A g \in S!Groups : drv.cnt[g] \in Nat /\ ac[g] \in Int
    BY DEF Counters, CountTypes, S!Unread
  <1>2. CountTypes'
    BY <1>1 DEF Counters, CountTypes
  <1>3. Counters'
    BY <1>1, <1>2 DEF Counters
  <1>4. S!NeverBack
    BY <1>1 DEF Counters, S!NeverBack
  <1>. QED BY <1>3, <1>4

LEMMA SelectCounts ==
  ASSUME Counters, SetupCounts, NEW p \in S!Pages, S!Select(p)
  PROVE  Counters' /\ S!NeverBack
  <1>1. /\ sheet = "open" /\ UNCHANGED <<sheet, had, drv>> /\ pages[p] \in {"added", "shown"}
    BY DEF S!Select, S!Act, S!world
  <1>2. /\ pages \in [S!Pages -> PageStates] /\ "stat" \in S!Pages
    BY DEF SetupCounts, SetupTypes, S!Pages
  <1>3. drv = [uc |-> drv.uc, cnt |-> drv.cnt]
    BY DEF Counters, CountTypes
  <1>4. CASE UNCHANGED <<pages, ac, zeroed>>
    BY <1>1, <1>3, <1>4, CountersStay DEF StatStays
  <1>5. CASE pages' = [pages EXCEPT ![p] = "shown"] /\ UNCHANGED <<ac, zeroed>>
    <2>1. pages'["stat"] # "shown" => pages["stat"] # "shown"
      BY <1>2, <1>5
    <2>. QED BY <1>1, <1>3, <1>5, <2>1, CountersStay DEF StatStays
  <1>6. CASE /\ p = "stat" /\ pages[p] = "added" /\ pages' = [pages EXCEPT ![p] = "shown"]
             /\ ac' = (IF plug THEN drv.cnt ELSE S!Unread) /\ zeroed' = {}
    <2>1. pages'["stat"] = "shown" /\ ac = S!Unread
      BY <1>1, <1>2, <1>6 DEF Counters
    <2>2. CASE plug
      BY <1>1, <1>6, <2>1, <2>2, CountersShown
    <2>3. CASE ~plug
      <3>1. ac' = ac
        BY <1>6, <2>1, <2>3
      <3>2. \A g \in S!Groups : ac[g] = -1 /\ drv.cnt[g] \in Nat /\ had[g] \in Nat
        BY <2>1 DEF Counters, CountTypes, S!Unread
      <3>3. CountTypes'
        BY <1>1, <1>6, <3>1 DEF Counters, CountTypes
      <3>4. Counters'
        BY <1>1, <2>1, <3>1, <3>2, <3>3 DEF Counters
      <3>5. S!NeverBack
        BY <3>1, <3>2 DEF S!NeverBack
      <3>. QED BY <3>4, <3>5
    <2>. QED BY <2>2, <2>3
  <1>. QED BY <1>1, <1>4, <1>5, <1>6 DEF S!Select

LEMMA TickCounts ==
  ASSUME Counters, SetupCounts, InFront, S!Tick
  PROVE  Counters' /\ S!NeverBack
  <1>1. UNCHANGED <<sheet, had, drv, pages>>
    BY DEF S!Tick, S!world
  <1>2. drv = [uc |-> drv.uc, cnt |-> drv.cnt]
    BY DEF Counters, CountTypes
  <1>3. CASE UNCHANGED <<ac, zeroed>>
    BY <1>1, <1>2, <1>3, CountersStay DEF StatStays
  <1>4. CASE ac' = drv.cnt /\ zeroed' = {}
    <2>1. \A g \in S!Groups : drv.cnt[g] \in Nat /\ ac[g] \in Int /\ had[g] \in Nat
      BY DEF Counters, CountTypes, S!Unread
    <2>2. CountTypes'
      BY <1>1, <1>4 DEF Counters, CountTypes
    <2>3. pages["stat"] = "shown"
      BY DEF S!Tick, InFront, S!NoPage
    <2>4. Counters'
      BY <1>1, <1>4, <2>1, <2>2, <2>3 DEF Counters
    <2>5. S!NeverBack
      BY <1>4, <2>1 DEF Counters, S!NeverBack
    <2>. QED BY <2>4, <2>5
  <1>. QED BY <1>3, <1>4 DEF S!Tick

LEMMA ResetCounts ==
  ASSUME NoMishap, Counters, NEW g \in S!Groups, S!Reset(g)
  PROVE  Counters' /\ S!NeverBack
  <1>1. UNCHANGED <<sheet, pages, ac>> /\ ac # S!Unread /\ zeroed = {}
    BY DEF S!Reset, S!Mishap, NoMishap
  <1>2. PICK u, c : drv = [uc |-> u, cnt |-> c]
    BY DEF Counters, CountTypes
  <1>3. CASE UNCHANGED <<drv, zeroed, had>>
    <2>1. drv' = [uc |-> drv'.uc, cnt |-> drv'.cnt]
      BY <1>2, <1>3
    <2>. QED BY <1>1, <1>3, <2>1, CountersStay DEF StatStays
  <1>4. CASE /\ drv' = [drv EXCEPT !.cnt = [ac EXCEPT ![g] = 0]] /\ zeroed' = zeroed \cup {g}
             /\ had' = [had EXCEPT ![g] = 0]
    <2>1. ac \in [S!Groups -> Nat] /\ had \in [S!Groups -> Nat] /\ drv.cnt \in [S!Groups -> Nat]
      BY <1>1 DEF Counters, CountTypes
    <2>2. drv' = [uc |-> u, cnt |-> [ac EXCEPT ![g] = 0]]
      BY <1>2, <1>4
    <2>3. drv'.cnt = [ac EXCEPT ![g] = 0] /\ drv' = [uc |-> drv'.uc, cnt |-> drv'.cnt]
      BY <2>2
    <2>4. drv'.cnt \in [S!Groups -> Nat] /\ had' \in [S!Groups -> Nat] /\ zeroed' = {g}
      BY <1>1, <1>4, <2>1, <2>3
    <2>5. CountTypes'
      BY <1>1, <2>1, <2>3, <2>4 DEF CountTypes
    <2>6. \A h \in S!Groups : drv'.cnt[h] <= had'[h] /\ (h \in zeroed' \/ ac'[h] <= drv'.cnt[h])
      <3>1. SUFFICES ASSUME NEW h \in S!Groups
                     PROVE  drv'.cnt[h] <= had'[h] /\ (h \in zeroed' \/ ac'[h] <= drv'.cnt[h])
        OBVIOUS
      <3>2. CASE h = g
        BY <1>4, <2>1, <2>3, <2>4, <3>2
      <3>3. CASE h # g
        <4>1. drv'.cnt[h] = ac[h] /\ had'[h] = had[h] /\ ac'[h] = ac[h]
          BY <1>1, <1>4, <2>1, <2>3, <3>3
        <4>2. ac[h] <= drv.cnt[h] /\ drv.cnt[h] <= had[h]
          BY <1>1 DEF Counters
        <4>3. ac[h] \in Nat /\ drv.cnt[h] \in Nat /\ had[h] \in Nat
          BY <2>1
        <4>. QED BY <4>1, <4>2, <4>3
      <3>. QED BY <3>2, <3>3
    <2>7. Counters'
      BY <1>1, <2>5, <2>6 DEF Counters
    <2>8. S!NeverBack
      BY <1>1, <2>1 DEF S!NeverBack
    <2>. QED BY <2>7, <2>8
  <1>. QED BY <1>3, <1>4 DEF S!Reset

LEMMA CountCounts ==
  ASSUME Counters, NEW g \in S!Groups, S!Count(g)
  PROVE  Counters' /\ S!NeverBack
  <1>1. UNCHANGED <<sheet, pages, ac, zeroed>>
    BY DEF S!Count
  <1>2. PICK u, c : drv = [uc |-> u, cnt |-> c] /\ drv.cnt = c /\ c \in [S!Groups -> Nat]
    BY DEF Counters, CountTypes
  <1>3. /\ drv' = [drv EXCEPT !.cnt[g] = drv.cnt[g] + 1]
        /\ had' = [had EXCEPT ![g] = had[g] + 1]
    BY DEF S!Count
  <1>4. drv' = [uc |-> u, cnt |-> [c EXCEPT ![g] = c[g] + 1]]
    BY <1>2, <1>3
  <1>5. drv'.cnt = [c EXCEPT ![g] = c[g] + 1] /\ drv' = [uc |-> drv'.uc, cnt |-> drv'.cnt]
    BY <1>4
  <1>6. had \in [S!Groups -> Nat]
    BY DEF Counters, CountTypes
  <1>7. drv'.cnt \in [S!Groups -> Nat] /\ had' \in [S!Groups -> Nat]
    BY <1>2, <1>3, <1>5, <1>6
  <1>8. CountTypes'
    BY <1>1, <1>5, <1>7 DEF Counters, CountTypes
  <1>9. \A h \in S!Groups : drv'.cnt[h] <= had'[h] /\ (h \in zeroed' \/ ac'[h] <= drv'.cnt[h])
    <2>1. SUFFICES ASSUME NEW h \in S!Groups
                   PROVE  drv'.cnt[h] <= had'[h] /\ (h \in zeroed' \/ ac'[h] <= drv'.cnt[h])
      OBVIOUS
    <2>2. c[h] <= had[h] /\ (h \in zeroed \/ ac[h] <= c[h]) /\ c[h] \in Nat /\ had[h] \in Nat
          /\ ac[h] \in Int
      BY <1>2, <1>6 DEF Counters, CountTypes, S!Unread
    <2>3. CASE h = g
      <3>1. drv'.cnt[h] = c[h] + 1 /\ had'[h] = had[h] + 1
        BY <1>2, <1>3, <1>5, <1>6, <2>3
      <3>. QED BY <1>1, <2>2, <3>1
    <2>4. CASE h # g
      <3>1. drv'.cnt[h] = c[h] /\ had'[h] = had[h]
        BY <1>2, <1>3, <1>5, <1>6, <2>4
      <3>. QED BY <1>1, <2>2, <3>1
    <2>. QED BY <2>3, <2>4
  <1>10. Counters'
    BY <1>1, <1>8, <1>9 DEF Counters
  <1>11. S!NeverBack
    <2>1. \A h \in S!Groups : ac[h] \in Int
      BY DEF Counters, CountTypes, S!Unread
    <2>. QED BY <1>1, <2>1 DEF S!NeverBack
  <1>. QED BY <1>10, <1>11

LEMMA UnplugCounts ==
  ASSUME Counters, S!Unplug
  PROVE  Counters' /\ S!NeverBack
  <1>1. UNCHANGED <<sheet, pages, ac>> /\ zeroed' = S!Groups /\ had' = S!Zero
        /\ drv' = [drv EXCEPT !.cnt = S!Zero]
    BY DEF S!Unplug
  <1>2. PICK u, c : drv = [uc |-> u, cnt |-> c]
    BY DEF Counters, CountTypes
  <1>3. drv' = [uc |-> u, cnt |-> S!Zero]
    BY <1>1, <1>2
  <1>4. drv'.cnt = S!Zero /\ drv' = [uc |-> drv'.uc, cnt |-> drv'.cnt]
    BY <1>3
  <1>5. S!Zero \in [S!Groups -> Nat] /\ \A h \in S!Groups : S!Zero[h] = 0
    BY DEF S!Zero
  <1>6. CountTypes'
    BY <1>1, <1>4, <1>5 DEF Counters, CountTypes
  <1>7. Counters'
    BY <1>1, <1>4, <1>5, <1>6 DEF Counters
  <1>8. S!NeverBack
    <2>1. \A h \in S!Groups : ac[h] \in Int
      BY DEF Counters, CountTypes, S!Unread
    <2>. QED BY <1>1, <2>1 DEF S!NeverBack
  <1>. QED BY <1>7, <1>8

\* What neither counts nor shows, and leaves the page Statistics in its place.
LEMMA OtherCounts ==
  ASSUME Counters, SetupCounts, NEW p \in S!Pages, NEW x,
         \/ S!LoadPage(p) \/ S!ClosePage(p) \/ S!Loaded \/ S!Closed \/ S!Edit \/ S!CacheBox
         \/ S!Ok \/ S!WizNext \/ S!Cancel \/ S!OpenExtras \/ S!Touch \/ S!CloseExtras(x)
         \/ S!FwBegin(x) \/ S!FwWrite \/ S!Plug
  PROVE  Counters' /\ S!NeverBack
  <1>1. PICK u, c : drv = [uc |-> u, cnt |-> c]
    BY DEF Counters, CountTypes
  <1>2. ASSUME UNCHANGED drv PROVE drv'.cnt = drv.cnt /\ drv' = [uc |-> drv'.uc, cnt |-> drv'.cnt]
    BY <1>1, <1>2
  <1>3. ASSUME UNCHANGED <<drv, had, zeroed, ac>>, StatStays PROVE Counters' /\ S!NeverBack
    BY <1>2, <1>3, CountersStay
  <1>4. ASSUME S!LoadPage(p) PROVE Counters' /\ S!NeverBack
    <2>1. pages[p] = "new" /\ sheet = "loading" /\ UNCHANGED <<drv, had, zeroed, ac, sheet>>
          /\ \E b : pages' = [pages EXCEPT ![p] = b]
      BY <1>4 DEF S!LoadPage, S!world
    <2>2. pages'["stat"] # "shown" => pages["stat"] # "shown"
      BY <2>1 DEF SetupCounts, SetupTypes, S!Pages
    <2>. QED BY <1>3, <2>1, <2>2 DEF StatStays
  <1>5. ASSUME S!ClosePage(p) \/ S!Closed \/ S!Cancel PROVE Counters' /\ S!NeverBack
    <2>1. sheet' \in {"closing", "closed"} /\ UNCHANGED <<drv, had, zeroed, ac>>
      BY <1>5 DEF S!ClosePage, S!Closed, S!Cancel, S!world
    <2>. QED BY <1>3, <2>1 DEF StatStays
  <1>6. ASSUME S!Ok \/ S!WizNext PROVE Counters' /\ S!NeverBack
    <2>1. S!Apply /\ sheet = "open"
      BY <1>6 DEF S!Ok, S!WizNext, S!Act
    <2>2. UNCHANGED <<pages, had, zeroed, ac>>
      BY <2>1 DEF S!Apply
    <2>3. drv' = drv \/ \E s : drv' = [drv EXCEPT !.uc = s]
      BY <2>1 DEF S!Apply, S!Write
    <2>4. drv'.cnt = drv.cnt /\ drv' = [uc |-> drv'.uc, cnt |-> drv'.cnt]
      <3>1. CASE drv' = drv
        BY <1>1, <3>1
      <3>2. ASSUME NEW s, drv' = [drv EXCEPT !.uc = s]
            PROVE  drv'.cnt = drv.cnt /\ drv' = [uc |-> drv'.uc, cnt |-> drv'.cnt]
        <4>1. drv' = [uc |-> s, cnt |-> c]
          BY <1>1, <3>2
        <4>. QED BY <1>1, <4>1
      <3>. QED BY <2>3, <3>1, <3>2
    <2>. QED BY <2>1, <2>2, <2>4, CountersStay DEF StatStays
  <1>7. ASSUME S!Loaded PROVE Counters' /\ S!NeverBack
    <2>1. sheet = "loading" /\ UNCHANGED <<drv, had, zeroed, ac, pages>>
      BY <1>7 DEF S!Loaded, S!world
    <2>. QED BY <1>3, <2>1 DEF StatStays
  <1>8. ASSUME S!Edit \/ S!CacheBox \/ S!OpenExtras \/ S!Touch \/ S!CloseExtras(x) \/ S!FwBegin(x)
               \/ S!FwWrite \/ S!Plug
        PROVE  Counters' /\ S!NeverBack
    <2>1. UNCHANGED <<drv, had, zeroed, ac, pages, sheet>>
      BY <1>8 DEF S!Edit, S!CacheBox, S!OpenExtras, S!Touch, S!CloseExtras, S!FwBegin, S!FwWrite,
                  S!Plug, S!world
    <2>. QED BY <1>3, <2>1 DEF StatStays
  <1>. QED BY <1>4, <1>5, <1>6, <1>7, <1>8

LEMMA CountersStep ==
  ASSUME NoMishap, Counters, SetupCounts, InFront, S!Next
  PROVE  Counters' /\ S!NeverBack
  <1>1. "emul" \in S!Pages
    BY DEF S!Pages
  <1>. QED BY <1>1, SelectCounts, TickCounts, ResetCounts, CountCounts, UnplugCounts, OtherCounts,
              Zenon DEF S!Next
-----------------------------------------------------------------------------
(* The settings *)

\* Settings of which each field is there, and the time-out in range.
Decent(s) == DOMAIN s = SettingFields /\ s.timeout <= 1000

\* One field after the other is taken over.
LEMMA TakenFields ==
  ASSUME Decent(edit)
  PROVE  Decent(S!Taken) /\ (S!Accepted => Sound(S!Taken))
  <1>1. PICK a : a = IF S!BaseFits THEN [edit EXCEPT !.base = fields.base] ELSE edit
    OBVIOUS
  <1>2. PICK b : b = IF S!BaseFits /\ S!ModeFits THEN [a EXCEPT !.mode = fields.mode] ELSE a
    OBVIOUS
  <1>3. S!Taken = IF S!Accepted /\ ~wizard
                  THEN [b EXCEPT !.timeout = fields.timeout, !.flags = fields.flags] ELSE b
    BY <1>1, <1>2 DEF S!Taken
  <1>4. /\ DOMAIN a = SettingFields /\ a.timeout = edit.timeout
        /\ S!BaseFits => a.base = fields.base
    BY <1>1 DEF Decent, SettingFields
  <1>5. /\ DOMAIN b = SettingFields /\ b.timeout = edit.timeout
        /\ S!BaseFits /\ S!ModeFits => b.base = fields.base /\ b.mode = fields.mode
    BY <1>2, <1>4 DEF SettingFields
  <1>6. CASE S!Accepted /\ ~wizard
    <2>1. S!Taken = [b EXCEPT !.timeout = fields.timeout, !.flags = fields.flags]
      BY <1>3, <1>6
    <2>2. /\ DOMAIN S!Taken = SettingFields /\ S!Taken.timeout = fields.timeout
          /\ S!Taken.base = b.base /\ S!Taken.mode = b.mode
      BY <1>5, <2>1 DEF SettingFields
    <2>3. S!BaseFits /\ S!ModeFits /\ fields.timeout <= 1000
      BY <1>6 DEF S!Accepted, S!TimeFits
    <2>4. S!Taken.base = fields.base /\ S!Taken.mode = fields.mode
      BY <1>5, <2>2, <2>3
    <2>. QED BY <2>2, <2>3, <2>4 DEF Decent, Sound, S!BaseFits, S!ModeFits
  <1>7. CASE ~(S!Accepted /\ ~wizard)
    <2>1. S!Taken = b
      BY <1>3, <1>7
    <2>2. Decent(S!Taken)
      BY <1>5, <2>1 DEF Decent
    <2>3. ASSUME S!Accepted PROVE Sound(S!Taken)
      <3>1. S!Taken.base = fields.base /\ S!Taken.mode = fields.mode
        BY <1>5, <2>1, <2>3 DEF S!Accepted
      <3>. QED BY <2>2, <2>3, <3>1 DEF Decent, Sound, S!Accepted, S!BaseFits, S!ModeFits
    <2>. QED BY <2>2, <2>3
  <1>. QED BY <1>6, <1>7

\* What is left behind when the page in front lets go.
LEMMA LeftSound ==
  ASSUME SheetSettings, sheet = "open"
  PROVE  /\ Decent(S!UcAfter)
         /\ S!Leaves /\ pages["emul"] = "shown" => Sound(S!UcAfter)
  <1>1. Decent(edit)
    BY DEF SheetSettings, Decent
  <1>2. CASE active = "emul"
    BY <1>1, <1>2, TakenFields DEF S!UcAfter, S!Leaves
  <1>3. CASE active # "emul"
    BY <1>1, <1>3 DEF S!UcAfter, SheetSettings
  <1>. QED BY <1>2, <1>3

LEMMA SelectSettings ==
  ASSUME SheetSettings, SetupCounts, NEW p \in S!Pages, S!Select(p)
  PROVE  SheetSettings'
  <1>1. /\ sheet = "open" /\ UNCHANGED <<sheet, drv>>
        /\ edit' = IF p = "emul" /\ pages[p] = "added" /\ plug THEN drv.uc ELSE S!UcAfter
    BY DEF S!Select, S!Act, S!world
  <1>2. Decent(edit')
    <2>1. Decent(drv.uc)
      BY DEF SheetSettings, Decent, Sound
    <2>. QED BY <1>1, <2>1, LeftSound
  <1>3. ASSUME pages'["emul"] = "shown", active' # "emul" PROVE Sound(edit')
    <2>1. CASE ~S!Leaves
      BY <1>3, <2>1 DEF S!Select, S!Leaves
    <2>2. CASE S!Leaves
      <3>1. active' = p /\ pages' = [pages EXCEPT ![p] = "shown"]
        BY <2>2 DEF S!Select
      <3>2. p # "emul" /\ pages["emul"] = "shown"
        BY <1>3, <3>1 DEF SetupCounts, SetupTypes
      <3>. QED BY <1>1, <2>2, <3>2, LeftSound
    <2>. QED BY <2>1, <2>2
  <1>. QED BY <1>1, <1>2, <1>3 DEF SheetSettings, Decent

LEMMA ApplySettings ==
  ASSUME SheetSettings, CountTypes, S!Act, S!Apply, S!Leaves
  PROVE  SheetSettings'
  <1>1. /\ sheet = "open" /\ edit' = S!UcAfter /\ UNCHANGED pages
        /\ sheet' = "closing" \/ active' = "emul"
    BY DEF S!Apply, S!Act
  <1>2. Decent(edit')
    BY <1>1, LeftSound
  <1>3. PICK u, c : drv = [uc |-> u, cnt |-> c] /\ drv.uc = u
    BY DEF CountTypes
  <1>4. DOMAIN drv'.uc = SettingFields /\ Sound(drv'.uc)
    <2>1. CASE drv' = drv
      BY <2>1 DEF SheetSettings
    <2>2. CASE pages["emul"] = "shown" /\ drv' = [drv EXCEPT !.uc = edit']
      <3>1. drv' = [uc |-> edit', cnt |-> c]
        BY <1>3, <2>2
      <3>2. drv'.uc = edit'
        BY <3>1
      <3>3. Sound(edit')
        BY <1>1, <2>2, LeftSound
      <3>. QED BY <1>2, <3>2, <3>3 DEF Decent
    <2>. QED BY <2>1, <2>2 DEF S!Apply, S!Write
  <1>. QED BY <1>1, <1>2, <1>4 DEF SheetSettings, Decent

LEMMA CacheSettings ==
  ASSUME SheetSettings, S!CacheBox
  PROVE  SheetSettings'
  <1>1. active = "emul" /\ UNCHANGED <<drv, active, sheet, pages>>
    BY DEF S!CacheBox, S!world
  <1>2. PICK c : edit' = [edit EXCEPT !.cache = c]
    BY DEF S!CacheBox
  <1>3. DOMAIN edit' = SettingFields /\ edit'.timeout <= 1000
    BY <1>2 DEF SheetSettings, SettingFields
  <1>. QED BY <1>1, <1>3 DEF SheetSettings

\* What leaves the settings alone, here and in the driver.
LEMMA SettingsStay ==
  ASSUME SheetSettings, UNCHANGED edit, drv'.uc = drv.uc,
         sheet' = "open" /\ pages'["emul"] = "shown" /\ active' # "emul" =>
           sheet = "open" /\ pages["emul"] = "shown" /\ active # "emul"
  PROVE  SheetSettings'
  BY DEF SheetSettings

LEMMA DriverCounts ==
  ASSUME SheetSettings, CountTypes, NEW g, S!Reset(g) \/ S!Count(g) \/ S!Unplug
  PROVE  SheetSettings'
  <1>1. UNCHANGED <<edit, sheet, pages, active>>
    BY DEF S!Reset, S!Count, S!Unplug
  <1>2. PICK u, c : drv = [uc |-> u, cnt |-> c] /\ drv.uc = u /\ drv.cnt = c
    BY DEF CountTypes
  <1>3. drv' = drv \/ \E x : drv' = [drv EXCEPT !.cnt = x]
    <2>1. S!Reset(g) \/ S!Unplug => drv' = drv \/ \E x : drv' = [drv EXCEPT !.cnt = x]
      BY DEF S!Reset, S!Unplug
    <2>2. S!Count(g) => drv' = [drv EXCEPT !.cnt = [drv.cnt EXCEPT ![g] = drv.cnt[g] + 1]]
      BY <1>2 DEF S!Count
    <2>. QED BY <2>1, <2>2
  <1>4. drv'.uc = drv.uc
    <2>1. ASSUME NEW x, drv' = [drv EXCEPT !.cnt = x] PROVE drv'.uc = drv.uc
      <3>1. drv' = [uc |-> u, cnt |-> x]
        BY <1>2, <2>1
      <3>. QED BY <1>2, <3>1
    <2>. QED BY <1>3, <2>1
  <1>. QED BY <1>1, <1>4, SettingsStay

LEMMA SettingsStep ==
  ASSUME NoMishap, SheetSettings, CountTypes, SetupCounts, InFront, S!Next
  PROVE  SheetSettings'
  <1>1. CASE UNCHANGED <<edit, drv, sheet, pages, active>>
    BY <1>1, SettingsStay
  <1>2. CASE UNCHANGED <<edit, drv>> /\ sheet' \in {"loading", "closing", "closed"}
    BY <1>2, SettingsStay
  <1>3. ASSUME S!Loaded PROVE SheetSettings'
    <2>1. UNCHANGED <<edit, drv, pages>> /\ pages["emul"] # "shown"
      BY <1>3 DEF S!Loaded, S!world, SetupCounts, PagesFit
    <2>. QED BY <2>1, SettingsStay
  <1>4. ASSUME S!Ok \/ S!WizNext PROVE SheetSettings'
    <2>1. S!Act /\ S!Apply /\ S!Leaves
      BY <1>4 DEF S!Ok, S!WizNext, S!Leaves, S!Mishap, NoMishap
    <2>. QED BY <2>1, ApplySettings
  <1>5. \/ UNCHANGED <<edit, drv, sheet, pages, active>>
        \/ UNCHANGED <<edit, drv>> /\ sheet' \in {"loading", "closing", "closed"}
        \/ S!Loaded \/ S!Ok \/ S!WizNext \/ S!CacheBox \/ (\E p \in S!Pages : S!Select(p))
        \/ \E g \in S!Groups : S!Reset(g) \/ S!Count(g) \/ S!Unplug
    <2>1. ASSUME NEW p, S!LoadPage(p) \/ S!ClosePage(p) \/ S!Closed \/ S!Cancel
          PROVE  UNCHANGED <<edit, drv>> /\ sheet' \in {"loading", "closing", "closed"}
      BY <2>1 DEF S!LoadPage, S!ClosePage, S!Closed, S!Cancel, S!world
    <2>2. ASSUME NEW x, S!Edit \/ S!Tick \/ S!OpenExtras \/ S!Touch \/ S!CloseExtras(x)
                        \/ S!FwBegin(x) \/ S!FwWrite \/ S!Plug
          PROVE  UNCHANGED <<edit, drv, sheet, pages, active>>
      BY <2>2 DEF S!Edit, S!Tick, S!OpenExtras, S!Touch, S!CloseExtras, S!FwBegin, S!FwWrite,
                  S!Plug, S!world
    <2>3. "port" \in S!Groups
      BY DEF S!Groups
    <2>. QED BY <2>1, <2>2, <2>3, Zenon DEF S!Next
  <1>. QED BY <1>1, <1>2, <1>3, <1>4, <1>5, CacheSettings, SelectSettings, DriverCounts
-----------------------------------------------------------------------------
(* The invariant *)

LEMMA SheetInit ==
  ASSUME S!Init
  PROVE  SheetIInv
  <1>1. pages \in [S!Pages -> PageStates] /\ pages["emul"] = "new" /\ sheet = "loading"
        /\ \A p \in S!Pages : pages[p] \notin Loaded
    BY DEF S!Init, S!Pages, PageStates, Loaded
  <1>2. Number(pages, Loaded) = 0 /\ Number(pages, {"shown"}) = 0
    BY <1>1, Numbers DEF Loaded
  <1>3. SetupCounts
    <2>1. setup = [refs |-> 0, shown |-> 0, live |-> TRUE, bad |-> FALSE, used |-> FALSE]
      BY DEF S!Init, S!NewSetup
    <2>2. /\ setup.refs = 0 /\ setup.shown = 0 /\ setup.live = TRUE /\ setup.used = FALSE
          /\ setup = [refs |-> setup.refs, shown |-> setup.shown, live |-> setup.live,
                      bad |-> FALSE, used |-> setup.used]
      BY <2>1
    <2>3. PagesFit
      BY <1>1 DEF PagesFit
    <2>5. SetupTypes
      <3>1. setup.shown \in Nat /\ setup.live \in BOOLEAN /\ setup.used \in BOOLEAN
        BY <2>1
      <3>. QED BY <1>1, <2>2, <3>1 DEF SetupTypes
    <2>4. CountsFit
      BY <1>1, <1>2, <2>2 DEF CountsFit
    <2>. QED BY <2>3, <2>4, <2>5 DEF SetupCounts
  <1>4. InFront
    BY DEF S!Init, InFront
  <1>5. PICK u, c : /\ drv = [uc |-> u, cnt |-> c] /\ u = S!FirstSettings /\ c = S!Zero
                    /\ drv.uc = u /\ drv.cnt = c
    BY DEF S!Init
  <1>6. SheetSettings
    <2>1. DOMAIN u = SettingFields /\ Sound(u)
      BY <1>5 DEF S!FirstSettings, SettingFields, Sound
    <2>2. DOMAIN edit = SettingFields /\ edit.timeout <= 1000
      BY DEF S!Init, S!NoSettings, SettingFields
    <2>. QED BY <1>1, <1>5, <2>1, <2>2 DEF SheetSettings
  <1>7. Counters
    <2>1. S!Zero \in [S!Groups -> Nat] /\ \A g \in S!Groups : S!Zero[g] = 0 /\ S!Unread[g] = -1
      BY DEF S!Zero, S!Unread
    <2>2. had = S!Zero /\ zeroed = {} /\ ac = S!Unread
      BY DEF S!Init
    <2>3. CountTypes
      BY <1>5, <2>1, <2>2 DEF CountTypes
    <2>. QED BY <1>5, <2>1, <2>2, <2>3 DEF Counters
  <1>8. Update
    <2>1. PICK f, r : /\ rom = [first |-> f, rest |-> r]
                      /\ \/ f \in {"valid", "erased"} /\ r = "old"
                         \/ f \in {"blank", "stay"} /\ r = "none"
      BY DEF S!Init
    <2>2. rom.first = f /\ rom.rest = r /\ fw = "idle"
      BY <2>1 DEF S!Init
    <2>. QED BY <2>1, <2>2 DEF Update
  <1>9. Extras
    <2>1. feature \cap {1, 2} # {1, 2} /\ extras = S!NoDialog
      BY DEF S!Init
    <2>. QED BY <2>1 DEF Extras
  <1>. QED BY <1>3, <1>4, <1>6, <1>7, <1>8, <1>9 DEF SheetIInv

LEMMA SheetNext ==
  ASSUME NoMishap, SheetIInv, [S!Next]_(S!vars)
  PROVE  SheetIInv' /\ (S!NeverBack \/ UNCHANGED S!vars)
  <1>1. CASE S!Next
    BY <1>1, SetupStep, InFrontStep, SettingsStep, CountersStep, UpdateStep, ExtrasStep
    DEF SheetIInv, Counters
  <1>2. CASE UNCHANGED S!vars
    <2>1. UNCHANGED <<drv, feature, ecr, rom, sys, wizard, sheet, pages, setup, active, edit, ac,
                      extras, fw, zeroed, had>>
      BY <1>2 DEF S!vars, S!world
    <2>2. SetupCounts' /\ InFront' /\ SheetSettings'
      BY <2>1 DEF SheetIInv, SetupCounts, SetupTypes, PagesFit, CountsFit, InFront, SheetSettings
    <2>3. Counters' /\ Update' /\ Extras'
      BY <2>1 DEF SheetIInv, Counters, CountTypes, Update, Extras, S!Written
    <2>. QED BY <1>2, <2>2, <2>3 DEF SheetIInv
  <1>. QED BY <1>1, <1>2

\* However the user goes through the pages, and the device is unplugged and plugged in:
\* prop.cpp writes only settings that the driver can decode, PageCallbackProc frees the
\* setup data once, DoFirmwareUpdate never leaves half a firmware marked as valid, a
\* button resets no counter but its own, and OK in the dialog Extras changes nothing that
\* the user has not touched.
THEOREM SheetKept == ASSUME NoMishap PROVE S!Spec => []SheetKeeps
  <1>1. S!Init => SheetIInv
    BY SheetInit
  <1>2. SheetIInv /\ [S!Next]_(S!vars) => SheetIInv'
    BY SheetNext
  <1>3. SheetIInv => SheetKeeps
    <2>1. SUFFICES ASSUME SheetIInv PROVE SheetKeeps
      OBVIOUS
    <2>2. S!SettingsSound
      BY <2>1 DEF SheetIInv, SheetSettings, Sound, S!SettingsSound
    <2>3. S!FirmwareNeverHalf
      BY <2>1 DEF SheetIInv, Update, S!FirmwareNeverHalf
    <2>4. S!SetupFreedOnce
      <3>1. setup.bad = FALSE
        BY <2>1 DEF SheetIInv, SetupCounts, SetupTypes
      <3>2. ASSUME sheet = "closed", sys = "addref" \/ setup.used PROVE ~setup.live
        <4>1. \A p \in S!Pages : pages[p] = "gone"
          BY <2>1, <3>2 DEF SheetIInv, SetupCounts, PagesFit
        <4>2. Number(pages, Loaded) = 0 /\ Number(pages, {"shown"}) = 0
          BY <4>1, Numbers DEF Loaded
        <4>. QED BY <2>1, <3>2, <4>2 DEF SheetIInv, SetupCounts, CountsFit
      <3>. QED BY <3>1, <3>2 DEF S!SetupFreedOnce
    <2>5. S!ExtrasHarmless
      BY <2>1 DEF SheetIInv, Extras, S!ExtrasHarmless, S!NoDialog
    <2>6. S!CountsHappened
      <3>1. \A g \in S!Groups : drv.cnt[g] <= had[g] /\ drv.cnt[g] \in Nat /\ had[g] \in Nat
        BY <2>1 DEF SheetIInv, Counters, CountTypes
      <3>. QED BY <3>1 DEF S!CountsHappened
    <2>. QED BY <2>2, <2>3, <2>4, <2>5, <2>6 DEF SheetKeeps, S!SheetKeeps
  <1>. QED BY <1>1, <1>2, <1>3, PTL DEF S!Spec

\* However counters are reset, shown and counted on: what StatDlgProc shows never runs
\* backwards, but where a button or a new device has begun anew.
THEOREM ShownRunsOn == ASSUME NoMishap PROVE S!Spec => ShownNeverRunsBack
  <1>1. S!Init => SheetIInv
    BY SheetInit
  <1>2. SheetIInv /\ [S!Next]_(S!vars) => SheetIInv'
    BY SheetNext
  <1>3. SheetIInv /\ [S!Next]_(S!vars) => [S!NeverBack]_(S!vars)
    BY SheetNext
  <1>. QED BY <1>1, <1>2, <1>3, PTL DEF S!Spec, ShownNeverRunsBack, S!ShownNeverRunsBack
-----------------------------------------------------------------------------
(* The parts together *)

\* A step of one part leaves the others as they are.
LEMMA PartSteps ==
  [MCNext]_<<part, kernel, table, usb, names, props>> =>
    [Next]_reqVars /\ [C!Next]_(C!confVars) /\ [N!Next]_(N!nameVars) /\ [S!Next]_(S!vars)
  <1>1. kernel' = kernel => UNCHANGED reqVars
    BY DEF kernel, reqVars
  <1>2. usb' = usb => UNCHANGED C!confVars
    BY DEF usb, C!confVars, C!link
  <1>3. names' = names => UNCHANGED N!nameVars
    BY DEF names, N!nameVars
  <1>4. props' = props => UNCHANGED S!vars
    BY DEF props, S!vars, S!world
  <1>. QED BY <1>1, <1>2, <1>3, <1>4 DEF MCNext

\* Whatever the driver does for an adapter, in the composition that is model-checked: the
\* requests, the starts, the names and the sheet are kept in order as said above.
THEOREM AdapterKept ==
  ASSUME AsTested, StartsAsMeant, AsInstalled, NoMishap
  PROVE  MCSpec => [](RequestsKept /\ StartHolds /\ NamesKept /\ SheetKeeps)
  <1>1. MCInit => Init /\ C!Init /\ N!Init /\ S!Init
    BY DEF MCInit
  <1>2. MCSpec => Spec
    BY <1>1, PartSteps, PTL DEF MCSpec, Spec
  <1>3. MCSpec => C!Spec
    BY <1>1, PartSteps, PTL DEF MCSpec, C!Spec
  <1>4. MCSpec => N!Spec
    BY <1>1, PartSteps, PTL DEF MCSpec, N!Spec
  <1>5. MCSpec => S!Spec
    BY <1>1, PartSteps, PTL DEF MCSpec, S!Spec
  <1>. QED BY <1>2, <1>3, <1>4, <1>5, KernelServed, StartsHold, NamesStay, SheetKept, PTL
=============================================================================
