-------------------------- MODULE DevicePnp_proofs --------------------------
(***************************************************************************)
(* Proofs about DevicePnp, for any number of adapters, threads and         *)
(* addresses.  A device object that is deleted must have nothing left that *)
(* would use it; the driver has no place where it could check that: it     *)
(* follows from what each handler of the PnP manager's requests leaves to  *)
(* the next one.                                                           *)
(***************************************************************************)
EXTENDS DevicePnp, WellFoundedInduction, TLAPS

\* The driver of NT systems; no program sets the configuration while the adapter
\* is unplugged; a stopped device is not started again.
Orderly == Nt /\ ~LateSettings /\ ~Restarts

\* What a thread is doing.
Requests == {"usercfg", "outin", "vendor"}
Accesses == [kind : {"access"}, dev : Devices, pc : {"found", "inside", "sent"}]
Files ==
  [kind : {"file"}, dev : Devices, pc : {"open"}]
    \cup [kind : {"file"}, dev : Devices, pc : {"open", "checked", "locked", "pending", "lost"},
          req : Requests]
Calls == {Idle} \cup Accesses \cup Files

Types ==
  /\ TypeOK /\ cache \in BOOLEAN
  /\ bios \in [lpt : [Bios -> Nat], sys : Nat]
  /\ old \in [Devices -> [lpt : Nat, sys : Nat]]
  /\ call \in [Threads -> Calls]

\* Every device object has a number of its own.
Named ==
  /\ \A d \in Devices : exists[d] => name[d] \in Numbers
  /\ \A d \in Devices : ~exists[d] => name[d] = None
  /\ \A d, e \in Devices : exists[d] /\ name[d] = name[e] => d = e

\* The PnP manager's view, the object and the flags agree.
Staged(d) ==
  /\ (stage[d] = "out") <=> ~exists[d]
  /\ at[d] \in {"describe", "configure"} => stage[d] = "added"
  /\ at[d] \in {"abort", "wait"} => exists[d]
  /\ at[d] = "wait" => gone[d]
  /\ exists[d] => (("removing" \in f[d]) <=> (at[d] \in {"abort", "wait"}))
  /\ exists[d] /\ "surprise" \in f[d] => stage[d] = "surprised"
  /\ stage[d] = "surprised" => "surprise" \in f[d]

\* Traps are set, and files open, while the device works.
Working(d) ==
  /\ trapped[d] => stage[d] \in {"running", "stopped"} /\ at[d] = "idle"
  /\ Opened(d) => stage[d] \in {"running", "stopped", "surprised"} /\ at[d] = "idle"
  /\ Settings(d) => stage[d] \in {"running", "stopped"}

\* The remove lock is held by the threads that are inside.
Inside(c) == \/ c.kind = "access" /\ c.pc \in {"inside", "sent"}
             \/ c.kind = "file" /\ c.pc \in {"locked", "lost"}
Locks(d) ==
  /\ \A t \in Threads : (t \in locked[d]) <=> (Inside(call[t]) /\ call[t].dev = d)
  /\ locked[d] # {} => exists[d]

\* What StartDevice allocated and what it keeps are the same.
Balanced(d) ==
  /\ exists[d] => blocks[d].dev = (IF "dev" \in kept[d] THEN 1 ELSE 0)
  /\ exists[d] => blocks[d].iface = (IF "iface" \in kept[d] THEN 1 ELSE 0)
  /\ ~exists[d] => blocks[d].dev = 0 /\ blocks[d].iface = 0
  /\ stage[d] = "added" /\ at[d] \in {"idle", "describe"} => kept[d] = {}
  /\ at[d] = "configure" => kept[d] = {"dev"}

\* Without the write cache each pending transfer has a thread that waits for it;
\* a start that comes in between forgets that (the event is initialised), and
\* the removal aborts what it forgot.
Sender(d) == \E t \in Threads : At(t, "access", "sent") /\ call[t].dev = d
Awaited(d) ==
  ~cache =>
    /\ ~armed[d]
    /\ red[d] => Sender(d)
    /\ \/ jobs[d] = IF red[d] THEN 1 ELSE 0
       \/ exists[d] /\ at[d] # "wait" /\ "iface" \in kept[d]

Device(d) == Staged(d) /\ Working(d) /\ Locks(d) /\ Balanced(d) /\ Awaited(d)

IInv == Types /\ Named /\ BiosTells /\ \A d \in Devices : Device(d)
-----------------------------------------------------------------------------
(* Numbers and the BIOS data area. *)

LEMMA LeastOf ==
  ASSUME NEW S \in SUBSET Nat, S # {}
  PROVE  \E n \in S : \A m \in S : n <= m
  <1>. DEFINE Less == {p \in Nat \X Nat : p[1] < p[2]}
  <1>1. IsWellFoundedOn(Less, Nat)
    BY NatLessThanWellFounded DEF OpToRel
  <1>. HIDE DEF Less
  <1>2. PICK n \in S : \A m \in S : ~(<<m, n>> \in Less)
    BY <1>1, WFMin
  <1>3. \A m \in S : ~(m < n)
    BY <1>2 DEF Less
  <1>. QED BY <1>3

\* AddDevice finds a free number.
LEMMA PickFree ==
  ASSUME NEW d \in Devices, Free # {}
  PROVE  Pick(d) \in Free /\ Pick(d) \in Numbers /\ Pick(d) \in Nat
  <1>1. Free \subseteq Numbers /\ Numbers \subseteq Nat
    BY PnpAssumption DEF PnpAssumption, Free
  <1>2. \E n \in Free : \A m \in Free : n <= m
    BY <1>1, LeastOf
  <1>3. (CHOOSE n \in Free : \A m \in Free : n <= m) \in Free
    BY <1>2
  <1>. QED BY <1>1, <1>3 DEF Pick

LEMMA FreedBios ==
  ASSUME Types, NEW d \in Devices
  PROVE  /\ Freed(d) \in [lpt : [Bios -> Nat], sys : Nat]
         /\ \A n \in Bios : n # name[d] => Freed(d).lpt[n] = bios.lpt[n]
  BY DEF Types, Freed

LEMMA PatchedBios ==
  ASSUME Types, NEW d \in Devices, NEW b \in [lpt : [Bios -> Nat], sys : Nat], NEW base \in Nat
  PROVE  /\ Patched(d, b, base) \in [lpt : [Bios -> Nat], sys : Nat]
         /\ \A n \in Bios : Patched(d, b, base).lpt[n] = IF n = name[d] THEN base ELSE b.lpt[n]
         /\ Saved(d, b) \in [Devices -> [lpt : Nat, sys : Nat]]
  BY DEF Types, Patched, Saved, Bios

\* A change of d's entry of the BIOS area concerns no other device.
LEMMA BiosStep ==
  ASSUME Types, Named, BiosTells, NEW d \in Devices, name' = name,
         \A e \in Devices \ {d} : trapped'[e] = trapped[e] /\ uc'[e] = uc[e],
         \A e \in Devices : trapped[e] => exists[e],
         \A n \in Bios : n # name[d] => bios'.lpt[n] = bios.lpt[n],
         trapped'[d] /\ name[d] \in Bios => bios'.lpt[name[d]] = uc'[d]
  PROVE  BiosTells'
  BY DEF BiosTells, Named
-----------------------------------------------------------------------------
(* Threads *)

LEMMA CallType ==
  ASSUME Types, NEW t \in Threads
  PROVE  /\ call[t] = Idle \/ (call[t].kind \in {"access", "file"} /\ call[t].dev \in Devices)
         /\ call[t].kind = "access" => call[t] \in Accesses
         /\ call[t].kind = "file" => call[t] \in Files
         /\ Idle.kind = "none"
  BY DEF Types, Calls, Accesses, Files, Idle

LEMMA QuietThreads ==
  ASSUME UNCHANGED call, NEW d
  PROVE  /\ Opened(d)' <=> Opened(d)
         /\ Settings(d)' <=> Settings(d)
         /\ Sender(d)' <=> Sender(d)
  BY DEF Opened, Settings, Sender, At

LEMMA GotoType ==
  ASSUME Types, NEW t \in Threads, NEW pc, Goto(t, pc), call[t] # Idle
  PROVE  /\ call'[t].kind = call[t].kind /\ call'[t].dev = call[t].dev /\ call'[t].pc = pc
         /\ \A u \in Threads \ {t} : call'[u] = call[u]
         /\ call[t] \in Accesses /\ pc \in {"found", "inside", "sent"} => call' \in [Threads -> Calls]
         /\ call[t].pc # "open" /\ call[t] \in Files =>
              /\ call'[t].req = call[t].req
              /\ pc \in {"open", "checked", "locked", "pending", "lost"} => call' \in [Threads -> Calls]
  <1>1. call' = [call EXCEPT ![t] = [call[t] EXCEPT !.pc = pc]] /\ call \in [Threads -> Calls]
    BY DEF Goto, Types
  <1>2. call'[t] = [call[t] EXCEPT !.pc = pc] /\ \A u \in Threads \ {t} : call'[u] = call[u]
    BY <1>1
  <1>3. CASE call[t] \in Accesses
    BY <1>1, <1>2, <1>3 DEF Accesses, Files, Calls
  <1>4. CASE call[t] \in [kind : {"file"}, dev : Devices, pc : {"open"}]
    BY <1>1, <1>2, <1>4 DEF Accesses, Files, Calls
  <1>5. CASE call[t] \in [kind : {"file"}, dev : Devices,
                          pc : {"open", "checked", "locked", "pending", "lost"}, req : Requests]
    BY <1>1, <1>2, <1>5 DEF Accesses, Files, Calls
  <1>. QED BY <1>1, <1>3, <1>4, <1>5 DEF Calls, Files
-----------------------------------------------------------------------------
(* What a step leaves alone. *)

Same(e) ==
  /\ stage'[e] = stage[e] /\ at'[e] = at[e] /\ exists'[e] = exists[e] /\ f'[e] = f[e]
  /\ gone'[e] = gone[e] /\ trapped'[e] = trapped[e] /\ blocks'[e] = blocks[e]
  /\ kept'[e] = kept[e] /\ armed'[e] = armed[e] /\ red'[e] = red[e] /\ jobs'[e] = jobs[e]
  /\ cache' = cache

LEMMA SameDevice ==
  ASSUME NEW e, Device(e), Same(e), Opened(e)' => Opened(e), Settings(e)' => Settings(e),
         Sender(e) => Sender(e)', Locks(e)'
  PROVE  Device(e)'
  BY DEF Same, Device, Staged, Working, Balanced, Awaited

\* A step of the PnP manager, or of a transfer: threads go on where they were.
LEMMA OtherDevices ==
  ASSUME IInv, NEW d \in Devices, UNCHANGED <<call, locked>>, \A e \in Devices \ {d} : Same(e),
         Device(d)'
  PROVE  \A e \in Devices : Device(e)'
  <1>1. ASSUME NEW e \in Devices \ {d} PROVE Device(e)'
    <2>1. Device(e) /\ Same(e)
      BY DEF IInv
    <2>2. Locks(e)'
      BY <2>1 DEF Device, Locks, Same
    <2>. QED BY <2>1, <2>2, QuietThreads, SameDevice
  <1>. QED BY <1>1

\* Who may be in the driver, as far as a step of the device is concerned.
LEMMA LocksKept ==
  ASSUME NEW d, Locks(d), UNCHANGED <<call, locked>>, exists[d] => exists'[d]
  PROVE  Locks(d)'
  BY DEF Locks
-----------------------------------------------------------------------------
(* AddDevice, START and STOP *)

LEMMA AddDeviceStep ==
  ASSUME IInv, NEW d \in Devices, AddDevice(d)
  PROVE  IInv'
  <1>1. /\ stage[d] = "out" /\ Pick(d) \in Free /\ Pick(d) \in Numbers
        /\ UNCHANGED <<at, others, cache, reg, trapped, bios, blocks, locked, mutex, jobs, red, armed, call>>
    BY PickFree DEF AddDevice, io
  <1>2. ~exists[d] /\ Device(d) /\ at[d] = "idle" /\ ~trapped[d] /\ ~Opened(d) /\ ~Settings(d)
    BY <1>1 DEF IInv, Device, Staged, Working, Types, TypeOK
  <1>3. Types'
    <2>1. Defaults[Pick(d)] \in Bases
      BY <1>1, PnpAssumption DEF PnpAssumption
    <2>. QED BY <1>1, <2>1 DEF IInv, Types, TypeOK, AddDevice
  <1>4. Named'
    <2>1. \A e \in Devices : name[e] # Pick(d)
      BY <1>1 DEF Free
    <2>2. name' = [name EXCEPT ![d] = Pick(d)] /\ exists' = [exists EXCEPT ![d] = TRUE]
      BY DEF AddDevice
    <2>. QED BY <1>1, <2>1, <2>2 DEF IInv, Named, Types, TypeOK
  <1>5. BiosTells'
    BY <1>1, <1>2 DEF IInv, BiosTells, AddDevice, Types, TypeOK
  <1>6. Staged(d)'
    BY <1>1, <1>2 DEF Device, Staged, AddDevice, IInv, Types, TypeOK
  <1>7. Working(d)'
    BY <1>1, <1>2, QuietThreads DEF Working
  <1>8. Locks(d)'
    BY <1>1, <1>2, LocksKept DEF Device, AddDevice
  <1>9. Balanced(d)'
    BY <1>1, <1>2 DEF Device, Balanced, AddDevice, IInv, Types, TypeOK
  <1>10. Awaited(d)'
    BY <1>1, <1>2, QuietThreads DEF Device, Awaited, AddDevice, IInv, Types, TypeOK
  <1>11. \A e \in Devices \ {d} : Same(e)
    BY <1>1 DEF Same, AddDevice, IInv, Types, TypeOK
  <1>. QED BY <1>1, <1>3, <1>4, <1>5, <1>6, <1>7, <1>8, <1>9, <1>10, <1>11, OtherDevices DEF IInv, Device

LEMMA StartStep ==
  ASSUME Orderly, IInv, NEW d \in Devices, Start(d)
  PROVE  IInv'
  <1>1. /\ stage[d] = "added" /\ at[d] = "idle"
        /\ UNCHANGED <<others, exists, name, f, gone, cache, reg, port, trapped, old, bios, mem, io>>
        /\ UNCHANGED <<blocks, kept, locked, mutex, jobs, red, armed, call>>
        /\ \/ at' = [at EXCEPT ![d] = "describe"] /\ UNCHANGED stage
           \/ stage' = [stage EXCEPT ![d] = "failed"] /\ UNCHANGED at
        /\ uc' = [uc EXCEPT ![d] = IF reg[d] = None THEN @ ELSE reg[d]]
    BY DEF Start, Orderly, mem, io
  <1>2. Device(d) /\ exists[d] /\ ~trapped[d] /\ ~Opened(d) /\ ~Settings(d)
    BY <1>1 DEF IInv, Device, Staged, Working
  <1>3. Types'
    BY <1>1 DEF IInv, Types, TypeOK
  <1>4. Named'
    BY <1>1 DEF IInv, Named
  <1>5. BiosTells'
    BY <1>1, <1>2 DEF IInv, BiosTells, Types, TypeOK
  <1>6. Staged(d)'
    BY <1>1, <1>2 DEF Device, Staged, IInv, Types, TypeOK
  <1>7. Working(d)'
    BY <1>1, <1>2, QuietThreads DEF Working
  <1>8. Locks(d)'
    BY <1>1, <1>2, LocksKept DEF Device
  <1>9. Balanced(d)'
    BY <1>1, <1>2 DEF Device, Balanced, IInv, Types, TypeOK
  <1>10. Awaited(d)'
    BY <1>1, <1>2, QuietThreads DEF Device, Awaited, IInv, Types, TypeOK
  <1>11. \A e \in Devices \ {d} : Same(e)
    BY <1>1 DEF Same, IInv, Types, TypeOK
  <1>. QED BY <1>1, <1>3, <1>4, <1>5, <1>6, <1>7, <1>8, <1>9, <1>10, <1>11, OtherDevices DEF IInv, Device

\* The only descriptor there is.
LEMMA DescribeStep ==
  ASSUME IInv, NEW d \in Devices, Describe(d)
  PROVE  IInv'
  <1>1. /\ at[d] = "describe"
        /\ UNCHANGED <<others, exists, name, gone, uc, cache, reg, port, trapped, old, bios>>
        /\ UNCHANGED <<locked, mutex, jobs, red, armed, call>>
    BY DEF Describe, conf, io
  <1>2. /\ Device(d) /\ exists[d] /\ stage[d] = "added" /\ kept[d] = {}
        /\ ~trapped[d] /\ ~Opened(d) /\ ~Settings(d)
    BY <1>1 DEF IInv, Device, Staged, Working, Balanced
  <1>3. \/ /\ blocks' = [blocks EXCEPT ![d].dev = @ + 1] /\ kept'[d] = {"dev"}
           /\ f' = [f EXCEPT ![d] = @ \ {"Stopped"}] /\ at' = [at EXCEPT ![d] = "configure"]
           /\ UNCHANGED stage
        \/ /\ stage' = [stage EXCEPT ![d] = "failed"] /\ kept'[d] = {}
           /\ at' = [at EXCEPT ![d] = "idle"] /\ UNCHANGED <<blocks, f>>
    BY <1>2 DEF Describe, IInv, Types, TypeOK
  <1>4. Types'
    <2>1. kept' \in [Devices -> SUBSET {"dev", "iface", "pipes"}]
      <3>1. PICK k \in {{"dev"}, {}} : kept' = [kept EXCEPT ![d] = k]
        BY <1>2 DEF Describe
      <3>. QED BY <3>1 DEF IInv, Types, TypeOK
    <2>2. blocks' \in [Devices -> [dev : Nat, iface : Nat]]
      <3>1. blocks[d] \in [dev : Nat, iface : Nat]
        BY DEF IInv, Types, TypeOK
      <3>2. PICK b \in [dev : Nat, iface : Nat] : blocks' = [blocks EXCEPT ![d] = b]
        <4>1. [blocks[d] EXCEPT !.dev = @ + 1] \in [dev : Nat, iface : Nat]
          BY <3>1
        <4>2. blocks = [blocks EXCEPT ![d] = blocks[d]]
          BY DEF IInv, Types, TypeOK
        <4>. QED BY <1>3, <3>1, <4>1, <4>2
      <3>. QED BY <3>2 DEF IInv, Types, TypeOK
    <2>3. f' \in [Devices -> SUBSET {"Started", "Stopped", "surprise", "removing"}]
      <3>1. f[d] \ {"Stopped"} \in SUBSET {"Started", "Stopped", "surprise", "removing"}
        BY DEF IInv, Types, TypeOK
      <3>. QED BY <1>3, <3>1 DEF IInv, Types, TypeOK
    <2>. QED BY <1>1, <1>3, <2>1, <2>2, <2>3 DEF IInv, Types, TypeOK
  <1>5. Named'
    BY <1>1 DEF IInv, Named
  <1>6. BiosTells'
    BY <1>1, <1>2 DEF IInv, BiosTells, Types, TypeOK
  <1>7. Staged(d)'
    BY <1>1, <1>2, <1>3 DEF Device, Staged, IInv, Types, TypeOK
  <1>8. Working(d)'
    BY <1>1, <1>2, QuietThreads DEF Working
  <1>9. Locks(d)'
    BY <1>1, <1>2, LocksKept DEF Device
  <1>10. Balanced(d)'
    BY <1>1, <1>2, <1>3 DEF Device, Balanced, IInv, Types, TypeOK
  <1>11. Awaited(d)'
    BY <1>1, <1>2, QuietThreads DEF Device, Awaited, IInv, Types, TypeOK
  <1>12. \A e \in Devices \ {d} : Same(e)
    BY <1>1, <1>3 DEF Same, Describe, IInv, Types, TypeOK
  <1>. QED BY <1>1, <1>4, <1>5, <1>6, <1>7, <1>8, <1>9, <1>10, <1>11, <1>12, OtherDevices DEF IInv, Device

\* ConfigureDevice: traps are set for a device that works now.
LEMMA ConfigureStep ==
  ASSUME IInv, NEW d \in Devices, Configure(d)
  PROVE  IInv'
  <1>1. /\ at[d] = "configure" /\ at' = [at EXCEPT ![d] = "idle"]
        /\ UNCHANGED <<others, exists, name, gone, uc, cache, reg, port, locked, jobs, call>>
    BY DEF Configure
  <1>2. /\ Device(d) /\ exists[d] /\ stage[d] = "added" /\ kept[d] = {"dev"}
        /\ ~trapped[d] /\ ~Opened(d) /\ ~Settings(d)
    BY <1>1 DEF IInv, Device, Staged, Working, Balanced
  <1>3. CASE stage' = [stage EXCEPT ![d] = "failed"]
             /\ UNCHANGED <<blocks, kept, f, mutex, armed, red, bios, old, trapped>>
    <2>1. Types'
      BY <1>1, <1>3 DEF IInv, Types, TypeOK
    <2>2. Named' /\ BiosTells'
      BY <1>1, <1>2, <1>3 DEF IInv, Named, BiosTells
    <2>3. Staged(d)'
      BY <1>1, <1>2, <1>3 DEF Device, Staged, IInv, Types, TypeOK
    <2>4. Working(d)'
      BY <1>1, <1>2, <1>3, QuietThreads DEF Working
    <2>5. Locks(d)'
      BY <1>1, <1>2, LocksKept DEF Device
    <2>6. Balanced(d)'
      BY <1>1, <1>2, <1>3 DEF Device, Balanced, IInv, Types, TypeOK
    <2>7. Awaited(d)'
      BY <1>1, <1>2, <1>3, QuietThreads DEF Device, Awaited, IInv, Types, TypeOK
    <2>8. \A e \in Devices \ {d} : Same(e)
      BY <1>1, <1>3 DEF Same, IInv, Types, TypeOK
    <2>. QED BY <1>1, <2>1, <2>2, <2>3, <2>4, <2>5, <2>6, <2>7, <2>8, OtherDevices DEF IInv, Device
  <1>4. CASE /\ blocks' = [blocks EXCEPT ![d].iface = @ + 1]
             /\ kept' \in {[kept EXCEPT ![d] = @ \cup {"iface"}], [kept EXCEPT ![d] = @ \cup {"iface", "pipes"}]}
             /\ stage' = [stage EXCEPT ![d] = "running"]
             /\ f' = [f EXCEPT ![d] = @ \cup {"Started"}]
             /\ mutex' \in {[mutex EXCEPT ![d] = {}], [mutex EXCEPT ![d] = Threads]}
             /\ armed' \in {armed, [armed EXCEPT ![d] = FALSE]}
             /\ red' \in {red, [red EXCEPT ![d] = FALSE]}
             /\ SetTraps(d, bios, uc[d]) \/ UNCHANGED <<bios, old, trapped>>
    <2>1. /\ bios' \in [lpt : [Bios -> Nat], sys : Nat]
          /\ old' \in [Devices -> [lpt : Nat, sys : Nat]]
          /\ trapped' \in {trapped, [trapped EXCEPT ![d] = TRUE]}
          /\ \A n \in Bios : n # name[d] => bios'.lpt[n] = bios.lpt[n]
          /\ trapped'[d] /\ name[d] \in Bios => bios'.lpt[name[d]] = uc[d]
      <3>1. Types /\ uc[d] \in Nat /\ bios \in [lpt : [Bios -> Nat], sys : Nat]
        BY PnpAssumption DEF IInv, Types, TypeOK, PnpAssumption
      <3>2. CASE SetTraps(d, bios, uc[d])
        <4>1. /\ bios' = Patched(d, bios, uc[d]) /\ old' = Saved(d, bios)
              /\ trapped' = [trapped EXCEPT ![d] = TRUE]
          BY <3>2 DEF SetTraps
        <4>. QED BY <3>1, <4>1, PatchedBios
      <3>3. CASE UNCHANGED <<bios, old, trapped>>
        BY <1>2, <3>1, <3>3 DEF Types
      <3>. QED BY <1>4, <3>2, <3>3
    <2>2. Types'
      <3>1. blocks' \in [Devices -> [dev : Nat, iface : Nat]]
        <4>1. blocks[d] \in [dev : Nat, iface : Nat]
          BY DEF IInv, Types, TypeOK
        <4>2. [blocks[d] EXCEPT !.iface = @ + 1] \in [dev : Nat, iface : Nat]
          BY <4>1
        <4>3. PICK b \in [dev : Nat, iface : Nat] : blocks' = [blocks EXCEPT ![d] = b]
          BY <1>4, <4>1, <4>2
        <4>. QED BY <4>3 DEF IInv, Types, TypeOK
      <3>2. kept' \in [Devices -> SUBSET {"dev", "iface", "pipes"}]
        <4>1. PICK k \in {{"dev", "iface"}, {"dev", "iface", "pipes"}} : kept' = [kept EXCEPT ![d] = k]
          BY <1>2, <1>4
        <4>. QED BY <4>1 DEF IInv, Types, TypeOK
      <3>3. f' \in [Devices -> SUBSET {"Started", "Stopped", "surprise", "removing"}]
        <4>1. f[d] \cup {"Started"} \in SUBSET {"Started", "Stopped", "surprise", "removing"}
          BY DEF IInv, Types, TypeOK
        <4>. QED BY <1>4, <4>1 DEF IInv, Types, TypeOK
      <3>4. mutex' \in [Devices -> SUBSET Threads]
        <4>1. {} \in SUBSET Threads /\ Threads \in SUBSET Threads
          OBVIOUS
        <4>2. PICK m \in SUBSET Threads : mutex' = [mutex EXCEPT ![d] = m]
          BY <1>4, <4>1
        <4>. QED BY <4>2 DEF IInv, Types, TypeOK
      <3>5. trapped' \in [Devices -> BOOLEAN]
        BY <2>1 DEF IInv, Types, TypeOK
      <3>6. /\ stage' \in [Devices -> {"out", "added", "running", "stopped", "failed", "surprised"}]
            /\ at' \in [Devices -> {"idle", "describe", "configure", "abort", "wait"}]
            /\ armed' \in [Devices -> BOOLEAN] /\ red' \in [Devices -> BOOLEAN]
        BY <1>1, <1>4 DEF IInv, Types, TypeOK
      <3>. QED BY <1>1, <2>1, <3>1, <3>2, <3>3, <3>4, <3>5, <3>6 DEF IInv, Types, TypeOK
    <2>3. Named'
      BY <1>1 DEF IInv, Named
    <2>4. BiosTells'
      <3>1. \A e \in Devices \ {d} : trapped'[e] = trapped[e]
        BY <2>1 DEF IInv, Types, TypeOK
      <3>2. \A e \in Devices : trapped[e] => exists[e]
        BY DEF IInv, Device, Working, Staged
      <3>. QED BY <1>1, <2>1, <3>1, <3>2, BiosStep DEF IInv
    <2>5. Staged(d)'
      BY <1>1, <1>2, <1>4 DEF Device, Staged, IInv, Types, TypeOK
    <2>6. Working(d)'
      BY <1>1, <1>2, <1>4, QuietThreads DEF Working, IInv, Types, TypeOK
    <2>7. Locks(d)'
      BY <1>1, <1>2, LocksKept DEF Device
    <2>8. Balanced(d)'
      BY <1>1, <1>2, <1>4 DEF Device, Balanced, IInv, Types, TypeOK
    <2>9. Awaited(d)'
      BY <1>1, <1>2, <1>4, QuietThreads DEF Device, Awaited, IInv, Types, TypeOK
    <2>10. \A e \in Devices \ {d} : Same(e)
      BY <1>1, <1>4, <2>1 DEF Same, IInv, Types, TypeOK
    <2>. QED BY <1>1, <2>2, <2>3, <2>4, <2>5, <2>6, <2>7, <2>8, <2>9, <2>10, OtherDevices DEF IInv, Device
  <1>. QED BY <1>3, <1>4 DEF Configure

\* What STOP, the surprise removal and REMOVE do: no traps any more.
LEMMA FreeTrapsType ==
  ASSUME IInv, NEW d \in Devices, exists[d], UNCHANGED <<name, uc>>,
         FreeTraps(d) \/ (UNCHANGED <<bios, trapped>> /\ ~trapped[d])
  PROVE  /\ bios' \in [lpt : [Bios -> Nat], sys : Nat] /\ trapped' \in [Devices -> BOOLEAN]
         /\ ~trapped'[d] /\ \A e \in Devices \ {d} : trapped'[e] = trapped[e]
         /\ BiosTells'
  <1>1. /\ bios' \in [lpt : [Bios -> Nat], sys : Nat]
        /\ \A n \in Bios : n # name[d] => bios'.lpt[n] = bios.lpt[n]
    BY FreedBios DEF FreeTraps, IInv, Types
  <1>2. /\ trapped' \in [Devices -> BOOLEAN] /\ ~trapped'[d]
        /\ \A e \in Devices \ {d} : trapped'[e] = trapped[e]
    BY DEF FreeTraps, IInv, Types, TypeOK
  <1>3. \A e \in Devices : trapped[e] => exists[e]
    BY DEF IInv, Device, Working, Staged
  <1>4. BiosTells'
    BY <1>1, <1>2, <1>3, BiosStep DEF IInv
  <1>. QED BY <1>1, <1>2, <1>4

LEMMA StopStep ==
  ASSUME IInv, NEW d \in Devices, Stop(d)
  PROVE  IInv'
  <1>1. /\ at[d] = "idle" /\ stage[d] = "running" /\ FreeTraps(d)
        /\ armed' = [armed EXCEPT ![d] = FALSE] /\ f' = [f EXCEPT ![d] = @ \cup {"Stopped"}]
        /\ stage' = [stage EXCEPT ![d] = "stopped"]
        /\ UNCHANGED <<at, others, exists, name, gone, uc, cache, reg, port, old>>
        /\ UNCHANGED <<blocks, kept, locked, mutex, jobs, red, call>>
    BY DEF Stop, mem
  <1>2. Device(d) /\ exists[d]
    BY <1>1 DEF IInv, Device, Staged
  <1>3. /\ bios' \in [lpt : [Bios -> Nat], sys : Nat] /\ trapped' \in [Devices -> BOOLEAN]
        /\ ~trapped'[d] /\ \A e \in Devices \ {d} : trapped'[e] = trapped[e]
        /\ BiosTells'
    BY <1>1, <1>2, FreeTrapsType
  <1>4. f' \in [Devices -> SUBSET {"Started", "Stopped", "surprise", "removing"}]
    <2>1. f[d] \cup {"Stopped"} \in SUBSET {"Started", "Stopped", "surprise", "removing"}
      BY DEF IInv, Types, TypeOK
    <2>. QED BY <1>1, <2>1 DEF IInv, Types, TypeOK
  <1>5. Types'
    BY <1>1, <1>3, <1>4 DEF IInv, Types, TypeOK
  <1>6. Named'
    BY <1>1 DEF IInv, Named
  <1>7. Staged(d)'
    BY <1>1, <1>2 DEF Device, Staged, IInv, Types, TypeOK
  <1>8. Working(d)'
    BY <1>1, <1>2, <1>3, QuietThreads DEF Device, Working, IInv, Types, TypeOK
  <1>9. Locks(d)'
    BY <1>1, <1>2, LocksKept DEF Device
  <1>10. Balanced(d)'
    BY <1>1, <1>2 DEF Device, Balanced, IInv, Types, TypeOK
  <1>11. Awaited(d)'
    BY <1>1, <1>2, QuietThreads DEF Device, Awaited, IInv, Types, TypeOK
  <1>12. \A e \in Devices \ {d} : Same(e)
    BY <1>1, <1>3 DEF Same, IInv, Types, TypeOK
  <1>. QED BY <1>1, <1>3, <1>5, <1>6, <1>7, <1>8, <1>9, <1>10, <1>11, <1>12, OtherDevices DEF IInv, Device
-----------------------------------------------------------------------------
(* Removal *)

LEMMA CancelTimerType ==
  ASSUME IInv, NEW d \in Devices, CancelTimer(d) \/ UNCHANGED armed
  PROVE  /\ armed' \in [Devices -> BOOLEAN]
         /\ armed'[d] => armed[d]
         /\ \A e \in Devices \ {d} : armed'[e] = armed[e]
  BY DEF CancelTimer, IInv, Types, TypeOK

LEMMA SurpriseRemovalStep ==
  ASSUME Orderly, IInv, NEW d \in Devices, SurpriseRemoval(d)
  PROVE  IInv'
  <1>1. /\ at[d] = "idle" /\ stage[d] \in {"running", "stopped"} /\ ~Settings(d) /\ FreeTraps(d)
        /\ CancelTimer(d) /\ f' = [f EXCEPT ![d] = @ \cup {"surprise"}]
        /\ stage' = [stage EXCEPT ![d] = "surprised"]
        /\ UNCHANGED <<at, others, exists, name, gone, uc, cache, reg, port, old>>
        /\ UNCHANGED <<blocks, kept, locked, mutex, jobs, red, call>>
    BY DEF SurpriseRemoval, Orderly, mem
  <1>2. Device(d) /\ exists[d]
    BY <1>1 DEF IInv, Device, Staged
  <1>3. /\ bios' \in [lpt : [Bios -> Nat], sys : Nat] /\ trapped' \in [Devices -> BOOLEAN]
        /\ ~trapped'[d] /\ \A e \in Devices \ {d} : trapped'[e] = trapped[e]
        /\ BiosTells'
    BY <1>1, <1>2, FreeTrapsType
  <1>4. /\ armed' \in [Devices -> BOOLEAN] /\ (armed'[d] => armed[d])
        /\ \A e \in Devices \ {d} : armed'[e] = armed[e]
    BY <1>1, CancelTimerType
  <1>5. Types'
    <2>1. f[d] \cup {"surprise"} \in SUBSET {"Started", "Stopped", "surprise", "removing"}
      BY DEF IInv, Types, TypeOK
    <2>2. f' \in [Devices -> SUBSET {"Started", "Stopped", "surprise", "removing"}]
      BY <1>1, <2>1 DEF IInv, Types, TypeOK
    <2>. QED BY <1>1, <1>3, <1>4, <2>2 DEF IInv, Types, TypeOK
  <1>6. Named'
    BY <1>1 DEF IInv, Named
  <1>7. Staged(d)'
    BY <1>1, <1>2 DEF Device, Staged, IInv, Types, TypeOK
  <1>8. Working(d)'
    BY <1>1, <1>2, <1>3, QuietThreads DEF Device, Working, IInv, Types, TypeOK
  <1>9. Locks(d)'
    BY <1>1, <1>2, LocksKept DEF Device
  <1>10. Balanced(d)'
    BY <1>1, <1>2 DEF Device, Balanced, IInv, Types, TypeOK
  <1>11. Awaited(d)'
    BY <1>1, <1>2, <1>4, QuietThreads DEF Device, Awaited, IInv, Types, TypeOK
  <1>12. \A e \in Devices \ {d} : Same(e)
    BY <1>1, <1>3, <1>4 DEF Same, IInv, Types, TypeOK
  <1>. QED BY <1>1, <1>3, <1>5, <1>6, <1>7, <1>8, <1>9, <1>10, <1>11, <1>12, OtherDevices DEF IInv, Device

\* No file is open; traps are freed here unless the surprise removal has done it.
LEMMA RemoveStep ==
  ASSUME Orderly, IInv, NEW d \in Devices, Remove(d)
  PROVE  IInv'
  <1>1. /\ at[d] = "idle" /\ stage[d] # "out" /\ ~Opened(d)
        /\ f' = [f EXCEPT ![d] = @ \cup {"removing"}]
        /\ at' = [at EXCEPT ![d] = "abort"] /\ reg' = [reg EXCEPT ![d] = uc[d]]
        /\ UNCHANGED <<stage, others, exists, name, gone, uc, cache, port, old>>
        /\ UNCHANGED <<blocks, kept, locked, mutex, jobs, red, call>>
    BY DEF Remove, Orderly, mem
  <1>2. Device(d) /\ exists[d]
    BY <1>1 DEF IInv, Device, Staged
  <1>3. /\ bios' \in [lpt : [Bios -> Nat], sys : Nat] /\ trapped' \in [Devices -> BOOLEAN]
        /\ ~trapped'[d] /\ \A e \in Devices \ {d} : trapped'[e] = trapped[e]
        /\ BiosTells'
    <2>1. FreeTraps(d) \/ (UNCHANGED <<bios, trapped>> /\ ~trapped[d])
      BY <1>2 DEF Remove, Device, Staged, Working
    <2>. QED BY <1>1, <1>2, <2>1, FreeTrapsType
  <1>4. /\ armed' \in [Devices -> BOOLEAN] /\ (armed'[d] => armed[d])
        /\ \A e \in Devices \ {d} : armed'[e] = armed[e]
    <2>1. CancelTimer(d) \/ UNCHANGED armed
      BY DEF Remove
    <2>. QED BY <2>1, CancelTimerType
  <1>5. Types'
    <2>1. f[d] \cup {"removing"} \in SUBSET {"Started", "Stopped", "surprise", "removing"}
      BY DEF IInv, Types, TypeOK
    <2>2. f' \in [Devices -> SUBSET {"Started", "Stopped", "surprise", "removing"}]
      BY <1>1, <2>1 DEF IInv, Types, TypeOK
    <2>. QED BY <1>1, <1>3, <1>4, <2>2 DEF IInv, Types, TypeOK
  <1>6. Named'
    BY <1>1 DEF IInv, Named
  <1>7. Staged(d)'
    BY <1>1, <1>2 DEF Device, Staged, IInv, Types, TypeOK
  <1>8. Working(d)'
    BY <1>1, <1>2, <1>3, QuietThreads DEF Device, Working, IInv, Types, TypeOK
  <1>9. Locks(d)'
    BY <1>1, <1>2, LocksKept DEF Device
  <1>10. Balanced(d)'
    BY <1>1, <1>2 DEF Device, Balanced, IInv, Types, TypeOK
  <1>11. Awaited(d)'
    BY <1>1, <1>2, <1>4, QuietThreads DEF Device, Awaited, IInv, Types, TypeOK
  <1>12. \A e \in Devices \ {d} : Same(e)
    BY <1>1, <1>3, <1>4 DEF Same, IInv, Types, TypeOK
  <1>. QED BY <1>1, <1>3, <1>5, <1>6, <1>7, <1>8, <1>9, <1>10, <1>11, <1>12, OtherDevices DEF IInv, Device

\* What is pending ends here; what is inside may still send once.
LEMMA AbortStep ==
  ASSUME IInv, NEW d \in Devices, Abort(d)
  PROVE  IInv'
  <1>1. /\ at[d] = "abort" /\ at' = [at EXCEPT ![d] = "wait"] /\ gone' = [gone EXCEPT ![d] = TRUE]
        /\ UNCHANGED <<stage, others, exists, name, f, cache, uc, reg, port, trapped, old, bios>>
        /\ UNCHANGED <<blocks, kept, locked, mutex, armed>>
    BY DEF Abort, conf, mem
  <1>2. Device(d) /\ exists[d] /\ ~Opened(d) /\ ~trapped[d]
    BY <1>1 DEF IInv, Device, Staged, Working
  <1>3. call' = call
    <2>1. \A t \in Threads : ~(IsFile(call[t]) /\ call[t].dev = d)
      BY <1>2 DEF Opened
    <2>2. call' = [t \in Threads |-> call[t]]
      BY <2>1 DEF Abort
    <2>. QED BY <2>2 DEF IInv, Types
  <1>4. /\ jobs' \in [Devices -> Nat] /\ red' \in [Devices -> BOOLEAN]
        /\ \A e \in Devices \ {d} : jobs'[e] = jobs[e] /\ red'[e] = red[e]
        /\ IF "iface" \in kept[d] THEN jobs'[d] = 0 /\ ~red'[d]
                                  ELSE jobs'[d] = jobs[d] /\ red'[d] = red[d]
    <2>1. jobs \in [Devices -> Nat] /\ red \in [Devices -> BOOLEAN]
      BY DEF IInv, Types, TypeOK
    <2>2. CASE "iface" \in kept[d]
      <3>1. jobs' = [jobs EXCEPT ![d] = 0] /\ red' = [red EXCEPT ![d] = FALSE]
        BY <2>2 DEF Abort
      <3>. QED BY <2>1, <2>2, <3>1
    <2>3. CASE "iface" \notin kept[d]
      BY <2>1, <2>3 DEF Abort
    <2>. QED BY <2>2, <2>3
  <1>5. Types'
    BY <1>1, <1>3, <1>4 DEF IInv, Types, TypeOK
  <1>6. Named' /\ BiosTells'
    BY <1>1 DEF IInv, Named, BiosTells
  <1>7. Staged(d)'
    BY <1>1, <1>2 DEF Device, Staged, IInv, Types, TypeOK
  <1>8. Working(d)'
    BY <1>1, <1>2, <1>3, QuietThreads DEF Device, Working, IInv, Types, TypeOK
  <1>9. Locks(d)'
    BY <1>1, <1>2, <1>3, LocksKept DEF Device
  <1>10. Balanced(d)'
    BY <1>1, <1>2 DEF Device, Balanced, IInv, Types, TypeOK
  <1>11. Awaited(d)'
    BY <1>1, <1>2, <1>3, <1>4, QuietThreads DEF Device, Awaited, IInv, Types, TypeOK
  <1>12. \A e \in Devices \ {d} : Same(e)
    BY <1>1, <1>4 DEF Same, IInv, Types, TypeOK
  <1>. QED BY <1>1, <1>3, <1>5, <1>6, <1>7, <1>8, <1>9, <1>10, <1>11, <1>12, OtherDevices DEF IInv, Device

\* The object goes when nobody is inside.
LEMMA DeleteStep ==
  ASSUME IInv, NEW d \in Devices, Delete(d)
  PROVE  IInv'
  <1>1. /\ at[d] = "wait" /\ locked[d] = {} /\ at' = [at EXCEPT ![d] = "idle"]
        /\ stage' = [stage EXCEPT ![d] = "out"] /\ exists' = [exists EXCEPT ![d] = FALSE]
        /\ name' = [name EXCEPT ![d] = None]
        /\ UNCHANGED <<others, f, gone, cache, uc, reg, port, trapped, old, bios>>
        /\ UNCHANGED <<kept, locked, mutex, jobs, red, armed, call>>
    BY DEF Delete, conf, io
  <1>2. Device(d) /\ exists[d] /\ ~Opened(d) /\ ~Settings(d) /\ ~trapped[d]
    <2>1. Device(d) /\ exists[d] /\ ~Opened(d) /\ ~trapped[d]
      BY <1>1 DEF IInv, Device, Staged, Working
    <2>. QED BY <2>1 DEF Opened, Settings
  <1>3. /\ blocks' \in [Devices -> [dev : Nat, iface : Nat]]
        /\ blocks'[d].dev = 0 /\ blocks'[d].iface = 0
        /\ \A e \in Devices \ {d} : blocks'[e] = blocks[e]
    <2>1. blocks' = [blocks EXCEPT ![d] = [dev |-> 0, iface |-> 0]]
      <3>1. /\ "dev" \in kept[d] => blocks[d].dev - 1 = 0
            /\ "dev" \notin kept[d] => blocks[d].dev = 0
            /\ "iface" \in kept[d] => blocks[d].iface - 1 = 0
            /\ "iface" \notin kept[d] => blocks[d].iface = 0
        BY <1>2 DEF Device, Balanced
      <3>2. blocks' = [blocks EXCEPT ![d] =
              [dev |-> IF "dev" \in kept[d] THEN blocks[d].dev - 1 ELSE blocks[d].dev,
               iface |-> IF "iface" \in kept[d] THEN blocks[d].iface - 1 ELSE blocks[d].iface]]
        BY DEF Delete
      <3>. QED BY <3>1, <3>2
    <2>. QED BY <2>1 DEF IInv, Types, TypeOK
  <1>4. ~Sender(d)
    BY <1>1, <1>2 DEF Sender, At, Device, Locks, Inside
  <1>5. Types'
    BY <1>1, <1>3 DEF IInv, Types, TypeOK
  <1>6. Named'
    BY <1>1, PnpAssumption DEF IInv, Named, None, PnpAssumption, Types, TypeOK
  <1>7. BiosTells'
    <2>1. \A e \in Devices : name'[e] \in Bios => name'[e] = name[e]
      BY <1>1 DEF None, Bios, IInv, Types, TypeOK
    <2>. QED BY <1>1, <2>1 DEF IInv, BiosTells
  <1>8. Staged(d)'
    BY <1>1, <1>2 DEF Device, Staged, IInv, Types, TypeOK
  <1>9. Working(d)'
    BY <1>1, <1>2, QuietThreads DEF Working, IInv, Types, TypeOK
  <1>10. Locks(d)'
    BY <1>1, <1>2 DEF Device, Locks
  <1>11. Balanced(d)'
    BY <1>1, <1>2, <1>3 DEF Device, Balanced, IInv, Types, TypeOK
  <1>12. Awaited(d)'
    BY <1>1, <1>2, <1>4, QuietThreads DEF Device, Awaited, IInv, Types, TypeOK
  <1>13. \A e \in Devices \ {d} : Same(e)
    BY <1>1, <1>3 DEF Same, IInv, Types, TypeOK
  <1>. QED BY <1>1, <1>5, <1>6, <1>7, <1>8, <1>9, <1>10, <1>11, <1>12, <1>13, OtherDevices DEF IInv, Device
-----------------------------------------------------------------------------
(* Transfers, the timer, other ports *)

LEMMA TransferStep ==
  ASSUME IInv, NEW d \in Devices, JobDone(d) \/ TimerDpc(d)
  PROVE  IInv'
  <1>1. /\ UNCHANGED <<stage, at, others, exists, name, f, gone>>
        /\ UNCHANGED <<uc, cache, reg, port, trapped, old, bios>>
        /\ UNCHANGED <<blocks, kept, locked, mutex, call>>
    BY DEF JobDone, TimerDpc, pnp, conf, mem
  <1>2. Device(d)
    BY DEF IInv
  <1>3. /\ jobs' \in [Devices -> Nat] /\ red' \in [Devices -> BOOLEAN] /\ armed' \in [Devices -> BOOLEAN]
        /\ \A e \in Devices \ {d} : jobs'[e] = jobs[e] /\ red'[e] = red[e] /\ armed'[e] = armed[e]
        /\ \/ jobs[d] > 0 /\ jobs'[d] = jobs[d] - 1 /\ ~red'[d] /\ armed'[d] = armed[d]
           \/ armed[d]
    <2>1. jobs \in [Devices -> Nat] /\ red \in [Devices -> BOOLEAN] /\ armed \in [Devices -> BOOLEAN]
      BY DEF IInv, Types, TypeOK
    <2>2. CASE JobDone(d)
      <3>1. jobs[d] - 1 \in Nat
        BY <2>1, <2>2 DEF JobDone
      <3>. QED BY <2>1, <2>2, <3>1 DEF JobDone
    <2>3. CASE TimerDpc(d)
      <3>1. jobs[d] + 1 \in Nat
        BY <2>1
      <3>. QED BY <2>1, <2>3, <3>1 DEF TimerDpc
    <2>. QED BY <2>2, <2>3
  <1>4. Types'
    BY <1>1, <1>3 DEF IInv, Types, TypeOK
  <1>5. Named' /\ BiosTells'
    BY <1>1 DEF IInv, Named, BiosTells
  <1>6. Staged(d)' /\ Balanced(d)'
    BY <1>1, <1>2 DEF Device, Staged, Balanced
  <1>7. Working(d)'
    BY <1>1, <1>2, QuietThreads DEF Device, Working
  <1>8. Locks(d)'
    BY <1>1, <1>2, LocksKept DEF Device
  <1>9. Awaited(d)'
    BY <1>1, <1>2, <1>3, QuietThreads DEF Device, Awaited, IInv, Types, TypeOK
  <1>10. \A e \in Devices \ {d} : Same(e)
    BY <1>1, <1>3 DEF Same
  <1>. QED BY <1>1, <1>4, <1>5, <1>6, <1>7, <1>8, <1>9, <1>10, OtherDevices DEF IInv, Device

LEMMA OtherPortsStep ==
  ASSUME IInv, NEW n \in Numbers, OtherPorts(n)
  PROVE  IInv'
  <1>1. /\ UNCHANGED <<stage, at, exists, name, f, gone>>
        /\ UNCHANGED <<uc, cache, reg, port, trapped, old, bios>>
        /\ UNCHANGED <<blocks, kept, locked, mutex, jobs, red, armed, call>>
        /\ others' \subseteq Numbers
    BY DEF OtherPorts, conf, mem, io, IInv, Types, TypeOK
  <1>2. Types'
    BY <1>1 DEF IInv, Types, TypeOK
  <1>3. Named' /\ BiosTells'
    BY <1>1 DEF IInv, Named, BiosTells
  <1>4. ASSUME NEW e \in Devices PROVE Device(e)'
    <2>1. Device(e) /\ Same(e)
      BY <1>1 DEF IInv, Same
    <2>. QED BY <1>1, <2>1, LocksKept, QuietThreads, SameDevice DEF Device
  <1>. QED BY <1>2, <1>3, <1>4 DEF IInv
-----------------------------------------------------------------------------
(* Accesses and files.  A thread's step concerns its own call and, of the     *)
(* device, the lock, the mutex and the transfers.                             *)

\* Only thread t moves, from one call to another.
Moved(t) == \A u \in Threads \ {t} : call'[u] = call[u]

LEMMA ThreadStep ==
  ASSUME IInv, NEW t \in Threads, NEW d \in Devices, Moved(t),
         call' \in [Threads -> Calls],
         UNCHANGED <<stage, at, others, exists, name, f, gone, cache, reg, port, kept, blocks>>,
         \A e \in Devices \ {d} :
           /\ locked'[e] = locked[e] /\ jobs'[e] = jobs[e] /\ red'[e] = red[e]
           /\ armed'[e] = armed[e] /\ trapped'[e] = trapped[e],
         call[t] # Idle => call[t].dev = d, call'[t] # Idle => call'[t].dev = d,
         Working(d)', Locks(d)', Awaited(d)', Types', BiosTells'
  PROVE  IInv'
  <1>1. Named'
    BY DEF IInv, Named
  <1>2. Staged(d)' /\ Balanced(d)'
    BY DEF IInv, Device, Staged, Balanced
  <1>3. ASSUME NEW e \in Devices \ {d} PROVE Device(e)'
    <2>1. Device(e) /\ Same(e)
      BY DEF IInv, Same
    <2>2. Opened(e)' => Opened(e)
      BY DEF Opened, IsFile, Moved, Idle
    <2>3. Settings(e)' => Settings(e)
      BY DEF Settings, IsFile, Moved, Idle
    <2>4. Sender(e) => Sender(e)'
      BY DEF Sender, At, Moved, Idle
    <2>5. Locks(e)'
      BY <2>1 DEF Device, Locks, Inside, Moved, Idle
    <2>. QED BY <2>1, <2>2, <2>3, <2>4, <2>5, SameDevice
  <1>. QED BY <1>1, <1>2, <1>3 DEF IInv, Device

\* The steps that leave traps and configuration alone.
LEMMA UserStep ==
  ASSUME IInv, NEW t \in Threads, NEW d \in Devices, Moved(t),
         call' \in [Threads -> Calls],
         UNCHANGED <<pnp, conf, mem>>, mutex' \in [Devices -> SUBSET Threads],
         locked' \in [Devices -> SUBSET Threads], jobs' \in [Devices -> Nat],
         red' \in [Devices -> BOOLEAN], armed' \in [Devices -> BOOLEAN],
         \A e \in Devices \ {d} :
           /\ locked'[e] = locked[e] /\ jobs'[e] = jobs[e] /\ red'[e] = red[e]
           /\ armed'[e] = armed[e],
         call[t] # Idle => call[t].dev = d, call'[t] # Idle => call'[t].dev = d,
         Opened(d)' => stage[d] \in {"running", "stopped", "surprised"} /\ at[d] = "idle",
         Settings(d)' => stage[d] \in {"running", "stopped"},
         Locks(d)', Awaited(d)'
  PROVE  IInv'
  <1>1. /\ UNCHANGED <<stage, at, others, exists, name, f, gone, cache, reg, port, kept, blocks>>
        /\ UNCHANGED <<trapped, uc, bios, old>>
    BY DEF pnp, conf, mem
  <1>2. Types'
    BY <1>1 DEF IInv, Types, TypeOK
  <1>3. BiosTells'
    BY <1>1 DEF IInv, BiosTells
  <1>4. Working(d)'
    BY <1>1 DEF IInv, Device, Working
  <1>. QED BY <1>1, <1>2, <1>3, <1>4, ThreadStep

\* What the invariant says of the device that a thread's call is for.
LEMMA CallDevice ==
  ASSUME IInv, NEW t \in Threads, call[t] # Idle
  PROVE  /\ call[t].dev \in Devices /\ Device(call[t].dev)
         /\ call[t].kind = "access" => call[t] \in Accesses
         /\ call[t].kind = "file" => call[t] \in Files /\ Opened(call[t].dev)
         /\ call[t].kind = "file" /\ call[t].pc \in {"checked", "locked"} /\ call[t].req = "usercfg" =>
              Settings(call[t].dev)
  BY CallType DEF IInv, Opened, Settings, IsFile

LEMMA KindNotIdle ==
  ASSUME NEW c, c.kind \in {"access", "file"}
  PROVE  c # Idle
  BY DEF Idle

\* The lock, when only t takes or releases it.
LEMMA LocksMoved ==
  ASSUME NEW t \in Threads, NEW d, Locks(d), Moved(t), UNCHANGED exists,
         \A u \in Threads \ {t} : (u \in locked'[d]) <=> (u \in locked[d]),
         (t \in locked'[d]) <=> (Inside(call'[t]) /\ call'[t].dev = d),
         locked'[d] # {} => exists[d]
  PROVE  Locks(d)'
  BY DEF Locks, Moved

\* An access is nobody's file, and the other way round.
LEMMA FilesMoved ==
  ASSUME NEW t \in Threads, NEW d, Moved(t), call[t].kind # "file", call'[t].kind # "file"
  PROVE  (Opened(d)' <=> Opened(d)) /\ (Settings(d)' <=> Settings(d))
  BY DEF Opened, Settings, IsFile, Moved

LEMMA SendersMoved ==
  ASSUME NEW t \in Threads, NEW d, Moved(t), call[t].kind # "access" \/ call[t].pc # "sent"
  PROVE  Sender(d) => Sender(d)'
  BY DEF Sender, At, Moved

LEMMA TrapStep ==
  ASSUME IInv, NEW t \in Threads, NEW d \in Devices, Trap(t, d)
  PROVE  IInv'
  <1>. DEFINE c == [kind |-> "access", dev |-> d, pc |-> "found"]
  <1>1. /\ call[t] = Idle /\ call' = [call EXCEPT ![t] = c]
        /\ UNCHANGED <<pnp, conf, mem>> /\ UNCHANGED <<locked, mutex, jobs, red, armed>>
    BY DEF Trap, Let
  <1>2. c \in Calls /\ c.kind = "access" /\ c.dev = d /\ c.pc = "found"
    BY DEF Calls, Accesses
  <1>. HIDE DEF c
  <1>3. call'[t] = c /\ Moved(t) /\ call' \in [Threads -> Calls]
    BY <1>1, <1>2 DEF Moved, IInv, Types
  <1>4. Idle.kind = "none"
    BY DEF Idle
  <1>5. Device(d)
    BY DEF IInv
  <1>6. Locks(d)'
    BY <1>1, <1>2, <1>3, <1>4, <1>5, LocksMoved DEF Device, Locks, Inside, pnp
  <1>7. (Opened(d)' <=> Opened(d)) /\ (Settings(d)' <=> Settings(d)) /\ (Sender(d) => Sender(d)')
    BY <1>1, <1>2, <1>3, <1>4, FilesMoved, SendersMoved
  <1>8. Awaited(d)'
    BY <1>1, <1>5, <1>7 DEF Device, Awaited, pnp, conf, mem
  <1>. QED BY <1>1, <1>2, <1>3, <1>5, <1>6, <1>7, <1>8, UserStep DEF IInv, Types, TypeOK, Device, Working

LEMMA AcquireStep ==
  ASSUME IInv, NEW t \in Threads, Acquire(t)
  PROVE  IInv'
  <1>0. call[t].kind = "access" /\ call[t] # Idle
    BY KindNotIdle DEF Acquire, At
  <1>d. PICK d \in Devices : d = call[t].dev
    BY <1>0, CallDevice
  <1>1. /\ call[t].kind = "access" /\ call[t].pc = "found" /\ call[t] # Idle
        /\ UNCHANGED <<pnp, conf, mem>> /\ UNCHANGED <<mutex, jobs, red, armed>>
    BY KindNotIdle DEF Acquire, At
  <1>2. Device(d) /\ call[t] \in Accesses /\ t \notin locked[d]
    BY <1>d, <1>1, CallDevice DEF Device, Locks, Inside
  <1>3. CASE exists[d] /\ ~gone[d]
    <2>1. locked' = [locked EXCEPT ![d] = @ \cup {t}] /\ Goto(t, "inside")
      BY <1>d, <1>3 DEF Acquire
    <2>2. /\ call'[t].kind = "access" /\ call'[t].dev = d /\ call'[t].pc = "inside"
          /\ Moved(t) /\ call' \in [Threads -> Calls]
      BY <1>d, <1>1, <1>2, <2>1, GotoType DEF IInv, Moved
    <2>3. locked' \in [Devices -> SUBSET Threads] /\ locked'[d] = locked[d] \cup {t}
          /\ \A e \in Devices \ {d} : locked'[e] = locked[e]
      BY <1>d, <1>2, <2>1 DEF IInv, Types, TypeOK
    <2>4. Locks(d)'
      BY <1>d, <1>1, <1>2, <1>3, <2>2, <2>3, LocksMoved DEF Device, Inside, pnp
    <2>5. (Opened(d)' <=> Opened(d)) /\ (Settings(d)' <=> Settings(d)) /\ (Sender(d) => Sender(d)')
      BY <1>d, <1>1, <2>2, FilesMoved, SendersMoved
    <2>6. Awaited(d)'
      BY <1>d, <1>1, <1>2, <2>5 DEF Device, Awaited, pnp, conf, mem
    <2>. QED BY <1>d, <1>1, <1>2, <2>2, <2>3, <2>4, <2>5, <2>6, UserStep DEF IInv, Types, TypeOK, Device, Working
  <1>4. CASE ~(exists[d] /\ ~gone[d])
    <2>1. call' = [call EXCEPT ![t] = Idle] /\ UNCHANGED locked /\ Idle.kind = "none"
      BY <1>d, <1>4 DEF Acquire, Idle
    <2>2. call'[t] = Idle /\ Moved(t) /\ call' \in [Threads -> Calls]
      BY <1>d, <2>1 DEF IInv, Types, Moved, Calls
    <2>3. Locks(d)'
      BY <1>d, <1>1, <1>2, <2>1, <2>2, LocksMoved DEF Device, Locks, Inside, pnp
    <2>4. (Opened(d)' <=> Opened(d)) /\ (Settings(d)' <=> Settings(d)) /\ (Sender(d) => Sender(d)')
      BY <1>d, <1>1, <2>1, <2>2, FilesMoved, SendersMoved
    <2>5. Awaited(d)'
      BY <1>d, <1>1, <1>2, <2>4 DEF Device, Awaited, pnp, conf, mem
    <2>. QED BY <1>d, <1>1, <1>2, <2>1, <2>2, <2>3, <2>4, <2>5, UserStep DEF IInv, Types, TypeOK, Device, Working
  <1>. QED BY <1>d, <1>3, <1>4

\* A thread that waits for its transfer holds the lock all the time.
LEMMA EnterStep ==
  ASSUME IInv, NEW t \in Threads, Enter(t)
  PROVE  IInv'
  <1>0. call[t].kind = "access" /\ call[t] # Idle
    BY KindNotIdle DEF Enter, At
  <1>d. PICK d \in Devices : d = call[t].dev
    BY <1>0, CallDevice
  <1>1. /\ call[t].kind = "access" /\ call[t].pc = "inside" /\ call[t] # Idle /\ ~red[d]
        /\ UNCHANGED <<pnp, conf, mem>>
    BY <1>0, <1>d DEF Enter, At
  <1>2. Device(d) /\ call[t] \in Accesses /\ t \in locked[d] /\ exists[d]
    BY <1>d, <1>1, CallDevice DEF Device, Locks, Inside
  <1>3. CASE cache
    <2>1. /\ armed' = [armed EXCEPT ![d] = TRUE] /\ locked' = [locked EXCEPT ![d] = @ \ {t}]
          /\ call' = [call EXCEPT ![t] = Idle] /\ Idle.kind = "none" /\ UNCHANGED <<mutex, jobs, red>>
      BY <1>d, <1>3 DEF Enter, Idle
    <2>2. call'[t] = Idle /\ Moved(t) /\ call' \in [Threads -> Calls]
      BY <1>d, <2>1 DEF IInv, Types, Moved, Calls
    <2>3. locked' \in [Devices -> SUBSET Threads] /\ locked'[d] = locked[d] \ {t}
          /\ \A e \in Devices \ {d} : locked'[e] = locked[e]
      BY <1>d, <1>2, <2>1 DEF IInv, Types, TypeOK
    <2>4. armed' \in [Devices -> BOOLEAN] /\ \A e \in Devices \ {d} : armed'[e] = armed[e]
      BY <1>d, <1>2, <2>1 DEF IInv, Types, TypeOK
    <2>5. Locks(d)'
      BY <1>d, <1>1, <1>2, <2>1, <2>2, <2>3, LocksMoved DEF Device, Inside, pnp
    <2>6. (Opened(d)' <=> Opened(d)) /\ (Settings(d)' <=> Settings(d))
      BY <1>d, <1>1, <2>1, <2>2, FilesMoved
    <2>7. Awaited(d)'
      BY <1>d, <1>1, <1>3 DEF Awaited, conf
    <2>. QED BY <1>d, <1>1, <1>2, <2>1, <2>2, <2>3, <2>4, <2>5, <2>6, <2>7, UserStep
         DEF IInv, Types, TypeOK, Device, Working
  <1>4. CASE ~cache
    <2>1. /\ mutex' = [mutex EXCEPT ![d] = {t}] /\ jobs' = [jobs EXCEPT ![d] = @ + 1]
          /\ red' = [red EXCEPT ![d] = TRUE] /\ Goto(t, "sent") /\ UNCHANGED <<locked, armed>>
      BY <1>d, <1>4 DEF Enter
    <2>2. /\ call'[t].kind = "access" /\ call'[t].dev = d /\ call'[t].pc = "sent"
          /\ Moved(t) /\ call' \in [Threads -> Calls]
      BY <1>d, <1>1, <1>2, <2>1, GotoType DEF IInv, Moved
    <2>3. /\ jobs' \in [Devices -> Nat] /\ jobs'[d] = jobs[d] + 1 /\ jobs[d] \in Nat
          /\ \A e \in Devices \ {d} : jobs'[e] = jobs[e]
      BY <1>d, <1>2, <2>1 DEF IInv, Types, TypeOK
    <2>4. /\ red' \in [Devices -> BOOLEAN] /\ red'[d] /\ \A e \in Devices \ {d} : red'[e] = red[e]
          /\ mutex' \in [Devices -> SUBSET Threads]
      <3>1. red \in [Devices -> BOOLEAN] /\ mutex \in [Devices -> SUBSET Threads]
        BY DEF IInv, Types, TypeOK
      <3>2. {t} \in SUBSET Threads
        OBVIOUS
      <3>. QED BY <2>1, <3>1, <3>2
    <2>5. Locks(d)'
      BY <1>d, <1>1, <1>2, <2>1, <2>2, LocksMoved DEF Device, Inside, pnp
    <2>6. (Opened(d)' <=> Opened(d)) /\ (Settings(d)' <=> Settings(d)) /\ Sender(d)'
      BY <1>d, <1>1, <2>2, FilesMoved DEF Sender, At
    <2>7. Awaited(d)'
      BY <1>d, <1>1, <1>2, <2>1, <2>3, <2>4, <2>6 DEF Device, Awaited, pnp, conf, mem
    <2>. QED BY <1>d, <1>1, <1>2, <2>1, <2>2, <2>3, <2>4, <2>5, <2>6, <2>7, UserStep
         DEF IInv, Types, TypeOK, Device, Working
  <1>. QED BY <1>d, <1>3, <1>4

LEMMA LeaveStep ==
  ASSUME IInv, NEW t \in Threads, Leave(t)
  PROVE  IInv'
  <1>0. call[t].kind = "access" /\ call[t] # Idle
    BY KindNotIdle DEF Leave, At
  <1>d. PICK d \in Devices : d = call[t].dev
    BY <1>0, CallDevice
  <1>1. /\ call[t].kind = "access" /\ call[t].pc = "sent" /\ call[t] # Idle /\ ~red[d]
        /\ mutex' = [mutex EXCEPT ![d] = @ \ {t}] /\ locked' = [locked EXCEPT ![d] = @ \ {t}]
        /\ call' = [call EXCEPT ![t] = Idle] /\ Idle.kind = "none"
        /\ UNCHANGED <<pnp, conf, mem>> /\ UNCHANGED <<jobs, red, armed>>
    BY <1>d, KindNotIdle DEF Leave, At, Idle
  <1>2. Device(d) /\ exists[d]
    BY <1>d, <1>1, CallDevice DEF Device, Locks, Inside
  <1>3. call'[t] = Idle /\ Moved(t) /\ call' \in [Threads -> Calls]
    BY <1>d, <1>1 DEF IInv, Types, Moved, Calls
  <1>4. /\ locked' \in [Devices -> SUBSET Threads] /\ locked'[d] = locked[d] \ {t}
        /\ \A e \in Devices \ {d} : locked'[e] = locked[e]
        /\ mutex' \in [Devices -> SUBSET Threads]
    BY <1>d, <1>1, <1>2 DEF IInv, Types, TypeOK
  <1>5. Locks(d)'
    BY <1>d, <1>1, <1>2, <1>3, <1>4, LocksMoved DEF Device, Inside, pnp
  <1>6. (Opened(d)' <=> Opened(d)) /\ (Settings(d)' <=> Settings(d))
    BY <1>d, <1>1, <1>3, FilesMoved
  <1>7. Awaited(d)'
    BY <1>d, <1>1, <1>2 DEF Device, Awaited, pnp, conf, mem
  <1>. QED BY <1>d, <1>1, <1>2, <1>3, <1>4, <1>5, <1>6, <1>7, UserStep
       DEF IInv, Types, TypeOK, Device, Working
-----------------------------------------------------------------------------
(* Files *)

\* A file is open on a device that is at work, or has been unplugged.
LEMMA FilesStay ==
  ASSUME IInv, NEW t \in Threads, NEW d \in Devices, Moved(t),
         call[t].kind = "file", call[t].dev = d,
         call'[t].kind = "file" /\ call'[t].pc \in {"checked", "locked"} /\ call'[t].req = "usercfg"
           => stage[d] \in {"running", "stopped"}
  PROVE  /\ stage[d] \in {"running", "stopped", "surprised"} /\ at[d] = "idle" /\ exists[d]
         /\ Settings(d)' => stage[d] \in {"running", "stopped"}
         /\ Sender(d) => Sender(d)'
  <1>1. Device(d) /\ Opened(d)
    BY DEF IInv, Opened, IsFile
  <1>2. stage[d] \in {"running", "stopped", "surprised"} /\ at[d] = "idle" /\ exists[d]
    BY <1>1 DEF Device, Working, Staged
  <1>3. Settings(d)' => stage[d] \in {"running", "stopped"}
    <2>1. SUFFICES ASSUME NEW u \in Threads, call'[u].kind = "file", call'[u].dev = d,
                          call'[u].pc \in {"checked", "locked"}, call'[u].req = "usercfg"
                   PROVE  stage[d] \in {"running", "stopped"}
      BY DEF Settings, IsFile
    <2>2. CASE u # t
      BY <1>1, <2>1, <2>2 DEF Moved, Device, Working, Settings, IsFile
    <2>. QED BY <2>1, <2>2
  <1>. QED BY <1>2, <1>3, SendersMoved

\* A step of a file that leaves traps and configuration alone.
LEMMA FileStep ==
  ASSUME IInv, NEW t \in Threads, NEW d \in Devices, Moved(t),
         call[t].kind = "file", call[t].dev = d, call' \in [Threads -> Calls],
         call'[t] = Idle \/ (call'[t].kind = "file" /\ call'[t].dev = d),
         UNCHANGED <<pnp, conf, mem>>, UNCHANGED <<mutex, jobs, red, armed>>,
         locked' \in {locked, [locked EXCEPT ![d] = @ \cup {t}], [locked EXCEPT ![d] = @ \ {t}]},
         (t \in locked'[d]) <=> (Inside(call'[t]) /\ call'[t].dev = d),
         call'[t].kind = "file" /\ call'[t].pc \in {"checked", "locked"} /\ call'[t].req = "usercfg"
           => stage[d] \in {"running", "stopped"}
  PROVE  IInv'
  <1>1. /\ stage[d] \in {"running", "stopped", "surprised"} /\ at[d] = "idle" /\ exists[d]
        /\ Settings(d)' => stage[d] \in {"running", "stopped"}
        /\ Sender(d) => Sender(d)'
    BY FilesStay
  <1>2. Device(d) /\ call[t] # Idle
    BY KindNotIdle DEF IInv
  <1>3. /\ locked' \in [Devices -> SUBSET Threads]
        /\ \A e \in Devices \ {d} : locked'[e] = locked[e]
        /\ \A u \in Threads \ {t} : (u \in locked'[d]) <=> (u \in locked[d])
    <2>1. locked \in [Devices -> SUBSET Threads]
      BY DEF IInv, Types, TypeOK
    <2>2. PICK l \in SUBSET Threads : /\ locked' = [locked EXCEPT ![d] = l]
                                     /\ \A u \in Threads \ {t} : (u \in l) <=> (u \in locked[d])
      <3>1. locked[d] \in SUBSET Threads
        BY <2>1
      <3>2. locked[d] \cup {t} \in SUBSET Threads /\ locked[d] \ {t} \in SUBSET Threads
        BY <3>1
      <3>3. locked = [locked EXCEPT ![d] = locked[d]]
        BY <2>1
      <3>4. \/ locked' = [locked EXCEPT ![d] = locked[d]]
            \/ locked' = [locked EXCEPT ![d] = locked[d] \cup {t}]
            \/ locked' = [locked EXCEPT ![d] = locked[d] \ {t}]
        BY <3>3
      <3>. QED BY <3>1, <3>2, <3>4
    <2>. QED BY <2>1, <2>2
  <1>4. Locks(d)'
    BY <1>1, <1>2, <1>3, LocksMoved DEF Device, pnp
  <1>5. Awaited(d)'
    BY <1>1, <1>2 DEF Device, Awaited, pnp, conf, mem
  <1>6. /\ mutex' \in [Devices -> SUBSET Threads] /\ jobs' \in [Devices -> Nat]
        /\ red' \in [Devices -> BOOLEAN] /\ armed' \in [Devices -> BOOLEAN]
    BY DEF IInv, Types, TypeOK
  <1>. QED BY <1>1, <1>2, <1>3, <1>4, <1>5, <1>6, UserStep

LEMMA CreateStep ==
  ASSUME IInv, NEW t \in Threads, NEW d \in Devices, Create(t, d)
  PROVE  IInv'
  <1>. DEFINE c == [kind |-> "file", dev |-> d, pc |-> "open"]
  <1>1. /\ call[t] = Idle /\ call' = [call EXCEPT ![t] = c] /\ Idle.kind = "none"
        /\ stage[d] \in {"running", "stopped"} /\ at[d] = "idle"
        /\ UNCHANGED <<pnp, conf, mem>> /\ UNCHANGED <<locked, mutex, jobs, red, armed>>
    BY DEF Create, Let, Idle
  <1>2. c \in Calls /\ c.kind = "file" /\ c.dev = d /\ c.pc = "open"
    BY DEF Calls, Files
  <1>. HIDE DEF c
  <1>3. call'[t] = c /\ Moved(t) /\ call' \in [Threads -> Calls]
    BY <1>1, <1>2 DEF Moved, IInv, Types
  <1>4. Device(d)
    BY DEF IInv
  <1>5. Locks(d)'
    BY <1>1, <1>2, <1>3, <1>4, LocksMoved DEF Device, Locks, Inside, pnp
  <1>6. (Settings(d)' => stage[d] \in {"running", "stopped"}) /\ (Sender(d) => Sender(d)')
    BY <1>1, SendersMoved, <1>3
  <1>7. Awaited(d)'
    BY <1>1, <1>4, <1>6 DEF Device, Awaited, pnp, conf, mem
  <1>. QED BY <1>1, <1>2, <1>3, <1>4, <1>5, <1>6, <1>7, UserStep DEF IInv, Types, TypeOK

\* Open, IOCTL and close; IOCTLs that are pending or at work.
LEMMA FileMoves ==
  ASSUME Orderly, IInv, NEW t \in Threads,
         \/ Close(t) \/ IoctlLock(t) \/ OutIn(t) \/ Vendor(t) \/ IrpDone(t)
         \/ \E req \in Requests : Ioctl(t, req)
  PROVE  IInv'
  <1>0. call[t].kind = "file" /\ call[t] # Idle /\ Idle.kind = "none"
    BY KindNotIdle DEF Close, IoctlLock, OutIn, Vendor, IrpDone, Ioctl, At, Doing, Idle
  <1>d. PICK d \in Devices : d = call[t].dev
    BY <1>0, CallDevice
  <1>1. /\ Device(d) /\ call[t] \in Files /\ Opened(d) /\ exists[d]
        /\ stage[d] \in {"running", "stopped", "surprised"}
        /\ (t \in locked[d]) <=> Inside(call[t])
        /\ call[t].pc \in {"checked", "locked"} /\ call[t].req = "usercfg" =>
             stage[d] \in {"running", "stopped"}
    BY <1>0, <1>d, CallDevice DEF Device, Working, Locks, Staged
  <1>2. UNCHANGED <<pnp, conf, mem>> /\ UNCHANGED <<mutex, jobs, red, armed>>
    BY DEF Close, IoctlLock, OutIn, Vendor, IrpDone, Ioctl
  <1>3. locked \in [Devices -> SUBSET Threads] /\ call \in [Threads -> Calls]
    BY DEF IInv, Types, TypeOK
  <1>4. CASE Close(t)
    <2>1. call' = [call EXCEPT ![t] = Idle] /\ UNCHANGED locked /\ call[t].pc = "open"
      BY <1>4 DEF Close, At
    <2>2. call'[t] = Idle /\ Moved(t) /\ call' \in [Threads -> Calls]
      BY <1>3, <2>1 DEF Moved, Calls
    <2>. QED BY <1>0, <1>d, <1>1, <1>2, <2>1, <2>2, FileStep DEF Inside
  <1>5. ASSUME NEW req \in Requests, Ioctl(t, req) PROVE IInv'
    <2>. DEFINE c == [kind |-> "file", dev |-> d, pc |-> "checked", req |-> req]
    <2>1. call' = [call EXCEPT ![t] = c] /\ UNCHANGED locked /\ call[t].pc = "open"
          /\ (req = "usercfg" => "surprise" \notin f[d])
      BY <1>d, <1>5 DEF Ioctl, At, Orderly
    <2>2. c \in Calls /\ c.kind = "file" /\ c.dev = d /\ c.pc = "checked" /\ c.req = req
      BY DEF Calls, Files
    <2>. HIDE DEF c
    <2>3. call'[t] = c /\ Moved(t) /\ call' \in [Threads -> Calls]
      BY <1>3, <2>1, <2>2 DEF Moved
    <2>4. req = "usercfg" => stage[d] \in {"running", "stopped"}
      BY <1>1, <2>1 DEF Device, Staged
    <2>. QED BY <1>0, <1>d, <1>1, <1>2, <2>1, <2>2, <2>3, <2>4, FileStep DEF Inside
  <1>6. ASSUME NEW pc \in {"open", "pending", "locked", "lost"}, Goto(t, pc), call[t].pc # "open",
               locked' \in {locked, [locked EXCEPT ![d] = @ \cup {t}], [locked EXCEPT ![d] = @ \ {t}]},
               (t \in locked'[d]) <=> (pc \in {"locked", "lost"}),
               pc = "locked" => call[t].pc = "checked"
        PROVE  IInv'
    <2>1. /\ call'[t].kind = "file" /\ call'[t].dev = d /\ call'[t].pc = pc
          /\ call'[t].req = call[t].req /\ Moved(t) /\ call' \in [Threads -> Calls]
      BY <1>0, <1>d, <1>1, <1>6, GotoType DEF IInv, Moved
    <2>2. pc = "locked" /\ call[t].req = "usercfg" => stage[d] \in {"running", "stopped"}
      BY <1>1, <1>6
    <2>. QED BY <1>0, <1>d, <1>1, <1>2, <1>6, <2>1, <2>2, FileStep DEF Inside
  <1>7. ASSUME Doing(t, "outin") \/ Doing(t, "vendor"), NEW pc \in {"open", "pending"}, Answer(t, pc)
        PROVE  IInv'
    <2>1. /\ locked' = [locked EXCEPT ![d] = @ \ {t}] /\ Goto(t, pc) /\ call[t].pc # "open"
          /\ t \notin locked'[d]
      BY <1>d, <1>3, <1>7 DEF Answer, Doing, At
    <2>. QED BY <1>6, <2>1
  <1>8. CASE IoctlLock(t)
    <2>1. call[t].pc = "checked"
      BY <1>8 DEF IoctlLock, At
    <2>2. CASE exists[d] /\ ~gone[d]
      <3>1. /\ locked' = [locked EXCEPT ![d] = @ \cup {t}] /\ Goto(t, "locked") /\ t \in locked'[d]
        BY <1>d, <1>3, <1>8, <2>2 DEF IoctlLock
      <3>. QED BY <1>6, <2>1, <3>1
    <2>3. CASE ~(exists[d] /\ ~gone[d])
      <3>1. UNCHANGED locked /\ Goto(t, "open")
        BY <1>d, <1>8, <2>3 DEF IoctlLock
      <3>. QED BY <1>0, <1>1, <1>6, <2>1, <3>1 DEF Inside
    <2>. QED BY <2>2, <2>3
  <1>9. CASE OutIn(t)
    BY <1>7, <1>9 DEF OutIn
  <1>10. CASE Vendor(t)
    <2>1. Doing(t, "vendor")
      BY <1>10 DEF Vendor
    <2>2. CASE Answer(t, "open") \/ Answer(t, "pending")
      BY <1>7, <2>1, <2>2
    <2>3. CASE UNCHANGED locked /\ Goto(t, "lost")
      <3>1. call[t].pc # "open" /\ t \in locked[d]
        BY <1>0, <1>1, <2>1 DEF Inside, Doing, At
      <3>. QED BY <1>6, <2>3, <3>1
    <2>. QED BY <1>10, <2>2, <2>3 DEF Vendor
  <1>11. CASE IrpDone(t)
    <2>1. call[t].pc = "pending" /\ Goto(t, "open") /\ UNCHANGED locked
      BY <1>11 DEF IrpDone, At
    <2>. QED BY <1>0, <1>1, <1>6, <2>1 DEF Inside
  <1>. QED BY <1>4, <1>5, <1>8, <1>9, <1>10, <1>11

\* IOCTL_VLPT_UserCfg works on a device that works: its traps are set.
LEMMA UserCfgStep ==
  ASSUME IInv, NEW t \in Threads, NEW c \in Bases, UserCfg(t, c)
  PROVE  IInv'
  <1>0. /\ call[t].kind = "file" /\ call[t].pc = "locked" /\ call[t].req = "usercfg"
        /\ call[t] # Idle
    BY KindNotIdle DEF UserCfg, Doing, At
  <1>d. PICK d \in Devices : d = call[t].dev
    BY <1>0, CallDevice
  <1>1. /\ Device(d) /\ Settings(d) /\ call[t] \in Files /\ t \in locked[d]
        /\ stage[d] \in {"running", "stopped"} /\ at[d] = "idle" /\ exists[d]
    BY <1>0, <1>d, CallDevice DEF Device, Working, Locks, Staged, Inside
  <1>2. /\ UNCHANGED <<stage, at, others, exists, name, f, gone, cache, reg, port>>
        /\ UNCHANGED <<kept, blocks, mutex, jobs, red, armed>>
        /\ uc' = [uc EXCEPT ![d] = c] /\ locked' = [locked EXCEPT ![d] = @ \ {t}] /\ Goto(t, "open")
        /\ IF c = uc[d] THEN UNCHANGED <<bios, old, trapped>> ELSE SetTraps(d, Freed(d), c)
    BY <1>d DEF UserCfg, Answer, pnp, mem
  <1>3. /\ call'[t].kind = "file" /\ call'[t].dev = d /\ call'[t].pc = "open"
        /\ Moved(t) /\ call' \in [Threads -> Calls]
    BY <1>0, <1>d, <1>1, <1>2, GotoType DEF IInv, Moved
  <1>4. /\ locked' \in [Devices -> SUBSET Threads] /\ locked'[d] = locked[d] \ {t}
        /\ \A e \in Devices \ {d} : locked'[e] = locked[e]
    <2>1. locked \in [Devices -> SUBSET Threads]
      BY DEF IInv, Types, TypeOK
    <2>2. locked[d] \ {t} \in SUBSET Threads
      BY <2>1
    <2>. QED BY <1>2, <2>1, <2>2
  <1>5. c \in Nat /\ uc' \in [Devices -> Bases] /\ uc'[d] = c /\ \A e \in Devices \ {d} : uc'[e] = uc[e]
    BY <1>2, PnpAssumption DEF PnpAssumption, IInv, Types, TypeOK
  <1>6. /\ bios' \in [lpt : [Bios -> Nat], sys : Nat] /\ old' \in [Devices -> [lpt : Nat, sys : Nat]]
        /\ trapped' \in [Devices -> BOOLEAN] /\ \A e \in Devices \ {d} : trapped'[e] = trapped[e]
        /\ \A n \in Bios : n # name[d] => bios'.lpt[n] = bios.lpt[n]
        /\ trapped'[d] /\ name[d] \in Bios => bios'.lpt[name[d]] = uc'[d]
    <2>1. CASE c = uc[d]
      BY <1>2, <1>5, <2>1 DEF IInv, Types, TypeOK, BiosTells
    <2>2. CASE c # uc[d]
      <3>1. /\ bios' = Patched(d, Freed(d), c) /\ old' = Saved(d, Freed(d))
            /\ trapped' = [trapped EXCEPT ![d] = TRUE]
        BY <1>2, <2>2 DEF SetTraps
      <3>2. /\ Freed(d) \in [lpt : [Bios -> Nat], sys : Nat]
            /\ \A n \in Bios : n # name[d] => Freed(d).lpt[n] = bios.lpt[n]
        BY FreedBios DEF IInv
      <3>3. /\ bios' \in [lpt : [Bios -> Nat], sys : Nat] /\ old' \in [Devices -> [lpt : Nat, sys : Nat]]
            /\ \A n \in Bios : bios'.lpt[n] = IF n = name[d] THEN c ELSE Freed(d).lpt[n]
        BY <1>5, <3>1, <3>2, PatchedBios DEF IInv
      <3>4. trapped \in [Devices -> BOOLEAN]
        BY DEF IInv, Types, TypeOK
      <3>. QED BY <1>5, <3>1, <3>2, <3>3, <3>4
    <2>. QED BY <2>1, <2>2
  <1>7. Types'
    BY <1>2, <1>3, <1>4, <1>5, <1>6 DEF IInv, Types, TypeOK
  <1>8. BiosTells'
    <2>1. \A e \in Devices : trapped[e] => exists[e]
      BY DEF IInv, Device, Staged, Working
    <2>. QED BY <1>2, <1>5, <1>6, <2>1, BiosStep DEF IInv
  <1>9. (Settings(d)' => stage[d] \in {"running", "stopped"}) /\ (Sender(d) => Sender(d)')
    BY <1>0, <1>1, <1>3, SendersMoved
  <1>10. Working(d)'
    BY <1>1, <1>2, <1>9 DEF Working
  <1>11. Locks(d)'
    BY <1>1, <1>2, <1>3, <1>4, LocksMoved DEF Device, Inside
  <1>12. Awaited(d)'
    BY <1>1, <1>2, <1>9 DEF Device, Awaited
  <1>. QED BY <1>0, <1>d, <1>1, <1>2, <1>3, <1>4, <1>6, <1>7, <1>8, <1>10, <1>11, <1>12, ThreadStep
-----------------------------------------------------------------------------
(* The invariant *)

LEMMA InitIInv ==
  ASSUME Init
  PROVE  IInv
  <1>1. cache \in BOOLEAN
    BY PnpAssumption DEF Init, PnpAssumption
  <1>2. TypeOK
    BY PnpAssumption DEF Init, TypeOK, PnpAssumption, None
  <1>3. Types
    BY <1>1, <1>2 DEF Init, Types, Calls
  <1>4. Named /\ BiosTells
    BY DEF Init, Named, BiosTells
  <1>5. ASSUME NEW d \in Devices PROVE Device(d)
    <2>1. /\ stage[d] = "out" /\ at[d] = "idle" /\ ~exists[d] /\ ~trapped[d] /\ locked[d] = {}
          /\ blocks[d].dev = 0 /\ blocks[d].iface = 0 /\ ~armed[d] /\ ~red[d] /\ jobs[d] = 0
          /\ f[d] = {}
      BY DEF Init
    <2>2. \A t \in Threads : call[t].kind = "none"
      BY DEF Init, Idle
    <2>3. ~Opened(d) /\ ~Settings(d)
      BY <2>2 DEF Opened, Settings, IsFile
    <2>4. Staged(d) /\ Working(d) /\ Balanced(d)
      BY <2>1, <2>3 DEF Staged, Working, Balanced
    <2>5. Locks(d)
      BY <2>1, <2>2 DEF Locks, Inside
    <2>6. Awaited(d)
      BY <2>1 DEF Awaited
    <2>. QED BY <2>4, <2>5, <2>6 DEF Device
  <1>. QED BY <1>3, <1>4, <1>5 DEF IInv

LEMMA NextIInv ==
  ASSUME Orderly, IInv, [Next]_vars
  PROVE  IInv'
  <1>1. ASSUME NEW d \in Devices, Handler(d) \/ Manager(d) PROVE IInv'
    BY <1>1, AddDeviceStep, StartStep, DescribeStep, ConfigureStep, StopStep, SurpriseRemovalStep,
       RemoveStep, AbortStep, DeleteStep DEF Handler, Manager
  <1>2. ASSUME NEW d \in Devices, JobDone(d) \/ TimerDpc(d) PROVE IInv'
    BY <1>2, TransferStep
  <1>3. ASSUME NEW t \in Threads, Work(t) PROVE IInv'
    BY <1>3, AcquireStep, EnterStep, LeaveStep, FileMoves, UserCfgStep DEF Work
  <1>4. ASSUME NEW t \in Threads, Program(t) PROVE IInv'
    BY <1>4, TrapStep, CreateStep, FileMoves DEF Program, Requests
  <1>5. ASSUME NEW n \in Numbers, OtherPorts(n) PROVE IInv'
    BY <1>5, OtherPortsStep
  <1>6. CASE UNCHANGED vars
    <2>1. /\ UNCHANGED <<stage, at, others, exists, name, f, gone, uc, cache, reg, port, trapped, old, bios>>
          /\ UNCHANGED <<blocks, kept, locked, mutex, jobs, red, armed, call>>
      BY <1>6 DEF vars, pnp, conf, mem, io
    <2>2. Types' /\ Named' /\ BiosTells'
      BY <2>1 DEF IInv, Types, TypeOK, Named, BiosTells
    <2>3. ASSUME NEW e \in Devices PROVE Device(e)'
      <3>1. Device(e) /\ Same(e)
        BY <2>1 DEF IInv, Same
      <3>. QED BY <2>1, <3>1, LocksKept, QuietThreads, SameDevice DEF Device
    <2>. QED BY <2>2, <2>3 DEF IInv
  <1>. QED BY <1>1, <1>2, <1>3, <1>4, <1>5, <1>6 DEF Next

\* The stages of the start and the removal, the flags, the remove lock and the
\* transfers agree with each other in every reachable state: what each handler
\* of DispatchPnp may rely on.
THEOREM InductiveInvariant == ASSUME Orderly PROVE Spec => []IInv
  <1>. QED BY InitIInv, NextIInv, PTL DEF Spec

\* Every variable keeps its type, however many adapters come and go.
THEOREM TypeCorrect == ASSUME Orderly PROVE Spec => []TypeOK
  <1>1. IInv => TypeOK
    BY DEF IInv, Types
  <1>. QED BY <1>1, InductiveInvariant, PTL

-----------------------------------------------------------------------------
(* The write cache.  Nobody waits for the bytes it holds: neither the timer    *)
(* nor the transfer that its DPC starts has a thread in the remove lock.       *)

\* No access is under way with the write cache on when the device goes.
Punctual == Orderly /\ ~LateAccesses

\* The timer and accesses belong to a device at work, transfers to one whose
\* pipes are still to be aborted.
Timed(d) ==
  /\ stage[d] = "running" => "Stopped" \notin f[d] /\ "iface" \in kept[d]
  /\ stage[d] = "stopped" => "Stopped" \in f[d]
  /\ at[d] = "configure" => "Stopped" \notin f[d]
  /\ cache =>
       /\ Accessed(d) \/ armed[d] => stage[d] = "running" /\ at[d] = "idle"
       /\ jobs[d] # 0 => exists[d] /\ at[d] # "wait" /\ "iface" \in kept[d]

TInv == \A d \in Devices : Timed(d)

LEMMA TimedKept ==
  ASSUME NEW e, Timed(e), Accessed(e)' => Accessed(e), cache' = cache,
         stage'[e] = stage[e], at'[e] = at[e], exists'[e] = exists[e], f'[e] = f[e],
         kept'[e] = kept[e], armed'[e] = armed[e], jobs'[e] = jobs[e]
  PROVE  Timed(e)'
  BY DEF Timed

LEMMA AccessedMoved ==
  ASSUME NEW t \in Threads, NEW e, Moved(t),
         call'[t].kind = "access" => call[t].kind = "access" /\ call'[t].dev = call[t].dev
  PROVE  Accessed(e)' => Accessed(e)
  BY DEF Accessed, Moved

\* A step of the PnP manager, of a transfer or of the timer.
LEMMA TimedAlone ==
  ASSUME TInv, NEW d \in Devices, UNCHANGED <<call, cache>>, \A e \in Devices \ {d} : Same(e),
         Timed(d)'
  PROVE  TInv'
  <1>1. ASSUME NEW e \in Devices \ {d} PROVE Timed(e)'
    <2>1. Timed(e) /\ Same(e) /\ (Accessed(e)' => Accessed(e))
      BY DEF TInv, Accessed
    <2>. QED BY <2>1, TimedKept DEF Same
  <1>. QED BY <1>1 DEF TInv

LEMMA StartTimed ==
  ASSUME Punctual, IInv, TInv, NEW d \in Devices,
         AddDevice(d) \/ Start(d) \/ Describe(d) \/ Configure(d)
  PROVE  TInv'
  <1>1. TypeOK /\ Device(d) /\ Timed(d)
    BY DEF IInv, Types, TInv
  <1>2. UNCHANGED <<call, cache, jobs>>
    BY DEF AddDevice, Start, Describe, Configure, io, conf
  <1>3. Accessed(d)' <=> Accessed(d)
    BY <1>2 DEF Accessed
  <1>4. \A e \in Devices \ {d} : Same(e)
    <2>1. CASE AddDevice(d)
      BY <1>1, <2>1 DEF Same, AddDevice, TypeOK, io
    <2>2. CASE Start(d)
      BY <1>1, <2>2 DEF Same, Start, TypeOK, io, mem
    <2>3. CASE Describe(d)
      BY <1>1, <2>3 DEF Same, Describe, TypeOK, io, conf
    <2>4. CASE Configure(d)
      BY <1>1, <2>4 DEF Same, Configure, TypeOK, SetTraps
    <2>. QED BY <2>1, <2>2, <2>3, <2>4
  <1>5. Timed(d)'
    <2>1. CASE AddDevice(d)
      BY <1>1, <1>2, <1>3, <2>1 DEF Timed, AddDevice, TypeOK, io, Device, Staged
    <2>2. CASE Start(d)
      BY <1>1, <1>2, <1>3, <2>2 DEF Timed, Start, TypeOK, io, mem, Punctual, Orderly
    <2>3. CASE Describe(d)
      BY <1>1, <1>2, <1>3, <2>3 DEF Timed, Describe, TypeOK, io, conf, Device, Staged, Balanced
    <2>4. CASE Configure(d)
      BY <1>1, <1>2, <1>3, <2>4 DEF Timed, Configure, TypeOK, Device, Staged, Balanced
    <2>. QED BY <2>1, <2>2, <2>3, <2>4
  <1>. QED BY <1>2, <1>4, <1>5, TimedAlone

\* The timer is cancelled, and no access comes after that.
LEMMA StopTimed ==
  ASSUME Punctual, IInv, TInv, NEW d \in Devices, Stop(d) \/ SurpriseRemoval(d) \/ Remove(d)
  PROVE  TInv'
  <1>1. TypeOK /\ Device(d) /\ Timed(d)
    BY DEF IInv, Types, TInv
  <1>2. /\ UNCHANGED <<call, cache, jobs, kept, exists>> /\ at[d] = "idle"
        /\ cache => ~Accessed(d)
    BY DEF Stop, SurpriseRemoval, Remove, mem, Punctual
  <1>3. Accessed(d)' <=> Accessed(d)
    BY <1>2 DEF Accessed
  <1>4. \A e \in Devices \ {d} : Same(e)
    <2>1. CASE Stop(d)
      BY <1>1, <2>1 DEF Same, Stop, TypeOK, mem, FreeTraps
    <2>2. CASE SurpriseRemoval(d)
      BY <1>1, <2>2 DEF Same, SurpriseRemoval, TypeOK, mem, FreeTraps, CancelTimer
    <2>3. CASE Remove(d)
      BY <1>1, <2>3 DEF Same, Remove, TypeOK, mem, FreeTraps, CancelTimer
    <2>. QED BY <2>1, <2>2, <2>3
  <1>5. Timed(d)'
    <2>1. CASE Stop(d)
      BY <1>1, <1>2, <1>3, <2>1 DEF Timed, Stop, TypeOK
    <2>2. CASE SurpriseRemoval(d)
      BY <1>1, <1>2, <1>3, <2>2 DEF Timed, SurpriseRemoval, TypeOK, CancelTimer
    <2>3. CASE Remove(d)
      BY <1>1, <1>2, <1>3, <2>3 DEF Timed, Remove, TypeOK, CancelTimer, Device, Staged
    <2>. QED BY <2>1, <2>2, <2>3
  <1>. QED BY <1>2, <1>4, <1>5, TimedAlone

\* No transfer is left when IoReleaseRemoveLockAndWait is called.
LEMMA RemoveTimed ==
  ASSUME IInv, TInv, NEW d \in Devices, Abort(d) \/ Delete(d)
  PROVE  TInv'
  <1>1. TypeOK /\ Device(d) /\ Timed(d) /\ at[d] \in {"abort", "wait"}
    BY DEF IInv, Types, TInv, Abort, Delete
  <1>2. call' = call
    <2>1. CASE Abort(d)
      <3>1. \A t \in Threads : ~(IsFile(call[t]) /\ call[t].dev = d)
        BY <1>1 DEF Opened, Device, Working
      <3>2. call' = [t \in Threads |-> call[t]]
        BY <2>1, <3>1 DEF Abort
      <3>. QED BY <3>2 DEF IInv, Types
    <2>2. CASE Delete(d)
      BY <2>2 DEF Delete, io
    <2>. QED BY <2>1, <2>2
  <1>3. cache' = cache /\ (Accessed(d)' <=> Accessed(d))
    BY <1>2 DEF Accessed, Abort, Delete, conf
  <1>4. \A e \in Devices \ {d} : Same(e)
    <2>1. CASE Abort(d)
      BY <1>1, <2>1 DEF Same, Abort, TypeOK, conf, mem
    <2>2. CASE Delete(d)
      BY <1>1, <2>2 DEF Same, Delete, TypeOK, conf, io
    <2>. QED BY <2>1, <2>2
  <1>5. Timed(d)'
    <2>1. CASE Abort(d)
      BY <1>1, <1>3, <2>1 DEF Timed, Abort, TypeOK, conf, mem
    <2>2. CASE Delete(d)
      BY <1>1, <1>3, <2>2 DEF Timed, Delete, TypeOK, conf, io
    <2>. QED BY <2>1, <2>2
  <1>. QED BY <1>2, <1>3, <1>4, <1>5, TimedAlone

LEMMA TransferTimed ==
  ASSUME IInv, TInv, NEW d \in Devices, JobDone(d) \/ TimerDpc(d)
  PROVE  TInv'
  <1>1. TypeOK /\ Device(d) /\ Timed(d)
    BY DEF IInv, Types, TInv
  <1>2. UNCHANGED <<call, cache, stage, at, exists, f, kept>>
    BY DEF JobDone, TimerDpc, pnp, conf, mem
  <1>3. Accessed(d)' <=> Accessed(d)
    BY <1>2 DEF Accessed
  <1>4. \A e \in Devices \ {d} : Same(e)
    BY <1>1 DEF Same, JobDone, TimerDpc, TypeOK, pnp, conf, mem
  <1>5. Timed(d)'
    <2>1. CASE JobDone(d)
      BY <1>1, <1>2, <1>3, <2>1 DEF Timed, JobDone, TypeOK
    <2>2. CASE TimerDpc(d)
      BY <1>1, <1>2, <1>3, <2>2 DEF Timed, TimerDpc, TypeOK
    <2>. QED BY <2>1, <2>2
  <1>. QED BY <1>2, <1>4, <1>5, TimedAlone

\* Threads: only Trap begins an access, and only Enter sets the timer.
LEMMA AccessTimed ==
  ASSUME Punctual, IInv, TInv, NEW t \in Threads,
         \/ \E d \in Devices : Trap(t, d)
         \/ Enter(t)
  PROVE  TInv'
  <1>1. TypeOK /\ call \in [Threads -> Calls] /\ UNCHANGED <<stage, at, exists, f, kept, cache>>
    BY DEF IInv, Types, Trap, Enter, pnp, conf, mem
  <1>2. ASSUME NEW d \in Devices, Trap(t, d) PROVE TInv'
    <2>. DEFINE c == [kind |-> "access", dev |-> d, pc |-> "found"]
    <2>1. /\ call'[t] = c /\ Moved(t) /\ UNCHANGED <<armed, jobs>> /\ c.kind = "access" /\ c.dev = d
          /\ trapped[d] /\ (cache => "Stopped" \notin f[d])
      BY <1>1, <1>2 DEF Trap, Let, Moved, Punctual
    <2>. HIDE DEF c
    <2>2. Timed(d) /\ Device(d)
      BY DEF IInv, TInv
    <2>3. Timed(d)'
      BY <1>1, <2>1, <2>2 DEF Timed, Device, Working
    <2>4. ASSUME NEW e \in Devices \ {d} PROVE Timed(e)'
      <3>1. Timed(e) /\ (Accessed(e)' => Accessed(e))
        BY <2>1 DEF TInv, Accessed, Moved
      <3>. QED BY <1>1, <2>1, <3>1, TimedKept
    <2>. QED BY <2>3, <2>4 DEF TInv
  <1>3. CASE Enter(t)
    <2>0. call[t].kind = "access" /\ call[t].pc = "inside" /\ call[t] # Idle
      BY <1>3, KindNotIdle DEF Enter, At
    <2>d. PICK d \in Devices : d = call[t].dev
      BY <2>0, CallDevice
    <2>1. /\ Moved(t) /\ (call'[t].kind = "access" => call'[t].dev = d)
          /\ armed' \in {armed, [armed EXCEPT ![d] = TRUE]}
          /\ jobs' \in {jobs, [jobs EXCEPT ![d] = @ + 1]}
          /\ cache => jobs' = jobs
      <3>1. CASE cache
        BY <1>1, <1>3, <2>d, <3>1 DEF Enter, Moved, Idle
      <3>2. CASE ~cache
        <4>1. Goto(t, "sent") /\ UNCHANGED armed /\ jobs' = [jobs EXCEPT ![d] = @ + 1]
          BY <1>3, <2>d, <3>2 DEF Enter
        <4>. QED BY <2>0, <2>d, <3>2, <4>1, GotoType DEF Moved, IInv
      <3>. QED BY <3>1, <3>2
    <2>2. Timed(d) /\ Accessed(d)
      BY <2>0, <2>d DEF TInv, Accessed
    <2>3. Timed(d)'
      BY <1>1, <2>1, <2>2 DEF Timed, TypeOK
    <2>4. ASSUME NEW e \in Devices \ {d} PROVE Timed(e)'
      <3>1. Timed(e) /\ (Accessed(e)' => Accessed(e)) /\ armed'[e] = armed[e] /\ jobs'[e] = jobs[e]
        BY <1>1, <2>1 DEF TInv, Accessed, Moved, TypeOK
      <3>. QED BY <1>1, <3>1, TimedKept
    <2>. QED BY <2>3, <2>4 DEF TInv
  <1>. QED BY <1>2, <1>3

LEMMA ThreadTimed ==
  ASSUME IInv, TInv, NEW t \in Threads,
         \/ Acquire(t) \/ Leave(t) \/ IoctlLock(t) \/ OutIn(t) \/ Vendor(t) \/ IrpDone(t) \/ Close(t)
         \/ \E c \in Bases : UserCfg(t, c)
         \/ \E d \in Devices : Create(t, d)
         \/ \E req \in Requests : Ioctl(t, req)
  PROVE  TInv'
  <1>1. /\ call \in [Threads -> Calls]
        /\ UNCHANGED <<stage, at, exists, f, kept, cache, armed, jobs>>
    BY DEF IInv, Types, Acquire, Leave, IoctlLock, OutIn, Vendor, IrpDone, Close, UserCfg, Create,
           Ioctl, pnp, conf, mem
  <1>2. \/ call' = [call EXCEPT ![t] = Idle]
        \/ \E c : call' = [call EXCEPT ![t] = c] /\ c.kind = "file"
        \/ \E pc : Goto(t, pc) /\ call[t] # Idle
    <2>1. CASE Acquire(t) \/ Leave(t) \/ Close(t)
      BY <2>1, KindNotIdle DEF Acquire, Leave, Close, At
    <2>2. CASE IoctlLock(t) \/ OutIn(t) \/ Vendor(t) \/ IrpDone(t) \/ \E c \in Bases : UserCfg(t, c)
      BY <2>2, KindNotIdle DEF IoctlLock, OutIn, Vendor, IrpDone, UserCfg, Answer, Doing, At
    <2>3. ASSUME NEW d \in Devices, Create(t, d)
          PROVE  \E c : call' = [call EXCEPT ![t] = c] /\ c.kind = "file"
      <3>. DEFINE c == [kind |-> "file", dev |-> d, pc |-> "open"]
      <3>1. call' = [call EXCEPT ![t] = c] /\ c.kind = "file"
        BY <2>3 DEF Create, Let
      <3>. HIDE DEF c
      <3>. QED BY <3>1
    <2>4. ASSUME NEW req \in Requests, Ioctl(t, req)
          PROVE  \E c : call' = [call EXCEPT ![t] = c] /\ c.kind = "file"
      <3>. DEFINE c == [kind |-> "file", dev |-> call[t].dev, pc |-> "checked", req |-> req]
      <3>1. call' = [call EXCEPT ![t] = c] /\ c.kind = "file"
        BY <2>4 DEF Ioctl
      <3>. HIDE DEF c
      <3>. QED BY <3>1
    <2>. QED BY <2>1, <2>2, <2>3, <2>4
  <1>3. /\ Moved(t)
        /\ call'[t].kind = "access" => call[t].kind = "access" /\ call'[t].dev = call[t].dev
    <2>1. CASE call' = [call EXCEPT ![t] = Idle]
      BY <1>1, <2>1 DEF Moved, Idle
    <2>2. CASE \E c : call' = [call EXCEPT ![t] = c] /\ c.kind = "file"
      BY <1>1, <2>2 DEF Moved
    <2>3. CASE \E pc : Goto(t, pc) /\ call[t] # Idle
      BY <2>3, GotoType DEF Moved, IInv
    <2>. QED BY <1>2, <2>1, <2>2, <2>3
  <1>4. ASSUME NEW e \in Devices PROVE Timed(e)'
    <2>1. Timed(e) /\ (Accessed(e)' => Accessed(e))
      BY <1>3, AccessedMoved DEF TInv
    <2>. QED BY <1>1, <2>1, TimedKept
  <1>. QED BY <1>4 DEF TInv

LEMMA InitTimed ==
  ASSUME Init
  PROVE  TInv
  BY DEF Init, TInv, Timed, Accessed, Idle

LEMMA NextTimed ==
  ASSUME Punctual, IInv, TInv, [Next]_vars
  PROVE  TInv'
  <1>1. ASSUME NEW d \in Devices, Handler(d) \/ Manager(d) PROVE TInv'
    BY <1>1, StartTimed, StopTimed, RemoveTimed DEF Handler, Manager
  <1>2. ASSUME NEW d \in Devices, JobDone(d) \/ TimerDpc(d) PROVE TInv'
    BY <1>2, TransferTimed
  <1>3. ASSUME NEW t \in Threads, Work(t) PROVE TInv'
    BY <1>3, AccessTimed, ThreadTimed DEF Work
  <1>4. ASSUME NEW t \in Threads, Program(t) PROVE TInv'
    BY <1>4, AccessTimed, ThreadTimed DEF Program, Requests
  <1>5. CASE UNCHANGED vars \/ \E n \in Numbers : OtherPorts(n)
    <2>1. UNCHANGED <<stage, at, exists, f, kept, cache, armed, jobs, call>>
      BY <1>5 DEF vars, pnp, conf, mem, io, OtherPorts
    <2>2. ASSUME NEW e \in Devices PROVE Timed(e)'
      <3>1. Timed(e) /\ (Accessed(e)' => Accessed(e))
        BY <2>1 DEF TInv, Accessed
      <3>. QED BY <2>1, <3>1, TimedKept
    <2>. QED BY <2>2 DEF TInv
  <1>. QED BY <1>1, <1>2, <1>3, <1>4, <1>5 DEF Next
-----------------------------------------------------------------------------
\* RemoveDevice deletes a device object only when no trap leads to it, nobody
\* holds its remove lock or a file, no timer of it runs and no transfer will call
\* back, with the write cache on and off, and what StartDevice allocated is freed.
THEOREM DeletedIsUnused == ASSUME Punctual PROVE Spec => []NothingLeft
  <1>1. ASSUME IInv, TInv, NEW d \in Devices, ~exists[d]
        PROVE  /\ ~trapped[d] /\ locked[d] = {} /\ ~Opened(d)
               /\ ~armed[d] /\ jobs[d] = 0
               /\ blocks[d] = [dev |-> 0, iface |-> 0]
    <2>1. Device(d) /\ stage[d] = "out"
      BY <1>1 DEF IInv, Device, Staged
    <2>2. ~trapped[d] /\ ~Opened(d) /\ locked[d] = {}
      BY <1>1, <2>1 DEF Device, Working, Locks
    <2>3. ~Sender(d)
      BY <2>1, <2>2 DEF Sender, At, Device, Locks, Inside
    <2>4. ~cache => ~armed[d] /\ jobs[d] = 0
      BY <1>1, <2>1, <2>3 DEF Device, Awaited
    <2>5. cache => ~armed[d] /\ jobs[d] = 0
      BY <1>1, <2>1 DEF TInv, Timed
    <2>6. blocks[d] \in [dev : Nat, iface : Nat] /\ blocks[d].dev = 0 /\ blocks[d].iface = 0
      BY <1>1, <2>1 DEF IInv, Types, TypeOK, Device, Balanced
    <2>7. ~armed[d] /\ jobs[d] = 0 /\ blocks[d] = [dev |-> 0, iface |-> 0]
      BY <2>4, <2>5, <2>6
    <2>. QED BY <2>2, <2>7
  <1>2. IInv /\ TInv => NothingLeft
    BY <1>1 DEF NothingLeft
  <1>3. Punctual => Orderly
    BY DEF Punctual
  <1>4. IInv /\ TInv /\ [Next]_vars => TInv'
    BY NextTimed
  <1>5. Spec => []TInv
    <2>1. Spec => []IInv
      BY <1>3, InductiveInvariant
    <2>. QED BY <1>4, <2>1, InitTimed, PTL DEF Spec
  <1>6. Spec => []IInv
    BY <1>3, InductiveInvariant
  <1>. QED BY <1>2, <1>5, <1>6, PTL

\* Even when accesses come late and the write cache is on: what leads to a deleted
\* device object from outside (traps, threads, files) is gone, and so is its memory;
\* what may be left is its own timer.
NothingReaches ==
  \A d \in Devices : ~exists[d] =>
    /\ ~trapped[d] /\ locked[d] = {} /\ ~Opened(d)
    /\ blocks[d] = [dev |-> 0, iface |-> 0]

\* NothingReaches holds however late the accesses are.
THEOREM DeletedIsUnreached == ASSUME Orderly PROVE Spec => []NothingReaches
  <1>1. ASSUME IInv, NEW d \in Devices, ~exists[d]
        PROVE  /\ ~trapped[d] /\ locked[d] = {} /\ ~Opened(d)
               /\ blocks[d] = [dev |-> 0, iface |-> 0]
    <2>1. Device(d) /\ stage[d] = "out"
      BY <1>1 DEF IInv, Device, Staged
    <2>2. blocks[d] \in [dev : Nat, iface : Nat] /\ blocks[d].dev = 0 /\ blocks[d].iface = 0
      BY <1>1, <2>1 DEF IInv, Types, TypeOK, Device, Balanced
    <2>3. blocks[d] = [dev |-> 0, iface |-> 0]
      BY <2>2
    <2>. QED BY <1>1, <2>1, <2>3 DEF Device, Working, Locks
  <1>2. IInv => NothingReaches
    BY <1>1 DEF NothingReaches
  <1>. QED BY <1>2, InductiveInvariant, PTL

\* While SetTraps has the addresses of LPT1 to LPT3 trapped, the BIOS data area
\* names these addresses, whichever adapters saved and restored its entries.
THEOREM BiosNamesTrapped == ASSUME Orderly PROVE Spec => []BiosTells
  <1>1. IInv => BiosTells
    BY DEF IInv
  <1>. QED BY <1>1, InductiveInvariant, PTL
=============================================================================
