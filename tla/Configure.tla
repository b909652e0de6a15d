----------------------------- MODULE Configure -----------------------------
(***************************************************************************)
(* What the driver asks of the USB when an adapter is started, stopped and *)
(* removed (sys/Usb2lpt.c): the configuration descriptor, read twice, the  *)
(* choice between the two alternate settings of a low-speed adapter, the   *)
(* pipes of the interface, and the pool blocks in between.  Programs that  *)
(* have the device open transfer meanwhile.  DevicePnp has the rest of the *)
(* life of an adapter and sees the whole of this as one step.              *)
(*                                                                         *)
(* USBD is external: a request succeeds as long as the adapter is plugged  *)
(* in; a new configuration makes the pipe handles of the old one invalid.  *)
(***************************************************************************)
EXTENDS Integers, Sequences, Functions

CONSTANTS
  Firmwares,  \* endpoint types of the alternate settings an adapter may have
  MaxStarts,  \* bound on the starts of the adapter
  Drops,      \* the first request for the descriptor may fail alone
  PoolFails,  \* ExAllocatePoolWithTag and USBD's allocation may fail
  Eager       \* programs transfer while the adapter is not started

Pipes == {0, 1}  \* the first writes, the second reads

NoSetting == "none"

ConfigureAssumption ==
  /\ \A fw \in Firmwares : fw \in Seq({"bulk", "interrupt"}) /\ Len(fw) \in {1, 2}
  /\ MaxStarts \in Nat /\ {Drops, PoolFails, Eager} \subseteq BOOLEAN

VARIABLES
  firmware,  \* what is plugged in
  vista,     \* IoIsWdmVersionAvailable(6,0)
  dead,      \* it has been unplugged
  state,     \* the PnP manager's view
  step,      \* where the handler is
  size,      \* the configuration descriptor's buffer holds it whole
  bus,       \* the adapter's configuration: its number, and the setting in use
  iface,     \* X->Interface, a copy of it; number 0: NULL
  pool,      \* ghost: blocks in use for descriptor, URB and interface
  pending,   \* pipes with a transfer of a program
  used,      \* ghost: configuration of the handle used last, and the bus's then
  stray,     \* ghost: memory was used that is not the driver's
  starts     \* bounds the behaviours

link == <<firmware, vista>>
confVars == <<link, dead, state, step, size, bus, iface, pool, pending, used, stray, starts>>

Off == [number |-> 0, setting |-> NoSetting]

Init ==
  /\ firmware \in Firmwares /\ vista \in BOOLEAN
  /\ dead = FALSE /\ state = "added" /\ step = "idle" /\ size = TRUE
  /\ bus = Off /\ iface = Off
  /\ pool = [descriptor |-> 0, urb |-> 0, iface |-> 0]
  /\ pending = {} /\ used = <<0, 0>> /\ stray = FALSE /\ starts = 0

\* A pool block is there, or it is not.
Memory == {TRUE, ~PoolFails}

\* CallUSBD: no answer comes from an adapter that is not there.
CallUSBD == {~dead}
-----------------------------------------------------------------------------
(* START: ConfigureDevice and SelectInterfaces *)

Fail ==
  /\ state' = "failed" /\ step' = "idle"
  /\ UNCHANGED <<bus, iface, stray>>

\* The buffer for the descriptor's head.
Start ==
  /\ step = "idle" /\ starts < MaxStarts /\ state \in {"added", "stopped"}
  /\ starts' = starts + 1
  /\ \E memory \in Memory :
       IF memory
         THEN /\ pool' = [pool EXCEPT !.descriptor = @ + 1] /\ step' = "head"
              /\ UNCHANGED <<state, bus, iface, stray>>
         ELSE Fail /\ UNCHANGED pool
  /\ UNCHANGED <<link, dead, size, pending, used>>

\* The head tells the length.  Whether it has come is not looked at: a length
\* that was in the memory before is taken for it.  A second buffer replaces
\* the first.
ReadHead ==
  /\ step = "head"
  /\ \E ok \in CallUSBD \cup (IF Drops THEN {FALSE} ELSE {}), memory \in Memory :
       /\ IF ok THEN size' = TRUE ELSE size' \in BOOLEAN
       /\ IF memory
            THEN step' = "all" /\ UNCHANGED <<state, pool, bus, iface, stray>>
            ELSE Fail /\ pool' = [pool EXCEPT !.descriptor = @ - 1]
  /\ UNCHANGED <<link, dead, pending, used, starts>>

Descriptors ==
  /\ step = "all"
  /\ \E ok \in CallUSBD :
       IF ok THEN step' = "select" /\ UNCHANGED <<state, pool, bus, iface, stray>>
             ELSE Fail /\ pool' = [pool EXCEPT !.descriptor = @ - 1]
  /\ UNCHANGED <<link, dead, size, pending, used, starts>>

Wanted == IF vista THEN "interrupt" ELSE "bulk"

\* Fault: always the first alternate setting.
FirstSetting == firmware[1]

\* The second alternate setting, if there is one and it is the one wanted.
AlternateSetting ==
  IF Len(firmware) = 2 /\ firmware[2] = Wanted THEN firmware[2] ELSE firmware[1]

\* The settings are looked for as far as the descriptor says it goes; the URB
\* that USBD allocates is neither checked nor ever freed; the interface with
\* its pipes is copied to a block that is not checked either and whose address
\* replaces that of the block of an earlier start.
SelectInterfaces ==
  /\ step = "select"
  /\ \E ok \in CallUSBD, urb \in Memory, block \in Memory :
       LET copied == urb /\ ok /\ block IN
         /\ stray' = (stray \/ ~size \/ ~urb \/ (ok /\ ~block))
         /\ bus' = IF urb /\ ok
                   THEN [number |-> starts, setting |-> AlternateSetting] ELSE bus
         /\ iface' = IF copied THEN bus' ELSE iface
         /\ pool' = [descriptor |-> pool.descriptor - 1,
                     urb |-> IF urb THEN pool.urb + 1 ELSE pool.urb,
                     iface |-> IF copied THEN pool.iface + 1 ELSE pool.iface]
         /\ state' = IF copied THEN "running" ELSE "failed"
  /\ step' = "idle"
  /\ UNCHANGED <<link, dead, size, pending, used, starts>>
-----------------------------------------------------------------------------
(* STOP and REMOVE *)

\* StopDevice: back to no configuration, if there is memory for the URB; what
\* is pending ends with it.  X->Interface stays.
StopDevice ==
  /\ step = "idle" /\ state = "running"
  /\ state' = "stopped"
  /\ \E ok \in CallUSBD, memory \in Memory :
       IF ok /\ memory THEN bus' = Off /\ pending' = {} ELSE UNCHANGED <<bus, pending>>
  /\ UNCHANGED <<link, dead, step, size, iface, pool, used, stray, starts>>

\* HandleRemoveDevice: no new transfers.
Remove ==
  /\ step = "idle" /\ state \notin {"removing", "removed"}
  /\ state' = "removing"
  /\ step' = IF iface.number = 0 THEN "delete" ELSE "abort"
  /\ UNCHANGED <<link, dead, size, bus, iface, pool, pending, used, stray, starts>>

\* Fault: only the first pipe.
AbortFirst ==
  /\ step = "abort" /\ step' = "delete"
  /\ pending' = pending \ {0}
  /\ UNCHANGED <<link, dead, state, size, bus, iface, pool, used, stray, starts>>

\* AbortPipe, for each pipe.
AbortPipe ==
  /\ step = "abort" /\ step' = "delete"
  /\ \E spared \in IF PoolFails THEN SUBSET Pipes ELSE {{}} : pending' = pending \cap spared
  /\ UNCHANGED <<link, dead, state, size, bus, iface, pool, used, stray, starts>>

\* RemoveDevice.
Delete ==
  /\ step = "delete" /\ step' = "idle"
  /\ state' = "removed"
  /\ pool' = IF iface.number = 0 THEN pool ELSE [pool EXCEPT !.iface = @ - 1]
  /\ UNCHANGED <<link, dead, size, bus, iface, pending, used, stray, starts>>
-----------------------------------------------------------------------------
(* Programs and the plug *)

\* OutIn, AbortPipe of a program: with the handles of X->Interface, if there
\* are any.
Transfer(p) ==
  /\ state \notin {"added", "removing", "removed"} /\ ~dead
  /\ state # "running" \/ step # "idle" => Eager
  /\ iface.number # 0
  /\ used' = <<iface.number, bus.number>>
  /\ pending' = pending \cup {p}
  /\ UNCHANGED <<link, dead, state, step, size, bus, iface, pool, stray, starts>>

Done(p) ==
  /\ p \in pending /\ pending' = pending \ {p}
  /\ UNCHANGED <<link, dead, state, step, size, bus, iface, pool, used, stray, starts>>

Unplug ==
  /\ ~dead /\ dead' = TRUE /\ pending' = {}
  /\ UNCHANGED <<link, state, step, size, bus, iface, pool, used, stray, starts>>

Next ==
  \/ Start \/ ReadHead \/ Descriptors \/ SelectInterfaces
  \/ StopDevice \/ Remove \/ AbortPipe \/ Delete
  \/ \E p \in Pipes : Transfer(p) \/ Done(p)
  \/ Unplug

Spec == Init /\ [][Next]_confVars
-----------------------------------------------------------------------------
\* Whichever order an adapter's firmware has its settings in, a started adapter
\* uses the one that suits the system, if it has it, and the driver's copy of
\* the interface is of the setting in use.
SettingFits ==
  state = "running" =>
    /\ Wanted \in Range(firmware) => iface.setting = Wanted
    /\ iface = bus

\* No transfer is started with a handle of an earlier configuration; none is
\* pending, and no buffer or interface kept, when the adapter is deleted.
Clean ==
  /\ used[1] = used[2]
  /\ state = "removed" => pending = {} /\ pool.descriptor = 0
  /\ state = "removed" /\ starts <= 1 => pool.iface = 0

\* A started adapter works as the driver thinks it does, however the starts, the
\* transfers and the unplugging interleave, and no memory is used that is not there.
StartHolds == SettingFits /\ Clean /\ ~stray
=============================================================================
