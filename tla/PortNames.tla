----------------------------- MODULE PortNames -----------------------------
(***************************************************************************)
(* The names of an adapter (sys/Usb2lpt.c): AddDevice gives it the number  *)
(* that the registry has for it (GetPortIndex) or else the first for which *)
(* a device object \Device\ParallelN can be created (CreateDeviceObject),  *)
(* links \DosDevices\LPT(N+1) to it and writes the number to the registry  *)
(* (SetPortName); RemoveDevice deletes both names.  Other ports of the     *)
(* system come and go between the steps.                                   *)
(***************************************************************************)
EXTENDS Integers, FiniteSets, FiniteSetsExt

CONSTANTS
  Adapters,
  Limit,       \* MAX_VLPT_DEVICES
  LinkOnly,    \* others may have a link LPTn without a device \Device\Paralleln
  Moved,       \* the registry may already have a number for an adapter
  NoMemory     \* the strings of the names may find no memory

Numbers == 0 .. Limit - 1
Bios == 0 .. 2

Other == "other"
Nobody == "nobody"

PortNamesAssumption ==
  /\ Limit \in Nat \ {0} /\ {LinkOnly, Moved, NoMemory} \subseteq BOOLEAN
  /\ {Other, Nobody} \cap Adapters = {}

VARIABLES
  nt,        \* built with NTDDK: the BIOS data area is not looked at
  devices,   \* owner of each \Device\ParallelN
  links,     \* to whom each \DosDevices\LPT(N+1) leads
  others,    \* ports of others: a port, only a link; on 9x one with a BIOS entry only
  step,      \* where AddDevice is for an adapter, and with which number
  instance,  \* X->instance
  reg,       \* the adapter's key: number of PortName, UserCfg is there
  lowest,    \* ghost: least number that was free all the time of the search
  starts     \* adapters plugged in so far

nameVars == <<nt, devices, links, others, step, instance, reg, lowest, starts>>

None == -1
Out == [at |-> "out", n |-> None]

\* The system sets PortName before the driver is called the first time.
Init ==
  /\ devices = [n \in Numbers |-> Nobody] /\ links = [n \in Numbers |-> Nobody]
  /\ nt \in BOOLEAN
  /\ others \in [Numbers -> {"none"} \cup (IF nt THEN {} ELSE {"bios"})]
  /\ \A n \in Numbers \ Bios : others[n] = "none"
  /\ step = [a \in Adapters |-> Out] /\ instance = [a \in Adapters |-> None]
  /\ reg \in [Adapters -> IF Moved THEN [port : Numbers, cfg : BOOLEAN]
                                   ELSE [port : {Limit - 1}, cfg : {FALSE}]]
  /\ lowest = None /\ starts = 0
-----------------------------------------------------------------------------
FreeNumbers == {n \in Numbers : devices[n] = Nobody}

\* A number that the BIOS gives to another port is left out on 9x.
Skipped(n) == ~nt /\ n \in Bios /\ others[n] = "bios"

\* AddDevice is called for one adapter after the other.
Busy == \E a \in Adapters : step[a].at \notin {"out", "present", "failed"}

\* Fault: PortName counts whether or not the adapter has been set up.
AnyPortIndex(a) == reg[a].port

\* GetPortIndex: only what belongs to an adapter with a configuration.
GetPortIndex(a) == IF reg[a].cfg THEN reg[a].port ELSE None

AddDevice(a) ==
  /\ step[a].at = "out" /\ ~Busy /\ starts < 3
  /\ starts' = starts + 1
  /\ step' = [step EXCEPT ![a] =
       IF GetPortIndex(a) \in FreeNumbers
         THEN [at |-> "link", n |-> GetPortIndex(a)] ELSE [at |-> "try", n |-> 0]]
  /\ devices' = IF GetPortIndex(a) \in FreeNumbers
                THEN [devices EXCEPT ![GetPortIndex(a)] = a] ELSE devices
  /\ lowest' = Min({n \in FreeNumbers : ~Skipped(n)} \cup {Limit})
  /\ UNCHANGED <<nt, links, others, instance, reg>>

\* IoCreateDevice for one number after the other.
TryNext(a) ==
  LET n == step[a].n
  IN  /\ step[a].at = "try"
      /\ IF n \in FreeNumbers /\ ~Skipped(n)
           THEN /\ devices' = [devices EXCEPT ![n] = a]
                /\ step' = [step EXCEPT ![a] = [at |-> "link and write", n |-> n]]
           ELSE /\ step' = [step EXCEPT ![a] =
                     IF n < Limit - 1 THEN [at |-> "try", n |-> n + 1]
                                      ELSE [at |-> "failed", n |-> None]]
                /\ UNCHANGED devices
  /\ UNCHANGED <<nt, links, others, instance, reg, lowest, starts>>

\* DevLink needs memory for the name; IoCreateUnprotectedSymbolicLink a name that
\* is free.  Nobody looks whether there is a link.
Linked(a, n, memory) ==
  IF memory /\ links[n] = Nobody THEN [links EXCEPT ![n] = a] ELSE links

\* SetPortName, for a number that AddDevice has chosen.
SetPortName(a, n) ==
  IF step[a].at = "link and write" THEN [reg EXCEPT ![a].port = n] ELSE reg

\* The link with the device object's name; then the number is the adapter's.
Link(a) ==
  LET n == step[a].n
  IN  /\ step[a].at \in {"link", "link and write"}
      /\ \E memory \in {TRUE, ~NoMemory} : links' = Linked(a, n, memory)
      /\ instance' = [instance EXCEPT ![a] = n]
      /\ reg' = SetPortName(a, n)
      /\ step' = [step EXCEPT ![a] = [at |-> "present", n |-> n]]
      /\ lowest' = None
  /\ UNCHANGED <<nt, devices, others, starts>>

\* HandleRemoveDevice saves UserCfg; RemoveDevice deletes the link with the name.
RemoveDevice(a) ==
  /\ step[a].at = "present"
  /\ reg' = [reg EXCEPT ![a].cfg = TRUE]
  /\ links' = [links EXCEPT ![instance[a]] = Nobody]
  /\ devices' = [devices EXCEPT ![instance[a]] = Nobody]
  /\ step' = [step EXCEPT ![a] = Out] /\ instance' = [instance EXCEPT ![a] = None]
  /\ UNCHANGED <<nt, others, lowest, starts>>
-----------------------------------------------------------------------------
(* Other ports *)

OtherArrives(n, kind) ==
  /\ others[n] = "none" /\ links[n] = Nobody
  /\ kind = "port" => devices[n] = Nobody
  /\ kind = "link" => LinkOnly
  /\ others' = [others EXCEPT ![n] = kind]
  /\ links' = [links EXCEPT ![n] = Other]
  /\ devices' = IF kind = "port" THEN [devices EXCEPT ![n] = Other] ELSE devices
  /\ lowest' = IF kind = "port" /\ n = lowest THEN Limit ELSE lowest
  /\ UNCHANGED <<nt, step, instance, reg, starts>>

OtherLeaves(n) ==
  /\ others[n] \in {"port", "link"}
  /\ others' = [others EXCEPT ![n] = "none"]
  /\ links' = [links EXCEPT ![n] = IF @ = Other THEN Nobody ELSE @]
  /\ devices' = [devices EXCEPT ![n] = IF @ = Other THEN Nobody ELSE @]
  /\ UNCHANGED <<nt, step, instance, reg, lowest, starts>>

Next ==
  \/ \E a \in Adapters : AddDevice(a) \/ TryNext(a) \/ Link(a) \/ RemoveDevice(a)
  \/ \E n \in Numbers : OtherLeaves(n) \/ \E kind \in {"port", "link"} : OtherArrives(n, kind)

Spec == Init /\ [][Next]_nameVars
-----------------------------------------------------------------------------
\* Programs that open LPTn reach the port with that number: an adapter's link is
\* its own, and the links of other ports outlive the adapters.
LinksBelong ==
  /\ \A n \in Numbers : others[n] \in {"port", "link"} => links[n] = Other
  /\ \A a \in Adapters : step[a].at = "present" => links[instance[a]] = a

\* On 9x no adapter takes a port of the BIOS's away.
BiosKept == \A a \in Adapters : step[a].at = "present" => others[instance[a]] # "bios"

\* An adapter that was never set up gets the first number that is free.
LowestFirst ==
  \A a \in Adapters :
    step[a].at \in {"link", "link and write"} /\ ~reg[a].cfg => step[a].n <= lowest

NamesKept == LinksBelong /\ BiosKept /\ LowestFirst
=============================================================================
