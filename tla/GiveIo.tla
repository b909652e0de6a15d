------------------------------- MODULE GiveIo -------------------------------
(***************************************************************************)
(* giveio64: the driver that opens the ports to user programs              *)
(* (giveio.c, amd64.asm): when it is loaded, and again whenever a program  *)
(* opens it, every processor gets a longer task state segment, which then  *)
(* holds a permission map; EachProcessor has each one do that for itself.  *)
(* The descriptor in the GDT shows the old length again afterwards.        *)
(***************************************************************************)
EXTENDS Integers, FiniteSets

CONSTANTS
  Cpus,        \* processors, numbers
  Programs,    \* that open the driver
  Taken,       \* names that another driver has already
  NoMemory,    \* there may be no memory for the DPCs
  Preempt,     \* a thread may change processors in EachProcessor
  MaxCalls     \* bound on loads, opens and sleeps

Driver == "driver"               \* the thread of DriverEntry and GiveioUnload

GiveIoAssumption ==
  /\ Cpus \subseteq Nat /\ Cpus # {} /\ MaxCalls \in Nat /\ Driver \notin Programs
  /\ {NoMemory, Preempt} \subseteq BOOLEAN /\ Taken \subseteq {"giveio", "dlportio"}

Threads == Programs \cup {Driver}
Names == {"giveio", "dlportio"}

VARIABLES
  debugger,   \* KdDebuggerNotPresent is 0
  driver,     \* out, entry, loaded, unload
  device,     \* the device object exists
  links,      \* DOS names of the driver
  long,       \* processors whose task register has the long segment
  gdt,        \* processors whose descriptor shows it
  job,        \* EachProcessor of each thread: [at, on, next, left, cpu]
  dpcs,       \* queued calls: <<thread, processor>>
  opened,     \* programs that have opened the driver since access was last lost
  calls

ioVars == <<debugger, driver, device, links, long, gdt, job, dpcs, opened, calls>>

Idle(c) == [at |-> "idle", on |-> FALSE, next |-> 0, left |-> {}, cpu |-> c]

Init ==
  /\ debugger \in BOOLEAN
  /\ driver = "out" /\ device = FALSE /\ links = {} /\ long = {} /\ gdt = {}
  /\ job = [t \in Threads |-> Idle(CHOOSE c \in Cpus : TRUE)]
  /\ dpcs = {} /\ opened = {} /\ calls = 0

\* The processor of a thread that begins.
Begin(t, on) ==
  \E c \in Cpus, memory \in {TRUE, ~NoMemory} :
    job' = [job EXCEPT ![t] = [at |-> IF memory THEN "loop" ELSE "done", on |-> on,
                               next |-> 0, left |-> Cpus, cpu |-> c]]
-----------------------------------------------------------------------------
(* The driver *)

\* IoCreateDevice fails if an earlier load has left the device.
DriverEntry ==
  /\ driver = "out" /\ calls < MaxCalls /\ ~device
  /\ calls' = calls + 1
  /\ driver' = "entry" /\ device' = TRUE
  /\ Begin(Driver, TRUE)
  /\ UNCHANGED <<debugger, links, long, gdt, dpcs, opened>>

\* The names, one after the other: without one of them the driver is not loaded.
EntryEnds ==
  /\ driver = "entry" /\ job[Driver].at = "done"
  /\ links' = CASE "giveio" \in Taken -> links
                [] "giveio" \notin Taken /\ "dlportio" \in Taken -> links \cup {"giveio"}
                [] OTHER -> Names
  /\ driver' = IF Taken = {} THEN "loaded" ELSE "out"
  /\ job' = [job EXCEPT ![Driver].at = "idle"]
  /\ UNCHANGED <<debugger, device, long, gdt, dpcs, opened, calls>>

\* Once nobody is in OnCreate.
GiveioUnload ==
  /\ driver = "loaded" /\ \A p \in Programs : job[p].at = "idle"
  /\ driver' = "unload" /\ links' = {} /\ opened' = {}
  /\ Begin(Driver, FALSE)
  /\ UNCHANGED <<debugger, device, long, gdt, dpcs, calls>>

UnloadEnds ==
  /\ driver = "unload" /\ job[Driver].at = "done"
  /\ driver' = "out" /\ device' = FALSE
  /\ job' = [job EXCEPT ![Driver].at = "idle"]
  /\ UNCHANGED <<debugger, links, long, gdt, dpcs, opened, calls>>

OnCreate(p) ==
  /\ driver = "loaded" /\ links # {} /\ job[p].at = "idle" /\ calls < MaxCalls
  /\ calls' = calls + 1
  /\ Begin(p, TRUE)
  /\ UNCHANGED <<debugger, driver, device, links, long, gdt, dpcs, opened>>

CreateEnds(p) ==
  /\ job[p].at = "done"
  /\ opened' = opened \cup {p}
  /\ job' = [job EXCEPT ![p].at = "idle"]
  /\ UNCHANGED <<debugger, driver, device, links, long, gdt, dpcs, calls>>

\* The processors load their task registers anew.
Sleep ==
  /\ driver = "loaded" /\ calls < MaxCalls /\ \A t \in Threads : job[t].at = "idle"
  /\ calls' = calls + 1
  /\ long' = gdt /\ opened' = {}
  /\ UNCHANGED <<debugger, driver, device, links, gdt, job, dpcs>>
-----------------------------------------------------------------------------
(* EachProcessor *)

\* Fault: the high byte of the limit stays.
SetTSSPlain(c, on) ==
  /\ long' = IF on THEN long \cup {c} ELSE long \ {c}
  /\ gdt' = long'

\* SetIOPermissionMap, GetTSS and SetTSS on processor c: what has been loaded is taken
\* back in the GDT, unless there is a debugger.
SetTSS(c, on) ==
  /\ long' = IF on THEN long \cup {c} ELSE long \ {c}
  /\ gdt' = IF on /\ debugger THEN gdt \cup {c} ELSE gdt \ {c}

\* Active processors in the order of their numbers.
Visit(t) ==
  /\ job[t].at = "loop"
  /\ \E i \in Cpus : i >= job[t].next /\ (\A c \in Cpus : c >= job[t].next => i <= c) /\
       IF i = job[t].cpu
         THEN job' = [job EXCEPT ![t].at = "here", ![t].next = i + 1] /\ UNCHANGED dpcs
         ELSE /\ dpcs' = dpcs \cup {<<t, i>>}
              /\ job' = [job EXCEPT ![t].next = i + 1]
  /\ UNCHANGED <<debugger, driver, device, links, long, gdt, opened, calls>>

\* EachProcessorDpc clears the bit of the processor that it runs on, which is another
\* one if the thread has moved.
Here(t) ==
  /\ job[t].at = "here"
  /\ \E c \in IF Preempt THEN Cpus ELSE {job[t].cpu} :
       /\ SetTSS(c, job[t].on)
       /\ job' = [job EXCEPT ![t].at = "loop", ![t].left = @ \ {c}, ![t].cpu = c]
  /\ UNCHANGED <<debugger, driver, device, links, dpcs, opened, calls>>

EachProcessorDpc(t, c) ==
  /\ <<t, c>> \in dpcs
  /\ dpcs' = dpcs \ {<<t, c>>}
  /\ SetTSS(c, job[t].on)
  /\ job' = [job EXCEPT ![t].left = @ \ {c}]
  /\ UNCHANGED <<debugger, driver, device, links, opened, calls>>

\* while (a);
Done(t) ==
  /\ job[t].at = "loop" /\ \A c \in Cpus : c < job[t].next
  /\ job[t].left = {}
  /\ job' = [job EXCEPT ![t].at = "done"]
  /\ UNCHANGED <<debugger, driver, device, links, long, gdt, dpcs, opened, calls>>

Next ==
  \/ DriverEntry \/ EntryEnds \/ GiveioUnload \/ UnloadEnds \/ Sleep
  \/ \E p \in Programs : OnCreate(p) \/ CreateEnds(p)
  \/ \E t \in Threads : Visit(t) \/ Here(t) \/ Done(t)
                        \/ \E c \in Cpus : EachProcessorDpc(t, c)

Spec == Init /\ [][Next]_ioVars
-----------------------------------------------------------------------------
\* A program that has opened the driver reaches the ports from every processor; a
\* driver that is not loaded leaves neither access nor names nor its device; no thread
\* waits for a processor that nobody has called; and the GDT looks untouched while no
\* debugger runs.
AccessAsOpened ==
  /\ opened # {} => long = Cpus
  /\ driver = "out" => long = {} /\ gdt = {} /\ links = {} /\ ~device
  /\ \A t \in Threads : job[t].at = "loop" /\ job[t].next > 0 =>
       \A c \in job[t].left : c >= job[t].next \/ <<t, c>> \in dpcs
  /\ ~debugger => gdt = {}
=============================================================================
