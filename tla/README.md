# usb2lpt: a TLA+ verification project

USB2LPT is a parallel port behind a USB adapter. Its Windows driver traps the
IN and OUT instructions of old programs, turns each into one or two command
bytes, sends them over a bulk (or interrupt) pipe to a microcontroller, and the
microcontroller drives the pins of a DB25 plug. This project models the parts
of that chain where things happen at the same time, get cut in two, overflow or
come back too late; TLC checks the models on small instances and TLAPS proves
the results that matter most for every value of the constants.

Abbreviations for paths used below: `Usb2lpt.c`, `Usb2lpt.h` and `Vlpt.c` are
in `src/usb2lpt/src/sys/`, `usb2lpt6.c` is
`src/usb2lpt/src/firmware/USB2LPT6/usb2lpt6.c`, `usbdrv.c` is
`src/usb2lpt/src/firmware/usbdrv/usbdrv.c`, `prop.cpp` and `mon.cpp` are in
`src/usb2lpt/src/dll/`, `Queue.cpp`, `Redir.cpp`, `inpout32.cpp` and
`LptGetAddr.cpp` in `src/inpout32-hs/src/`, `giveio.c` is in `src/giveio64/src/`,
`PortTalk.cpp` in `src/PortTalk/src/`.

## 1. Inventory

### Driver

| Part | State | Operations | Interacts with | Hard behaviour | Correct when |
|---|---|---|---|---|---|
| Access path (`HandleOut`, `HandleIn`, `FlushBuffer`, `WaitForUrbComplete`, `TimerDpc`, IOCTL `OutIn`) | `buffer`, `bfill`, mutex `bmutex`, event `ev`, `mirror`, write-cache timer and DPC | OUT and IN of 1, 2, 4 bytes, IOCTL with ready command bytes, timer DPC, change of settings | called by the trap handler and by `ProcessIOCTL`; calls `OutIn`; `OutInFertig` resets `bfill` and sets `ev` | several callers on one buffer, a DPC without the mutex, a completion that writes the same variables, held bytes, caches | the adapter sees each OUT once and in order, an IN sees the OUTs before it, each access returns, the buffer never overflows and never changes under a transfer |
| Asynchronous jobs (`OutIn`, `OutInFertig`, `AsyncCallUSBDJob`) | the `JOB`: counter `ct`, two IRPs, status | allocate, submit one or two transfers, complete | USB bus driver below, access path above | completion of the first transfer while the second is submitted; failing allocations; a refused IRP | one answer per call, after the last transfer; nothing used after it is freed, nothing leaked |
| Table of trapped addresses (`AllocDR`, `MakeSpace`, `FreeDR`, `SetTraps`, `FreeTraps`, `setdebreg`, `updatedebreg`) | `Usage`, `X4DR`, `UsageBits`, the debug registers, per device `ac.trapped`, `ac.debregs`, settings | trap and free address blocks at start, stop, change of settings, edit in the property sheet | all devices share the table; the trap handler reads it at any moment | table full: entries pushed down or out; two devices that want one address; handlers of two devices at once | the arrays agree, one trap per address, a trap leads to a device configured for it, no stopped device in the table, debug registers as the table says |
| Trap handling and emulation (`NewInt1`, `IOCallback`, `HandleOutIn`) | DR6, `HasTrap`, `Usage`, `X4DR` | guess the instruction before the trap, its width and device, call `HandleIn` or `HandleOut` | table, access path, other INT 1 handlers | three systems with a way of their own, breakpoints that hit together, widths and prefixes | the device meant gets the access, as wide as it was |
| Patched kernel functions (`BlockSiblingsAndCall`, `Patch`, `Unpatch`) | the first bytes of `READ_PORT_UCHAR` and so on | hold all other processors, overwrite, let them go | every program that uses the functions | processors inside the bytes; DPCs that write to the caller's stack | nobody runs half-written or unloaded code |
| Debug registers (`AllocDR`, `FreeDR`, `EachProcessor`, `NewInt1`, `NewInt2E`, `NewSysEnter`, `SetDebDpc`) | each processor's DR0-3, DR7 and interrupt table; `Usage`, `X4DR`, `UsageBits` | have every processor run a routine, look up a trapped access, load the registers again at a system call or by a timer | table, access path, other users of the registers | several processors see the table in the middle of a change; waiting at DISPATCH_LEVEL; registers stolen | a trapped access finds its device; hooks and registers come and go together; calls return |
| Life cycle (`AddDevice`, `DispatchPnp`, `StartDevice`, `StopDevice`, `RemoveDevice`, remove lock, `Create`, `Close`, `ProcessIOCTL`) | flags `f`, remove lock, timer, pool blocks, entry in the BIOS data area | PnP requests, IOCTLs | everything above | removal against accesses, timer and pending IOCTLs; a start that fails half-way | nothing runs on or leads to a removed device; removal ends; IOCTLs are answered |
| Start at the USB (`ConfigureDevice`, `SelectInterface`, `AbortPipes`) | descriptors, `Interface`, pipe handles | read the descriptor twice, choose the alternate setting, open pipes | programs that transfer meanwhile | adapters with one and two settings, a request that fails, a device pulled out | the driver's view is the bus's; no freed memory is used |
| Kernel requests (`ProcessIntIoctl`, `DispatchSystemControl`, `DispatchPower`, PnP queries) | WMI counters, remove lock | answer or pass on | life cycle | many at once while the adapter goes and the driver is unloaded | each answered once, counters right, power requests go on |
| Names (`AddDevice`, `CreateDeviceObject`, `GetPortIndex`, `SetPortName`, `RemoveDevice`) | device objects, links LPTn, registry | take a number, name it, give it back | other ports, the BIOS | device, link and registry are three steps | LPTn leads to the port with that number; no other's is taken |

### Firmware (ATmega, USB2LPT6)

| Part | State | Operations | Interacts with | Hard behaviour | Correct when |
|---|---|---|---|---|---|
| Packet parser (`ProcessInOut`) | `PendingByte`, loop counter `len` | one call per OUT packet | endpoint handlers, register routines | commands cut by the end of a packet, at any place and repeatedly | packets may be cut anywhere without effect on the commands run |
| FIFO modes (`PutFifo`, `GetFifo`, `SppXfer`, `EcpXfer`, `out0/2/400/402`, bit commands) | the ring, its indices, the bits "empty" and "full" of `ECR`, the mode, direction, handshake lines | host commands in `usbPoll`, transfers in the main loop | the peripheral at the plug | the peripheral moves between two looks at its lines; full, empty and wrapping ring; two-phase handshakes over many loop turns | a bounded queue; each word handed over once and in order; the FIFO drains |
| Register routines, EPP cycles | `data_byte`, `DCR`, `ECR_Bits`, `Feature`, PORT and DDR registers | `in0` .. `in407`, `out0` .. `out407`, bit commands, `epp_io` | parser, the lines of the plug | twelve commands that each recompute part of the lines; a peripheral that answers late or never | lines are what the registers promise; no glitch on others; the time-out bit tells of every failed cycle |
| V-USB and the endpoints (`usbPoll`, `usbProcessRx`, `usbDriverSetup`, `usbSetInterrupt`, `usbFunctionSetup/Read/Write/WriteOut`) | one receive buffer, one packet ready to send per endpoint, toggles, `ReplyBuf` and its two indices | control requests, HID reports, packets of endpoint 1 | interrupt routine, parser, host | lost acknowledgements, a transfer given up with its reply standing ready, both endpoints on one buffer | a packet is parsed once; transfers move what was asked for; nothing is refused for ever; answers are not mixed up |
| Boot loader (`BL.c`) and its tool (`main.cpp`) | flash, page buffer, EEPROM byte; the tool's block and count of tries | HID reports with image data; retries | each other | power lost or transfer broken in the middle of a page | no part of a firmware runs; a reported success is one; the tool ends |

### Host programs

| Part | State | Operations | Hard behaviour | Correct when |
|---|---|---|---|---|
| `inpout32-hs`: queues (`Queue.cpp`) | collected commands and answers, two mirrors, the printer's data buffer | `LptOut`, `LptIn`, `LptDelay`, `LptFlush`, `LptInOut`, `LptPass` on four kinds of port | streams cut into HID reports; three ways an OUT can go and two an IN is answered; failing transfers | OUTs are executed once and in order, reads see the OUTs before them |
| `inpout32-hs`: redirection (`Redir.cpp`, `inpout32.cpp`) | table of ports, driver handle, the Windows service | `Out32`, `Inp32`, DOS aliases, loading and unloading | addresses translated up to three times; several processes share a service | an access ends at the port it is meant for; the driver is stopped by the right one |

| `inpout32-hs`: `CatchIo` (`inpout32.cpp`) | hooks in a program, a debugger's loop | emulate IN, OUT, reads of 40:08 and of the version | exceptions of the program's own, repetitions and prefixes, failed injection | the program runs as on a machine with the ports |
| `inpout32-hs`: search for ports (`LptGetAddr.cpp`) | the list of addresses, the helper's window | PnP manager, three registries, a 64-bit helper | processes that share a helper; gaps, duplicates | each LPTn's address is right |
| `inpout32-hs`: physical memory (`inpout32.cpp`) | mappings of the kernel driver, copies on 9x | map, read, write, unmap, repair the BIOS data area | a copy here, a view there | memory holds what was written last; nothing stays mapped |
| `giveio64` | task state segment and GDT of each processor | load, unload, open | DPCs on all processors; a failed load | whoever has opened it reaches the ports everywhere; nothing is left |
| PortTalk replacement | the device handle | `inport`, `outport` | request and answer are two calls | reads tell what the port shows |
| Property sheet (`prop.cpp`) | data shared by the pages, settings, counters, firmware | edit, apply, reset counters, Extras, firmware update, self-test | pages counted in two ways; a device that goes and comes | settings fit; counters and firmware are never mixed up; shared data are freed once; the self-test's verdict is right |
| Monitor (`mon.cpp`) | what was read, a mirror of what was written, edit timers | poll, paint, click, type | another program and a peripheral change the lines | circles are levels, the mirror is what was written |

`fw-utils` (burner, eraser; its short-circuit test is the one of `prop.cpp`), the
Java and Delphi bindings and the drivers of 2005 are not modelled. The other
boards' firmware (8051: USB2LPT, USB2LPT2; ATmega: USB2LPT5, UL12) speaks the
same protocol. `PROJECT.json` lists every component with its status.

## 2. Plan

1. **(done)** The way of a byte: `LptPort` and `CommandStream` (what a port and
   its command stream promise), `PortIO` (the access path), `OutIn` with
   `JobLife` (the jobs), `ProcessInOut` (the parser).
2. **(done)** `TrapTable` (who gets which address); `EcpPort` with `WordQueue`
   (the FIFO modes).
3. **(done)** Proofs about `PortIO`, `OutIn` and `EcpPort`; later about
   `BootLoader`, `DevicePnp`, `UsbDevice`, `DebugTrap`, the parts of the
   adapter and of the driver that items 7 and 8 brought, the host library, and
   `PortLines` with `SelfTest`.
4. **(done)** The driver's life: `DevicePnp` (PnP, remove lock, IOCTLs, BIOS
   data area) and `DebugTrap` (debug registers on several processors).
5. **(done)** The device's USB side: `UsbDevice`; `BootLoader` with its tool.
6. **(done)** The host library: `LptQueue`, `Inpout32`, `CatchIo`,
   `LptGetAddr`, `PhysMem`; `GiveIo` and `PortTalk` beside it.
7. **(done)** The lines of the plug: `PortLines` (register routines, EPP), with
   the programs that look at them, `SelfTest` and `Monitor`; `PropSheet`.
8. **(done)** The rest of the driver: `Configure`, `Requests`, `PortNames`,
   `CodePatch`, `PortAccess`.
9. What would come next: transfer errors from the pipes up to the caller
   (`PortIO` over `JobLife` with a failing adapter), EEPROM write-back and
   calibration, the hook list of the VDM, and inductive invariants for what
   section 6 lists as only model-checked, `LptQueue` first.

`PortIO` composes `CommandStream` (the adapter as the driver sees it) with the
driver's buffer, pipes and callers, and implements `LptPort`. `ProcessInOut`
implements `CommandStream` packet by packet: `PortIO` may therefore feed it whole
transfers. `OutIn` implements `JobLife`: `PortIO` starts and ends jobs in that
way. `EcpPort` implements `WordQueue` and is what the registers +0 and +400h are
in the FIFO modes. The three views of the trap table divide the work:
`TrapTable` says which address gets which slot, `DebugTrap` how the slots reach
the processors, `DevicePnp` when a device has traps at all. `UsbDevice` hands
packets to the parser as whole (`ProcessInOut`'s business is what is in them),
`LptQueue` is what stands behind the queues that `Inpout32` redirects to, and
its adapter takes commands as `CommandStream` does. `SelfTest` and `Monitor` extend
`PortLines`: the test and the page work on the very lines whose promises are
checked. `Configure` refines what is one step of a start in `DevicePnp`,
`PortAccess` what is one access in `PortIO`.

Components that share no state may be checked in one run, of a module that extends
one of them and instantiates the others (`MCAdapter`, `MCDriver`, `MCFirmware`,
`MCInpout32`, `MCLptQueue`): the variable `part` is chosen at the start, only that
component moves, and the others stay in one initial state. So the number of states
is a sum and not a product, and nothing is lost, as they share nothing. Fairness is
asked of the part that moves only, or of parts that can do nothing where they
begin. Their assumptions are restated there as `ASSUME`s.

## 3. Modules

`PROJECT.json` ("map") gives the source lines of each definition.

| Module | Stands for | Notes |
|---|---|---|
| `LptPort` | the port the driver emulates | `Post` an OUT, the port `Execute`s posted OUTs in order, an IN takes effect between `Begin` and `Finish` and sees what was posted before it began; a cached register may be answered from the OUTs posted |
| `CommandStream` | the adapter's command bytes | a machine fed byte by byte: `Feed(machine, bytes)` as a fold |
| `PortIO` | `HandleOut`, `HandleIn`, `FlushBuffer`, `TimerDpc`, IOCTL `OutIn`, `OutInFertig`'s effect | one label of `pc` per point where a thread can be preempted; DPC and completion are one step each, since they run at DISPATCH_LEVEL; the pipes serve their transfers in order |
| `OutIn` | `OutIn` and `OutInFertig` themselves | pool blocks are reused, so a use after free meets a new job; `Refusal` says what a lower driver that refuses an IRP has done with it |
| `JobLife` | what `OutIn` promises | |
| `ProcessInOut` | the parser | one step per turn of its loop; ghosts record bytes received, commands run and answers |
| `TrapTable` | the table and its users | `AllocDR` and `FreeDR` are two steps, "find the slot" and "use it"; a handler is a list of tasks |
| `EcpPort` | the FIFO modes | one step per handshake phase, host commands between two loop turns, the peripheral between any two steps |
| `WordQueue` | what the ring promises | |
| `UsbDevice` | V-USB and the endpoint functions of `usb2lpt6.c` | each half of `usbPoll` is one step, since the interrupt routine refuses everything while a packet waits; the host is the bus, with toggles, repetitions and given-up transfers |
| `BootLoader` | `BL.c` and the tool | flash counted in words; the page buffer keeps what was filled first, as the controller does; a broken transfer, or loss of power at any moment |
| `DevicePnp` | PnP, remove lock, IOCTLs, BIOS data area | one step per handler, `StartDevice` and `HandleRemoveDevice` cut where others can run; an access is lock, mutex, transfer, end |
| `DebugTrap` | debug registers of several processors | `AllocDR` and `FreeDR` in five and six steps; a routine for `EachProcessor` is run at once on the caller's processor and queued for the others |
| `CodePatch` | `BlockSiblingsAndCall` and what it calls | the DPCs' variables live on the caller's stack, and the step in which it returns says so; the bytes are written in two steps |
| `PortAccess` | an access through INT 1, I/O permission map or patched function | one access is one step; the handler decides by two bytes before it, DR6 and the table |
| `Configure` | descriptors, alternate settings, pipes | handles carry the number of the configuration they belong to; a transfer with another one is `stray` |
| `Requests` | internal IOCTLs, WMI, power, PnP queries | each request has its own step; `++` of a counter is two steps |
| `PortNames` | device objects, links, registry | two adapters and other ports in a small set of numbers |
| `PortLines` | the register routines of `usb2lpt6.c`, EPP cycles | a register is the set of its bits; `raw` names what a back-door command has taken out of the registers' promise; one step per look at WAIT |
| `SelfTest` | `RunSelfTest`, `Check` | every short of two lines, to ground, and a missing pull-up |
| `PropSheet` | `prop.cpp` without the self-test | one action per thing the user or the system does |
| `Monitor` | `mon.cpp` | timer, click, typing and its delayed output; `stale` names registers whose mirror another party has invalidated |
| `LptQueue` | the queue classes of `Queue.cpp` | one operator per class and virtual function; the far end is a port whose status register shows the data register, so that answers tell what was executed before them |
| `PortTalk` | the PortTalk replacement | request and fetch are two steps; `reg` and `wanted` are what the adapter and the programs hold |
| `Inpout32` | loading, redirection, address translation | the service manager is modelled by its answers |
| `CatchIo` | the exception filter and the debugger | a program of three instructions runs against `NativeRun`, a fold over the same instructions |
| `LptGetAddr` | the search for ports | what the system knows is a list; the helper is asked number by number |
| `PhysMem` | mapped memory and the BIOS data area | four words of it |
| `GiveIo` | giveio | each processor's permission is a DPC |
| `PortIO_proofs`, `Driver_proofs`, `Firmware_proofs`, `DevicePnp_proofs`, `UsbDevice_proofs`, `Adapter_proofs`, `Inpout_proofs`, `Programs_proofs` | theorems | section 6 |
| `MC...` | instances for TLC, unions as said above | |

Definitions whose comment begins with "Fault:" stand before the operator they
resemble. They are bugs the code might have had (a forgotten reset, a swapped
order, an index off by one). No specification uses them: they show that each
property notices the bug (`PROJECT.json`, "mutants").

How code and model correspond, in the order a reader would ask:

* **Preemption.** The steps of `PortIO` end where another thread, a DPC or a
  completion can change what the next line reads: at the mutex, at each wait for
  `ev`, after each byte put into the buffer, before and after each call of
  `OutIn`.
* **The mutex.** `Lock` needs `mutex = NoThread`. `IoctlSubmit` releases it when
  the job is submitted, not when it is done, as the code does; the caller stays
  `"pending"` until its IRP completes.
* **`bfill` and `ev`.** Written by the accesses, by the DPC and by the
  completion; `Fertig` sets `bfill` to 0 for a driver job and not for a user's.
* **Bytes in flight.** A driver job sends X->buffer in place. `Payload` reads the
  buffer when the transfer happens, so a byte changed after the submission is
  sent as changed.
* **Registers.** A register's content is the last value written to it. The
  properties only need to tell values apart.

## 4. Runs

| Run | Instance | Distinct states | Shows |
|---|---|---|---|
| `port` | 2 threads, 2 accesses each, of 4 kinds (OUT of 2 bytes, OUT and IN of a mirrored register, IN by IOCTL); write cache on or off from the start, read caches switched at any moment; a 5-byte buffer that fills up; timer quiet (below) | 256,000 | `ActsAsPort`: the driver, both pipes and the adapter implement `LptPort`. `BufferHasOneUser`: the two ASSERTs hold, nobody changes the buffer under a transfer, `ev` is red exactly while one is out. `NothingHeldForEver`: accesses return, held bytes are sent. |
| `port_noisy` | 1 thread, 3 accesses up to 4 bytes, write cache switched at will, the DPC at any moment, allocations fail | 1,650,000 | `BufferBound`: whatever was left in the buffer, it does not overflow. |
| `driver` | `OutIn`: 2 pool blocks; `CodePatch`: 3 processors; `PortAccess`: 3 systems, 2 devices, 2 accesses; `DebugTrap`: 2 processors, 2 registers, 2 addresses, registers stolen at any moment | 26,500 | `FreedOnceAtEnd`, `ActsAsJob` (one answer, after the last transfer, a failure if any failed), `PatchedWhole`; `AccessAsMeant`; `EverybodyReturns` (each job is answered, each processor that is held is let go); `TrapsSound` (a register that is on finds its device, none is on where nobody takes its exceptions), `TrapsComeBack` (calls return, stolen registers come back). |
| `firmware` | `EcpPort`: ring of 4 words, 6 host commands, 2 words of the peripheral, modes PS/2, SPP FIFO and ECP; `ProcessInOut`: streams up to 6 bytes cut in packets of 1 to 3 in every way; `BootLoader`: 16 words of flash, pages of 4, blocks of 8, images that end in and behind it, 4 faults, 5 tries | 1,019,000 | `ActsAsQueue`, `EachWordOnce`, `Drained` about the FIFO; `SameAsStream`: the cuts have no effect; `WholeFirmware`, `UpdateEnds`. |
| `adapter` | `Requests`: 2 requests of any kind, with and without room in their buffers; `TrapTable`: 2 devices, one may move to the other's address, 4 slots, 2 debug registers, 1 of them foreign; `Configure`: 3 firmwares, 2 starts; `PortNames`: 2 adapters, 3 numbers; `PropSheet`: 4 acts of the user, 4 addresses, 2 ways to count pages | 2,197,000 | `RequestsKept` (each answered once, counters right, power requests go on); `TrapsBelong` (the four arrays agree, one trap per address, it leads to a device configured for it) while the table overflows; `StartHolds`; `NamesKept`; `SheetKeeps`, `ShownNeverRunsBack`. |
| `pnp` | 1 device, 2 threads, 2 settings, other parallel ports that come and go; every step of a start may fail; the write cache on and off, and with it on no access under way when the device is stopped or unplugged | 110,000 | `NothingLeft` (no trap, lock, file, timer, transfer or memory of a deleted device), `BiosTells`, `RemovalEnds` (removal ends and IOCTLs are answered). |
| `usb` | 11 control requests of 0 to 3 packets, 2 packets on endpoint 1, 3 HID answers, 1 lost acknowledgement | 7,000,000 | `Out1Once`; `TransfersServed` (whole, in order, never refused for ever). |
| `queue` | `LptQueue`: 4 kinds of port, 3 OUTs, reports of 3 bytes, a printer buffer of 2; `PortTalk`: 2 programs, 3 addresses, 4 calls; `Monitor`: 4 commands or clicks, 3 modes, another program that writes registers 0, 2 and 10 | 3,818,000 | `RunsWhatWasIssued`, `AnswersTrue`, `PageIsTrue`. |
| `lines` | `PortLines`: 3 commands on the registers, modes 0 and 4, all features, EPP cycles of 2 looks; `SelfTest` after 1 command with every fault (the same module as `queue`, with other `Parts`) | 105,000 | `PromisesKept`, `OutputsSafe`, `TimeoutTells` about the lines, `SelfTestTrue`. |
| `inpout` | `Inpout32`: 3 processes, 2 of them administrators, 5 populations of true ports, any of USB2LPT drivers, 1 HID, 1 printer adapter; `CatchIo`: all programs of 3 of `MCOperations`' instructions; `LptGetAddr`: lists of up to 3 of 8 devices, 2 processes; `PhysMem`: 2 programs, 4 calls; `GiveIo`: 2 processors, 2 programs | 757,000 | `PortsServed`, `RunsAsNative`, `AddressesTrue`, `MappingsKept`, `AccessAsOpened`. |

Deadlock is not checked in any run: all of them bound the number of accesses,
commands or bytes, and the system rests when these are used up, or when nobody
uses it. That nothing gets stuck before is what `NothingHeldForEver`,
`Drained`, `TransfersServed`, `UpdateEnds`, `RemovalEnds`, `TrapsComeBack` and
`EverybodyReturns` say.

### Bounds, and why they are enough

* `MaxOps` in `PortIO`: two accesses per thread bring each pair of access kinds
  into the buffer together, one while the other waits, holds the mutex, or has
  its transfers out. `BufSize` is 5 instead of 63: two OUTs leave room for none,
  an IN of 2 or 4 bytes must flush first. All comparisons in the code are with
  the size and the size less one, and `BufferNeverOverflows` is proved for every
  size.
* Two jobs in `OutIn`: one of the driver's own and one of a user at a time, or a
  block reused while its old IRP is still out.
* Six bytes in `ProcessInOut`: an IN and two OUT commands, or three cut ones; each
  packet can be cut again.
* Four slots and two debug registers in `TrapTable`: both parts of the table
  (with and without debug register) can be full, and an entry can be pushed out
  of both.
* Four words in `EcpPort`: empty, full and wrapped differ (in a ring of two the
  slot before and the slot after are the same). The theorems hold for any size.
* `UsbDevice`: requests of no, one, two and three packets, `wLength` below, at and
  above the object's length, lengths that are and are not multiples of eight;
  two packets of endpoint 1 are both values of the toggle. `ReplySize` is 6
  instead of 128: `ReplyBuf` is not guarded against overflow, and a user who
  fetches its answers (`Sensible`) needs no more.
* `BootLoader`: two blocks of two pages, an image that ends in a page, at the end
  of the flash and behind it; as many tries as the tool has, and one fault less.
* `DevicePnp`: one device. What two devices share is the trap table (`adapter`) and
  the numbers, which `OtherPorts` takes away and gives back.
* `DebugTrap`: two of everything; the routines treat all other processors alike.
* `LptQueue`: three OUTs fill a printer's packet and run over it, and cut a
  report of three bytes in the middle of a command.
* `PortLines`: one line of the data port, one of the status port and three of the
  control port stand for all eight, five and four, as the routines treat lines of a
  port alike but for inversion (control line 2 is the one left out, not inverted);
  two looks at WAIT instead of 24 are the first and the last. Three commands are one
  that changes a mode or a direction, one that uses it and one after it.
* `SelfTest`: two lines of different ports and two of one port can be shorted.
* `CatchIo`: three instructions: a repetition, and one after a hook has gone wrong.
* `LptGetAddr`: three devices are a gap, a duplicate and one past LPT3.
* `GiveIo`, `CodePatch`: the caller's processor and one or two others.
* `PropSheet`: four acts: open a page, change, apply or reset, go elsewhere.
  (The finding `"toggle"` needs six.)
* `Inpout32`: three processes: one that started the driver, one that has it open
  and one that comes while it stops. All addresses are the real ones.

### Fairness

* `PortIO`: threads run (weak fairness for each), a thread that waits for the
  mutex gets it if it becomes free again and again (strong fairness: the kernel
  queues waiters in order), a set timer fires and a queued DPC runs, the USB
  stack finishes a transfer it can finish. No fairness for callers or for
  changes of settings. An IN transfer can finish when the adapter has the bytes:
  that it has them must follow from the OUT transfer, and does.
* `OutIn`: the call proceeds and the lower driver ends every transfer.
* `EcpPort`: the main loop turns, the peripheral answers a handshake that has
  begun. None for the host's commands, nor for the peripheral's offers.
* `BootLoader`: the tool and the device's loop go on. None for the return of
  power: the tool must end without it.
* `DevicePnp`: PnP handlers that have begun go on, transfers end (at the latest
  when the adapter is pulled out), threads in the driver run, a waiting one gets
  the mutex as above. None for the PnP manager or the programs.
* `CodePatch`: the caller goes on, DPCs run when their processor is free again and
  again, programs that are in a patched function leave it.
* `DebugTrap`: `AllocDR` and `FreeDR` go on, a queued DPC runs when its processor
  is below DISPATCH_LEVEL again and again, an INT 1 handler runs on, programs make
  system calls again and again (strong: other steps interrupt them).

## 5. Findings

Places where the code does not do what its comments or documents say. Each run
leaves the case out by a constant, and names it; the last column says what to
change in the run's cfg for TLC to show it. `PROJECT.json` quotes the lines.

| Where | What happens | To see it |
|---|---|---|
| `Usb2lpt.c:542` | `TimerDpc` calls `FlushBuffer` without the mutex; between the two bytes of a command the completion then sets `bfill` to 0 under the access (ASSERT in line 422). Switching the write cache off while its timer is set does the same. | `port`: `QuietTimer = FALSE`, violates `BufferHasOneUser` |
| `Usb2lpt.c:348` | After a refused IRP `OutIn` calls the completion routine again, for an IRP and perhaps a job that are freed. | `driver`: `Refusal = "completed"`, `FreedOnceAtEnd` |
| `Usb2lpt.c:1468` | `setdebreg` notes a block as trapped whatever `AllocDR` returned; the next `FreeDR` takes another device's trap away. `adapter` says what still holds. | - |
| `Vlpt.c:699` | `MakeSpace` moves four bytes per pointer, half of the entries in the amd64 build. | `adapter`: `PtrSize = 8`, `TrapsBelong` |
| `Vlpt.c:759`, `810` | Between hooking and the bit of `UsageBits`, and between clearing the table and unloading the registers, an access raises an INT 1 that goes to the old handler or finds no device. | `driver`: `BusyPorts = TRUE`, `TrapsSound` |
| `Vlpt.c:115` | Two processors in `EachProcessor` wait for each other's DPC for ever; and two `AllocDR` take the same slot. | `driver`: `Serial = FALSE`, `TrapsComeBack` alone (`TrapsSound` falls first) |
| `Vlpt.c:105` | Without memory `EachProcessor` silently runs nothing; registers are then loaded without hooks. | `driver`: `NoPool = TRUE`, `TrapsSound` alone |
| `Vlpt.c:1187` | Without memory `BlockSiblingsAndCall` patches nothing and says nothing, so a driver is unloaded with its jumps in place; and a program halfway through the bytes or the driver's code runs on. | `driver`: `PoolFails = TRUE`, `BusyCode = TRUE`, `PatchedWhole` |
| `Vlpt.c:1389`, `686` | A debugger's breakpoint that hits together gives the wrong register number; `HasTrap` does not move with `Usage`; a prefix is guessed from the byte before the instruction, which may belong to the one before (`Odd66`). | `driver`: `Coincide`, `Push`, `Odd66 = TRUE`, `AccessAsMeant` |
| `Usb2lpt.c:466` | The mask of a failed 4-byte read is 0, not FFFFFFFFh. | `driver`: `Wide = TRUE`, `AccessAsMeant` |
| `Usb2lpt.c:742`, `658`, `646` | A failed descriptor request's length is used; null pointers after failed allocations are used; a program that transfers during a restart uses the old interface. | `adapter`: `Drops`, `PoolFails`, `Eager = TRUE`, `StartHolds` |
| `Usb2lpt.c:1751`, `1252` | WMI's counters lose counts on several processors; a power request after a surprise removal stops all further ones. | `adapter`: `Smp`, `PowerAfterAll = TRUE`, `RequestsKept` |
| `Usb2lpt.c:1292`, `1075`, `1413` | The link LPTn is deleted though it may be another's, or was never made; a number from the registry is not held against the BIOS data area. | `adapter`: `LinkOnly`, `NamesFail`, `Moved = TRUE`, `NamesKept` |
| `Usb2lpt.c:1198` | A configuration set after SURPRISE_REMOVAL sets traps that REMOVE no longer frees. | `pnp`: `LateSettings = TRUE`, `NothingLeft` |
| `Usb2lpt.c:1628` | Without memory for the URB the IRP is not completed and the remove lock not released. | `pnp`: `PoolFails = TRUE`, `RemovalEnds` |
| `Usb2lpt.c:542` | An access arms the timer after STOP or SURPRISE_REMOVAL has cancelled it; the DPC uses a deleted object (change log, line 20, "erledigt?"). | `pnp`: `LateAccesses = TRUE`, `NothingLeft` |
| `usb2lpt6.c:223` | `LptOn` drives the control port whatever Feature bits 1 and 2 say, at power-up and when DirectIO is left. | `lines`: `Careful = FALSE`, `PromisesKept` |
| `usb2lpt6.c:243` | An EPP write in input direction takes the data away before the strobe rises. | `lines`: `LatchAtEnd = TRUE`, `TimeoutTells` |
| `usb2lpt6.c:551` | ECP input begun with /AF high reads a word nobody offered. | `firmware`: `Controls <- OutAndPlainIn`, `EachWordOnce` |
| `usb2lpt6.c:689` | The toggle of endpoint 1 OUT is not begun anew by CLEAR_FEATURE or SET_CONFIGURATION; the next packet is acknowledged and dropped. | `usb`: `Requests <- ResetRequests`, `Out1Once` |
| `prop.cpp:1069`, `559`, `1135` | A reset of counters writes stale values over the other group; Next applies what was refused; a page that cannot be added meets freed data. Also: the back door marks a half-written firmware as valid, and Extras opens with values nobody has read. | `adapter`: `Mishaps = {"reset"}`, `{"next"}`, `{"addpage"}`, `{"toggle"}` (`MaxActs = 6`), `{"noread"}`, `SheetKeeps` |
| `mon.cpp:573` | The mirror of what was written begins as what was read, the levels of the lines; a click on one bit writes the others back from it. | `queue`: `Trusting = TRUE`, `Others = {}`, `PageIsTrue` |
| `Queue.cpp:331` | `LptFlush` on a USB2LPT returns no answer of the INs collected and leaves them in the device for the next call, against `inpout32.h:122`. | `queue`: `"lpt"` in `InKinds`, `AnswersTrue` |
| `Queue.cpp:594`, `157` | `LptClose` drops collected OUTs; the mirror is stale after a bit command of `LptInOut`. | `queue`: `ClosesFull = TRUE`, `RunsWhatWasIssued`; `Batches <- BitBatches`, `AnswersTrue` |
| `PortTalk.cpp:100`, `97` | `inport` may fetch another program's answer, returns the request's byte after a failure, leaves an answer for the next one, and takes 778h for 378h. | `queue`: `Shared`, `TransfersFail = TRUE`, `Addresses = {889, 1914}`, `AnswersTrue` |
| `Queue.cpp:190` | A true port's queue uses `Out32`, which may translate its address a second time. | `inpout`: `TruePorts <- OddTruePorts`, `PortsServed` |
| `inpout32.cpp:503`, `500`, `518`, `669`, `644` | IN ax,dx reads twice; repeated accesses are skipped; any faulting mov is taken for one of the BIOS data area; the program's own exceptions never reach it; a failed injection is silent. | `inpout`: `Operations <- WordOperations`, `RepeatedOperations`, `WideOperations`, `FaultOperations`; `OwnDebugged`, `NotInjected = TRUE`, `RunsAsNative` |
| `LptGetAddr.cpp:296`, `337` | A helper is used that its owner closes; the search ends at a gap past LPT3; nothing takes a missing helper's place. | `inpout`: `Overlap`, `Gaps`, `HelperFails = TRUE`, `AddressesTrue` |
| `inpout32.cpp:268`, `245`, `264` | The 32-bit DLL on NT never unmaps and says FALSE; a pointer is cut to 32 bits; two copies on 9x overwrite each other. | `inpout`: `Systems = {"nt32"}`, `HighLin = TRUE`, `Alone = FALSE`, `MappingsKept` |
| `giveio.c:53`, `31`, `129` | The IRQL is not raised, a thread may change processors; without memory nothing is opened; a failed load leaves device, link and access. | `inpout`: `Preempt`, `NoMemory = TRUE`, `Taken = {"dlportio"}`, `AccessAsOpened` |
| `main.cpp:251` | After a block that broke inside a page, words in the page buffer survive the repetition, and success is reported. | `firmware`: `Breaks = {5}`, `WholeFirmware` |

Seen while modelling, not pursued:

* A failed allocation in `HandleIn` (`Usb2lpt.c:501`) leaves the IN command byte in
  the buffer: odd fill, and an answer for nobody; in `HandleOut` OUTs are lost.
* An IOCTL that writes a mirrored register bypasses the mirror (`Usb2lpt.c:1582`);
  a trapped IN is then answered with the older value. The runs keep the two
  apart.
* A REMOVE of a device that was never started writes the default configuration
  over the user's (`Usb2lpt.c:1105`); a start after a stop overwrites the pointers
  to descriptor and interface (903) and initialises mutex, timer and event under
  an access that may still be on its way (`Restarts = TRUE`); `FreeTraps` without
  `SetTraps` writes zeros to the BIOS data area.
* A start succeeds with an interface that has not both pipes, without initialising
  mutex, timer and event and without traps (`Usb2lpt.c:924`, `goto ex`). Once settings
  set traps, the first access waits for a mutex nobody made, inside the remove
  lock, and so does REMOVE (`pnp`: `OddPipes = TRUE`, `RemovalEnds`).
* OUT to address 7 calls no routine (`usb2lpt6.c:646`: `command<0x07`), though the
  interface (`src/api.en.htm:114`) and the IN side (line 624) make it an EPP data
  cycle.
* `usb2lpt6.c`: vendor requests 90h to 94h drop their data stage and answer
  nothing (715, 734); answers of endpoint 1 of three bytes and more overwrite
  those of HID reports (`Answers1` keeps to two); `ReplyBuf` is not guarded.
* `Queue.cpp`: `LptInOut` on a true port returns no answers unless pass is 1
  (197, `PpPasses`); after a failed HID transfer the rest of a command is missing
  and the next stream's first byte is taken for it (`Fails`); a device that reports
  lengths it should not is asked for ever (391).
* `inpout32.cpp:711` "can interfere other inpout32.dll applications if not
  started+ended in nested order!": as the comment says; `DriverAsFound` is what
  holds in any order.

* `usb2lpt6.c`, registers: a bit command on the status port knows no inversion of
  BSY, one on the data port in input direction puts the read levels into
  `data_byte` (`api.en.htm:263`); waiting for a bit of the control port looks at the
  latch; when open collector is released, a line is high for one instruction; EPP
  strobes are driven whatever bit 2 of Feature says.
* `Vlpt.c`: string instructions lose their data; `IOCallback` takes a device
  number that may be `No_Function`; a locked device is still reached through the
  debug register by the driver's own port functions.
* `Usb2lpt.c`: the registry key of `GetPortIndex` (1320) is never closed; the IOCTL
  that aborts a pipe looks at the output length for its input and takes any index
  (1586-1594); a restart meets `Restarts = TRUE` in `pnp`.
* `prop.cpp`, `mon.cpp`: the serial number is written by Apply only; a toggled bit on
  the data port, where the comment at `mon.cpp:617` warns of side effects; the edit
  timers survive a change of pages; with register 15 in `Others` the circles are
  not repainted (`PageIsTrue`).
* `inpout32.cpp`: `SppDef[3]` is read past its end for LPT4 (522); the thread's
  handle leaks in the debug loop (655); `Redir.cpp:403` hooks one address before the
  first; the list of hooked ports of a VDM above 1500 bytes is replaced by the one
  entry (503), and an entry found again (490) is not saved.
* `LptGetAddr.cpp`: `SendMessage` to the helper has no time limit.

## 6. Proofs

All are checked by `tlapm` to the last leaf. They hold for every value of the
constants that satisfies the named assumptions of the module (`PortIOAssumption`,
`OutInAssumption`, `DriverAssumption`, `EcpPortAssumption`, `FirmwareAssumption`,
`PnpAssumption`, `UsbAssumption`, `RequestsAssumption`, `PartsAssumption`,
`Inpout32Assumption`, `InpoutAssumption`, `ProgramsAssumption`), and, where a finding shows that the code
does not keep the property in every case, under a hypothesis that excludes just
this case. Each hypothesis is a definition with a name, and the cfg of the module's
run satisfies it; TLC checked each inductive invariant on that run (or a smaller
one) before it was proved.

**`PortIO_proofs`**: `TypeCorrect` and `BufferNeverOverflows`, for any number of
threads, any accesses, a buffer of at least five bytes, with failing
allocations and an unconstrained timer. `bfill <= BufSize` is not inductive: a
thread that is about to store a byte must know that there is room. `IInv` says
for each label how much room is left for the thread that holds the mutex: one
command (two bytes) at `"address"`, one byte at `"data"` of an OUT, the rest of
the access at `"data"` of an IN; and that only the mutex's owner is at one of
these labels. The DPC and the completion can only lower `bfill`, so they cannot
hurt, which is why `BufferBound` survives finding 1. (The real buffer has 63 bytes;
the proof needs room for the longest IN.)

`BufferUsedByOne` is the harder one: the buffer has one user, although the timer's
DPC and the completion take no mutex. Its hypothesis `OneUserAssumption` leaves out
the first finding (a timer that fires while a thread stores), failing allocations
(which leave half a command behind) and even buffer sizes (63 is odd: a buffer that
has room for nothing then still has room for the address byte of an IN), and
`SteadySpec` keeps the write cache on or off. The invariant `OneUser` ties four
things together that the code changes in four places: each waiting thread has one
job (`OneJobEach`); the event is green exactly when no job of the driver's own is
out (`Signal`); the timer and its DPC exist only while the event is green and the
mutex is free (`Held`); and what is in the buffer between two accesses are whole
commands (`WholeCommands`), without which "no room" and "full" would differ. None
of the four is inductive without the others.

**`Driver_proofs`** is about four parts of the driver that share no state.

* `OutIn`: `NoUseAfterFree`, `NothingLeaks` and `ImplementsJobLife`
  (`Spec => Life!Spec`), for any number of jobs and under `Refusal = "untouched"`
  (the finding for `Usb2lpt.c:348` is why). The invariant says what the counter
  counts: `ct` is the number of transfers that are with the lower driver or still to
  be submitted, these two sets are disjoint, and `irpw`, `irpr` name them. So the
  last completion cannot come before the last submission.
* `CodePatch`: `PatchedInOrder`, for any number of processors, under `Quiet` (there is
  memory for the DPCs, and nobody is halfway through code that goes away: the two
  cases of the finding for `Vlpt.c:1187`). That no processor ever runs half a jump is
  nowhere in the state of one of them. The invariant follows the call: while DPCs
  are queued, the caller's sets tell which are still to be queued, which wait and
  which hold their processor (`Siblings`); so when the first byte is written all
  hold, and each program is out of the function, its own included (`Programs`);
  what the bytes are and that the saved ones are the kernel's goes with the phase
  (`Bytes`).
* `PortAccess`: `AccessesAsMeant`, for any devices, blocks and ports, under
  `Unambiguous` (the findings for `Vlpt.c:1389`, 686 and `Usb2lpt.c:466`). A block has
  one slot and a slot one device (`OneSlot`), no bit is left in DR6 between two
  accesses, and on Windows 98 the driver's port handlers are those of the slots, so
  that no port of a slot goes to the hardware unnoticed (`Handlers`). Then the first
  bit found in DR6 is the one slot whose block was accessed; that `BSF` finds the
  least is proved by a least counterexample (`LeastOf`).
* `DebugTrap`: `TrapsAlwaysSound` and `RegistersTyped`, for any number of
  processors, up to four registers and any addresses, with thefts, system calls and
  the timer at any moment and DPCs as late as they like. `InTurn`: one start or stop
  at a time, memory for the DPCs, and no program at a port that is being set up (the
  findings for `Vlpt.c:115`, 105, 759 and 810). While `EachProcessor` runs,
  processors differ, and the table differs from all of them, so the invariant is
  about the one thread at work (`InOrder`). Bits and table agree but for its slot
  (`Bits`); a register that is on holds its slot's address or the one that thread is
  freeing (`Registers`); all interrupts are hooked or none, but for the processors it
  waits for (`Hooks`); the only DPCs queued are those it waits for (`Queued`), so that
  none of an earlier call can undo a later one; and nobody touches the slot that a
  handler of INT 1 is about to look up (`Handled`). `Hooks` also says that a thread
  waits for hooks only with the first address (`UsageBits = {}`), so that no register
  is loaded before every processor has them.
* `DriverKept` puts the four together for the run's specification (`MCSpec`), in
  which each step is one of a part and the others rest (`DriverParts`).

**`Firmware_proofs`** is about three parts of the firmware.

* `EcpPort`: first the ring alone. For any size, `Put` appends to and `Got`
  removes the head of the sequence that indices and flags describe
  (`PutAppends`, `GotRemoves`), and each keeps the flags right (`PutRing`,
  `GotRing`). Then every step of the module is one of five on the ring
  (`StepsOfRing`), which gives `TypeCorrect`, `FlagsCorrect`, `RingIsQueue`
  (`Spec => Queue!Spec`) and `EmptyReadRepeats`. The last one needs that the slot
  before the read index holds the last word until the ring is full (`Keeps`). The
  handshakes: `WordsTakenOnce` and `WordsReadOnce` under `PoliteHost` (the host
  changes mode and direction between words, leaves /STB high, turns to input with
  /AF low). Their invariants tie the lines to the words: /STB low and not busy means
  exactly one word on its way out; /AF high or /ACK low during input means exactly
  one on its way in.
* `BootLoader`: `UpdatesWholeFirmware` and `BootTyped`, for a flash, pages
  and blocks of any size, any image and any number of tries, with loss of power at
  any moment. `BreaksHarmless` says where a transfer may break: within the first page
  of a block or between two pages (finding `main.cpp:251` is about the others). The
  invariant follows the block: every word before the block under way holds the image
  (`Written`); of this block, the full pages are in the flash, and every word of the
  page buffer is empty or what belongs into the page that is being filled
  (`BufferFor`, `Filled`); device and tool are at the same packet (`InStep`); and the
  device leaves the boot loader when all is done, and not before (`LeavesLast`). A
  repetition begins anew at a block's start, so the buffer's rest must be one that
  the repetition overwrites or repeats: there the hypothesis comes in.
* `ProcessInOut`: `ParsedAsStream`, for any packets, batches and answers to fetch, with no
  hypothesis. The property compares with a fold over a sequence without bound (`Feed`), and
  the library's induction takes a predicate as a parameter, of no use to the provers here.
  Two lemmas replace it: `FoldLeft`'s definition unfolds to a function on
  sets of indices (`FoldExists`), and `UpTo` is induction with a set in place of the
  predicate, by a least counterexample. They make a fold a walk, the sequence of the
  parser's states (`FeedWalks`), so that a byte more is one step more (`FeedAppend`).
  The invariant: the bytes of the stream that are not in the packet any more have been
  fed, and there the machine and the parser agree (`Agrees`).
* `FirmwareKept` puts the three together for the run's specification.

**`DevicePnp_proofs`**: `DeletedIsUnused`, `DeletedIsUnreached`, `BiosNamesTrapped` and
`TypeCorrect`, for
any number of adapters, threads, port numbers and addresses, write cache on or
off, allocations failing or not. `Orderly`: the NT driver, no settings after the
adapter is unplugged, no restart of a stopped device (the findings for
`Usb2lpt.c:1198` and 1105). What a deleted device must not leave behind is nowhere
tested in the code. It follows from an invariant per device: the stages of the PnP
manager, the flags and the handler's place agree (`Staged`); traps are set, files
open and settings under way only in stages in which that is possible (`Working`);
the remove lock is held by exactly the threads that are inside (`Locks`); the
blocks allocated are those kept (`Balanced`); and without the write cache each
pending transfer has a thread that waits for it, inside the lock, or the abort of
the pipes is still to come (`Awaited`). With the write cache on nobody waits for
the bytes it holds, so `DeletedIsUnused` assumes `Punctual` besides: no access is on
its way when the device is stopped or unplugged (`LateAccesses = FALSE`; with late
ones the code fails, second finding for `Usb2lpt.c:542`). `Timed` is the invariant for
it: timer and accesses belong to a device at work, transfers to one whose pipes are
still to be aborted. `DeletedIsUnreached` is what holds however late accesses are,
with the write cache on as well: `NothingLeft` but for the timer and its transfer. The BIOS data area needs that each object
has a number of its own (`Named`), and that some free number is the least, which is
proved by a least counterexample (`LeastOf`).

**`UsbDevice_proofs`**: `PacketsOnce`: the packets of endpoint 1 are parsed once and in
order for any number of packets, any number of lost acknowledgements, and control
requests of any kind but the two of the finding for `usb2lpt6.c:689`
(`KeepsToggles`). This is an alternating-bit protocol with a receive buffer
between the interrupt routine and the main loop, so the invariant speaks of what
the device will have and expect when the buffer is worked off (`Taken`,
`Expected`): that and what the host has sent differ at most by the packet at work,
and the toggle tells whether they do (`Out`). In the other direction
CLEAR_FEATURE resets the device's toggle at once and the host's at the end of the
request; `In` says that nothing of endpoint 1 is under way in between.
`EverythingServed` is about endpoint 0, under `KeepsToggles` and `WellFormed`: requests
are those of the driver and of HID users (data to send is not empty, a report
fits into a packet, a read asks for no more than there is, a report is fetched
with its number), endpoint 1 answers with two bytes at most and the answers asked
for find room (section 5 says what happens otherwise). Its invariant says for each
stage where the bytes are: those the host has and the packet that stands ready are
the front of what the request moves, and the rest is where `usbMsgPtr`, `gAdr` and
`usbMsgLen` point (`InData`, `Source`); those the host has sent are with the device
or in the receive buffer (`OutData`); the answers of reports in `ReplyBuf` are the
next ones, none missing, and stay behind the two bytes that endpoint 1 uses
(`Kept`); and the answer the host waits for is that of the last packet
(`Answering`). Then nothing is refused: a stage without a packet ready has a
length left to send.

**`Adapter_proofs`** is about four parts that share nothing but the adapter.

* `Requests`: `KernelServed`, for any number of requests at once. `AsTested`: one
  processor, and no power request in work when the adapter is pulled out (the
  findings for `Usb2lpt.c:1751` and 1252). Each request that is open holds the lock
  exactly between the two calls (`Held`), has been answered if it only has to unlock,
  and at most one is amid the increment, of which it has read the value that is
  still there (`Told`); with power requests the one that is first has not come to
  `PoStartNextPowerIrp` yet (`Power`).
* `Configure`: `StartsHold`, for any set of firmwares and any number of starts, with
  the adapter pulled out at any moment. `StartsAsMeant` leaves out what the finding
  for `Usb2lpt.c:742` names. A descriptor is cut only when the adapter is gone, so
  what is selected from it is the adapter's (`Whole`); the blocks allocated are
  those of the handler's step and one per interface description (`Blocks`); and
  transfers need an interface and have ended before the adapter is deleted
  (`Transfers`). `Blocks` gives no more than a bound for a second start, which
  leaves a block behind: `StartHolds` does not say more.
* `PortNames`: `NamesStay`, for any number of adapters and of port numbers. `AsInstalled`
  leaves out the finding for `Usb2lpt.c:1292`. Device objects and links are made in
  different steps, other drivers make theirs at any moment, and nothing compares
  them. `OthersOwn` and `AdaptersOwn` say whose each name is; the number in the
  registry is not one of the BIOS data area's (`Registered`); and while an adapter
  searches, all numbers it has passed were taken or skipped, and the least one free
  has not been passed (`Searched`), which needs that only one searches at a time.
* `PropSheet`: `SheetKept` (an invariant of every state) and `ShownRunsOn` (a property
  of every step: what a page shows of a counter never runs back unless it is reset),
  for any settings, counters and images, with no bound on the acts of the user.
  `NoMishap` leaves out the five cases of the finding for `prop.cpp:1069`. The data
  that the pages share is freed by the last of them, found out by counting: pages
  that are loaded (`"addref"`) or pages that have been shown, on systems without
  that message. `SetupCounts` proves both counts, and that neither can reach zero
  while a page will still use the data. `SheetSettings` says that an edit that cannot
  be decoded is on the page in front; `Counters` ties what is shown, what was shown
  and what the driver has counted; `Update` follows the first and the other words of
  the image, of which the first makes it valid.
* `AdapterKept` puts them together for the run's specification; `TrapTable`, the
  fifth part, is not among them (below).

**`Inpout_proofs`** is about four parts of the host library.

* `Inpout32`: `PortsStayServed`, for any number of processes, adapters and loads, and
  any true ports that are `PortsApart`: each has the standard addresses of its own
  number or none of the standard ones (the finding for `Queue.cpp:190` is a port that
  has another's). An address is translated up to three times, each time modulo
  65536. The lemmas say which of these apply: standard addresses are near one number
  only (`Standards`); `patch()` leaves alone what is near no true port (`PatchedNot`)
  and otherwise moves it to where nothing is redirected (`PatchedSpp`, `PatchedEcp`);
  what it leaves alone is redirected to the one queue it is near (`EndsQueue`). From
  these each register of each port ends where it is meant (`SppEnds`, `EcpEnds`,
  `TrueSppEnds`, `TrueEcpEnds`), and the aliases of a DOS program lead to the same
  addresses (`Aliases`, `DosAddresses`). That the port driver stops with its last
  user needs that somebody who has started it has still to stop it (`Starter`).
* `PhysMem`: `MemoryKept`, for any number of programs and calls, under `OneByOne` (the
  findings for `inpout32.cpp:268`, 245 and 264). One program is in a call, and the
  driver keeps a mapping just then (`OneCall`); what was written last is in the
  memory, or on Windows 9x in the copy that will be put back (`Newest`); and the
  console leaves a table that has each true port, and a number of ports beyond it
  (`Corrected`).
* `GiveIo`: `AccessOpened`, for any number of processors and programs, under
  `Undisturbed` (the findings for `giveio.c:53`, 31 and 129). Several threads may go
  through the processors at once, each with a set of those it still waits for. The
  invariant says why a processor is in it (`Called`: not reached yet, its DPC is
  queued, or it is the thread's own), what those have that are not (`Reached`), and
  that nobody opens while another closes (`Turns`).
* `LptGetAddr`: `AddressesTold`, for any number of processes, lists of devices of any
  length and an array of any size, under `AskedInTurn` (the finding for
  `LptGetAddr.cpp:296`, `337`). The helper that a process asks is its own (`Helper`),
  and the array holds what a search for each number asked so far would find (`Array`);
  that the search may stop at the first gap past LPT3 is `NoMore`, by a least
  number that would contradict it.
* `InpoutKept` puts them together for the run's specification.

**`Programs_proofs`** is about the lines of the plug and the programs that look at
them, for any bits of the three ports, any combination of modes and features, any number of
commands of any values and of EPP cycles of any number of looks.

* `PortLines`: `LinesPromised` under `Careful`, `LinesUndisturbed` without any
  hypothesis, `TimeoutsTold` under `TimelyHost` (`Careful` and `LatchAtEnd = FALSE`:
  the findings for `usb2lpt6.c:223` and `243`). During an EPP cycle the lines are
  not what the registers promise, so the invariant speaks of the registers that the
  cycle will leave behind (`Rest`), and says in which modes the direction can be
  input (`Spp`), since changes of mode set it without a look at the registers
  (`PromiseInv`). Between two instructions of a routine nothing is promised; that no
  line of the data port takes a level it has neither before nor after follows from
  the order of assignments alone (`GlitchFree`, `LatchSafe`, with a lemma per routine).
  For the time-out bit the invariant says what a cycle under way has been answered: BSY
  is an input, the byte is on the lines, and WAIT is high only if the peripheral has
  taken it (`Answered`). The proof found an error of the model: the self-test, when it
  writes back mode 4, clears the time-out bit as every change to that mode does
  (`usb2lpt6.c:319`), and the record of lost cycles had not begun anew with it.
* `SelfTest`: `TestTold`, under `Careful`, for every fault: a short of two lines, of a
  line to ground, or missing pull-ups. A short is seen when one of its two lines is the
  odd one out, so the invariant says that of the lines passed none is shorted unless a
  failure is noted (`Passed`), which needs that all lines are outputs while the
  patterns go round (`AllOut`) and that no line is passed over (`Number`, `FirstOf`);
  and that nothing is noted of a sound port. That the test leaves the port as it was
  does not follow from what it saves, which is what it reads: the registers are those
  from before (`SavedRight`, `RestoredFields`) because their lines were as promised, so
  this half rests on `LinesPromised`.
* `Monitor`: `PageStaysTrue`, for any registers that other programs write but Feature
  (`PageAlone`; see the findings for register 15). The mirror of a port is true because
  the device holds the byte it has (`Held0`, `Held2`), which is more than the lines
  say: a byte written in input direction is not on them, yet comes out when the
  direction turns, and with open collectors the direction registers belong to it. The
  circles are true at an update because all that were ever painted show what was read
  then (`CirclesRead`), unless the port cannot be read and they are grey. Checks of the
  invariant beyond the run's bounds, before it was proved, found the record `stale` too
  small: a data byte of another program's, written in input direction with DirectIO,
  and direction registers written past the simulation of open collectors, leave the
  mirror behind later.
* `PortTalk`: `CallsStayServed`, for any number of programs and calls, under `TalkAlone`
  (one program at a time reads from a HID, transfers succeed, addresses of the first eight
  registers: the findings for `PortTalk.cpp` are about the others). An inport that has sent
  its request to a HID is the only one, and the one answer there is its own (`OneReads`).
* `ProgramsKept` puts these four together for the run's specification.

**Only model-checked**: liveness (the prover has no rule for fairness). Then
`ActsAsPort`, `RunsWhatWasIssued`, the half of `AnswersTrue` that is about a queue
(`ReadsTrue`) and `RunsAsNative`: they compare with folds over histories without bound,
as `SameAsStream` does, with several of them at work at a time, and their invariants
have not been worked out. `TrapsBelong` is inductive in its table part only:
the handlers are lists of tasks put together with folds, so what is left of a list
cannot be reasoned about here.

## 7. What is left out, and why

* `PortIO`: transfer errors (a failed transfer in the code resets the buffer as a
  good one does), IRQL changes, the wait for the mutex failing. Replies are
  queued in the adapter (`UsbDevice` has the one buffer there is).
* `OutIn`: the data, and control requests that use the same job (`AsyncCallUSBD`).
* `ProcessInOut`: what the routines do (`PortLines`; for those that touch the FIFO,
  `EcpPort`).
* `PortLines`: the FIFO modes (`EcpPort`), USB lines and LED on the same ports, the
  time between two instructions but for the glitches `OutputsSafe` is about.
* `TrapTable`: processors (see `DebugTrap`), two of the four address blocks.
  `UserCfg` comes to started devices only; the code does not ask, and what that
  leads to is `DevicePnp`'s `LateSettings`.
* `EcpPort`: electrical options (inversion, open collector, DirectIO), time.
* `DevicePnp`: an access that has found a device object, and not yet its lock, when
  the object is deleted is lost in the model, or goes on with the next object; in
  the code it touches freed memory.
* `DebugTrap`, `PortAccess`: the handlers' stack work, string instructions, V86 mode.
* `CodePatch`: which bytes the jump consists of.
* `Configure`: string descriptors; `Requests`: what a raw USB request transfers.
* `PropSheet`: bits 1 and 2 of Feature. `Monitor`: the IRQ bit (12h), the extra pins.
* `PropSheet`, `Monitor`: layout, painting of anything but the circles, help, file
  dialog, the high-speed board's date check beyond yes and no.
* `UsbDevice`: bit timing, bus reset, packets with a wrong CRC (the driver does not look
  at it: `usbdrv.c:575`), SET_INTERFACE, endpoint 3, reads of exactly 255 bytes
  (which equal `USB_NO_MSG`).
* `BootLoader`: the hex file's records, and a fresh device's first flash, where
  there is no firmware before.
* `LptQueue`: pass 2 but for true ports, two handles on one device, a late
  completion that signals the next call's event. `PortTalk`: which of LPT1 and LPT2
  the driver has is looked up once.
* `LptQueue`: a status IOCTL that fails while the buffer is empty (`Queue.cpp:475`),
  the bytes copied after a failed flush (332), what the control register reads back
  but for the bits written.
* `Inpout32`: an `LptOpen` that fails in `RedirCandidate` (`Redir.cpp:624`), after which
  the access goes to the hardware; accesses to 3C0h-3C3h and 7BCh-7C3h, which line
  622 takes for the third port's.
* `CatchIo`: the reference run decodes an instruction with the handler's operators, so
  `RunsAsNative` compares what is done with it, not how it was read.
* `Inpout32`, `CatchIo`: `ModRM`'s decoding, the VDM's list of hooked ports, the
  debug console. `GiveIo`: `OnPower`, which its author never
  saw called (`giveio.c:85`).
* The map covers 30 per cent of the implementation's lines. The rest is, by
  size: a vendored header (`jni.h`), drivers of 2005 that this one replaced, layout
  and painting of dialogs, the firmware of four other boards (whose C files repeat
  `usb2lpt6.c`; modelling them again would repeat the models), stack work in
  assembler, and tools that do one thing and end.

## 8. Running

    tlc -workers 2 -config MCPortIO.cfg MCPortIO
    tlapm Firmware_proofs.tla

`PROJECT.json` lists each run's module, cfg and properties. Every run ends
within about four minutes on two cores.
