----------------------------- MODULE LptGetAddr -----------------------------
(***************************************************************************)
(* The addresses of the true parallel ports (LptGetAddr.cpp): each process *)
(* that loads inpout32.dll asks the PnP manager for them and, if it knows  *)
(* none, what the system has instead: the registries of Windows 95, of NT4 *)
(* and of Windows 8, or for a 32-bit process on a 64-bit Windows 8 the     *)
(* window of a 64-bit helper process (RunQueryWnd), which is asked for one *)
(* port after the other.  Helpers that several processes start are modelled *)
(* with their windows, which any of the processes may find.                *)
(***************************************************************************)
EXTENDS Integers, Sequences, FiniteSets, FiniteSetsExt

CONSTANTS
  Clients,      \* processes that load the DLL
  N,            \* ports the caller has room for
  DeviceLists,  \* what the system may know: sequences of [index, spp, ecp, works]
  Overlap,      \* processes may ask at the same time
  Gaps,         \* numbers from LPT4 on need not be contiguous
  HelperFails   \* the helper may not be found, or end before it has its window

LptGetAddrAssumption ==
  /\ N \in Nat \ {0} /\ {Overlap, Gaps, HelperFails} \subseteq BOOLEAN
  /\ DeviceLists \subseteq Seq([index : Int, spp : Nat \ {0}, ecp : Nat, works : BOOLEAN])

VARIABLES
  system,    \* pnp, 95, nt4, nt8 (32-bit process on Windows 8), wow8 (on 64-bit Windows 8)
  devs,      \* the devices in the order in which they are enumerated
  at,        \* where LptGetAddr of a client is: idle, find, wait, ask, close, done
  a,         \* the array of the caller
  ret,       \* the count, and the port that is asked for
  own,       \* the helper a client has started: none, starting, open, ended
  hWin64     \* whose helper's window a client has found

addrVars == <<system, devs, at, a, ret, own, hWin64>>

None == [spp |-> 0, ecp |-> 0]
Indices == 0 .. N - 1
Nobody == "nobody"

\* A port beyond the third one follows another one.
Contiguous(list) ==
  \A k \in 1 .. Len(list) : list[k].index > 3 =>
    \E j \in 1 .. Len(list) : list[j].index = list[k].index - 1 /\ list[j].works

Init ==
  /\ system \in {"pnp", "95", "nt4", "nt8", "wow8"}
  /\ devs \in {d \in DeviceLists : Gaps \/ Contiguous(d)}
  /\ at = [c \in Clients |-> "idle"]
  /\ a = [c \in Clients |-> [i \in Indices |-> None]]
  /\ ret = [c \in Clients |-> 0]
  /\ own = [c \in Clients |-> "none"] /\ hWin64 = [c \in Clients |-> Nobody]
-----------------------------------------------------------------------------
(* The ways to know the ports. *)

\* Devices with a name LPTn and resources; those that do not work have none.
IsPort(d) == d.index >= 0 /\ d.works
Address(d) == [spp |-> d.spp, ecp |-> d.ecp]

Ports == {k \in 1 .. Len(devs) : IsPort(devs[k])}

\* Each way finds some of the devices, at their places in the enumeration.
\* Windows 95 enumerates no devices, NT before 5 may know none, and a 32-bit process of Windows 8 gets
\* no configuration of them.
LptGetAddrPnp == [k \in {p \in Ports : system = "pnp"} |-> Address(devs[k])]

\* The allocation in Config Manager\Enum of a device without problem.
LptGetAddr95 == [k \in Ports |-> Address(devs[k])]

\* The first resource of the parallel port driver's devices.
LptGetAddrNT4 == [k \in Ports |-> [spp |-> devs[k].spp, ecp |-> 0]]

\* AllocConfig of the devices of class Ports.
LptGetAddrNT == [k \in Ports |-> Address(devs[k])]

\* What an array is filled from, without a helper.
Enumerated == CASE DOMAIN LptGetAddrPnp # {}                     -> LptGetAddrPnp
                [] DOMAIN LptGetAddrPnp = {} /\ system = "95"  -> LptGetAddr95
                [] DOMAIN LptGetAddrPnp = {} /\ system = "nt4" -> LptGetAddrNT4
                [] OTHER -> LptGetAddrNT

\* Array mode: the last one of a number stays.
Write(table, found) ==
  [i \in Indices |->
     LET hits == {k \in DOMAIN found : devs[k].index = i}
     IN  IF hits = {} THEN table[i] ELSE found[Max(hits)]]

\* Single mode: the first one.
Single(i) ==
  LET hits == {k \in Ports : devs[k].index = i}
  IN  IF hits = {} THEN None ELSE Address(devs[Min(hits)])

\* At first the PnP manager, then what the system has; the helper on a 64-bit Windows 8.
LptGetAddr(c) ==
  /\ at[c] = "idle"
  /\ Overlap \/ \A d \in Clients : at[d] \in {"idle", "done"}
  /\ IF system = "wow8"
       THEN at' = [at EXCEPT ![c] = "find"] /\ UNCHANGED <<a, ret>>
       ELSE /\ a' = [a EXCEPT ![c] = Write(@, Enumerated)]
            /\ ret' = [ret EXCEPT ![c] = Cardinality(DOMAIN Enumerated)]  \* all are counted
            /\ at' = [at EXCEPT ![c] = "done"]
  /\ UNCHANGED <<system, devs, own, hWin64>>
-----------------------------------------------------------------------------
(* LptGetAddrIpc *)

Windows == {c \in Clients : own[c] = "open"}

Return(c, count) == at' = [at EXCEPT ![c] = "done"] /\ ret' = [ret EXCEPT ![c] = count]

\* A window that is there already, or else a helper of one's own.
FindWindow(c) ==
  /\ at[c] = "find"
  /\ \/ \E w \in Windows : hWin64' = [hWin64 EXCEPT ![c] = w] /\ at' = [at EXCEPT ![c] = "ask"]
                           /\ UNCHANGED <<own, ret>>
     \/ /\ Windows = {}
        /\ \E found \in {TRUE, ~HelperFails} :
             IF found THEN /\ own' = [own EXCEPT ![c] = "starting"]
                           /\ at' = [at EXCEPT ![c] = "wait"]
                           /\ UNCHANGED ret
                      ELSE Return(c, 0) /\ UNCHANGED own
        /\ UNCHANGED hWin64
  /\ UNCHANGED <<system, devs, a>>

\* RunQueryWnd, or a helper of the wrong kind.
RunQueryWnd(c) ==
  /\ own[c] = "starting"
  /\ own' \in {[own EXCEPT ![c] = "open"]}
              \cup (IF HelperFails THEN {[own EXCEPT ![c] = "ended"]} ELSE {})
  /\ UNCHANGED <<system, devs, at, a, ret, hWin64>>

\* Every 100 ms: a window, whosever, or the end of the helper.
Wait(c) ==
  /\ at[c] = "wait"
  /\ IF Windows # {}
       THEN /\ \E w \in Windows : hWin64' = [hWin64 EXCEPT ![c] = w]
            /\ at' = [at EXCEPT ![c] = "ask"]
            /\ UNCHANGED ret
       ELSE own[c] = "ended" /\ Return(c, 0) /\ UNCHANGED hWin64
  /\ UNCHANGED <<system, devs, a, own>>

\* SendMessage answers 0 once the window is gone.
MsgProc(w, i) == IF own[w] = "open" THEN Single(i) ELSE None

\* Fault: a port that is missing ends the search.
AskContiguous(c) ==
  LET i == ret[c]
      addr == IF i < N THEN MsgProc(hWin64[c], i) ELSE None
  IN  /\ at[c] = "ask"
      /\ a' = IF addr = None THEN a ELSE [a EXCEPT ![c][i] = addr]
      /\ IF i = N \/ addr = None
           THEN at' = [at EXCEPT ![c] = "close"] /\ UNCHANGED ret
           ELSE ret' = [ret EXCEPT ![c] = @ + 1] /\ UNCHANGED at
  /\ UNCHANGED <<system, devs, own, hWin64>>

\* One port; LPT1 to LPT3 are asked for in any case.
Ask(c) ==
  LET i == ret[c]
      addr == IF i < N THEN MsgProc(hWin64[c], i) ELSE None
  IN  /\ at[c] = "ask"
      /\ a' = IF addr = None THEN a ELSE [a EXCEPT ![c][i] = addr]
      /\ IF i = N \/ (i >= 3 /\ addr = None)
           THEN at' = [at EXCEPT ![c] = "close"] /\ UNCHANGED ret
           ELSE ret' = [ret EXCEPT ![c] = @ + 1] /\ UNCHANGED at
  /\ UNCHANGED <<system, devs, own, hWin64>>

\* Who has started a helper closes the window it has found; TerminateProcess if the
\* helper was another one.
Close(c) ==
  /\ at[c] = "close"
  /\ own' = IF own[c] = "none" THEN own
            ELSE [w \in Clients |-> IF w \in {c, hWin64[c]} THEN "ended" ELSE own[w]]
  /\ Return(c, ret[c])
  /\ UNCHANGED <<system, devs, a, hWin64>>

Next ==
  \E c \in Clients :
    LptGetAddr(c) \/ FindWindow(c) \/ RunQueryWnd(c) \/ Wait(c) \/ Ask(c) \/ Close(c)

Spec == Init /\ [][Next]_addrVars
-----------------------------------------------------------------------------
\* Whatever the system is and whoever else asks, a process ends up with the address of
\* a working port of that number for every port, with none where there is no port, and
\* is told of none only if there is none; no helper is left behind.
AddressesTrue ==
  \A c \in Clients : at[c] = "done" =>
    /\ \A i \in Indices :
         LET here == {k \in 1 .. Len(devs) : devs[k].works /\ devs[k].index = i}
         IN  IF here = {} THEN a[c][i] = None ELSE \E k \in here :
               a[c][i].spp = devs[k].spp /\ a[c][i].ecp \in {0, devs[k].ecp}
    /\ ret[c] = 0 => \A k \in 1 .. Len(devs) : ~devs[k].works \/ devs[k].index \notin Indices
    /\ own[c] \in {"none", "ended"}
=============================================================================
