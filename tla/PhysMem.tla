------------------------------ MODULE PhysMem ------------------------------
(***************************************************************************)
(* Programs that map physical memory with inpout32.dll (inpout32.cpp):     *)
(* MapPhysToLin, UnmapPhysicalMemory, GetPhysLong and SetPhysLong, and     *)
(* EnsureBiosDataArea of the debug console (Redir.cpp), which corrects the *)
(* table of LPT addresses in the BIOS data area.  On Windows 9x a mapping  *)
(* is a copy that is put back at the end; on NT the driver maps the memory *)
(* itself and keeps a mapping until it is told to unmap it.                *)
(***************************************************************************)
EXTENDS Integers, FiniteSets, FiniteSetsExt

CONSTANTS
  Programs,
  Systems,    \* of 9x, nt32 (the 32-bit DLL on NT) and nt64 (the 64-bit DLL)
  Alone,      \* one mapping at a time
  HighLin,    \* the driver may map to addresses above 4 GB (nt64)
  MaxCalls    \* bound on the calls

PhysMemAssumption ==
  MaxCalls \in Nat /\ Systems \subseteq {"9x", "nt32", "nt64"} /\ {Alone, HighLin} \subseteq BOOLEAN

\* The words of the BIOS data area from 40:08 on: addresses of LPT1 to LPT3 (0: none, 1: that
\* of the true port, 2: another one), and the number of ports in 40:10.
Lpts == 0 .. 2
Words == 0 .. 3
Installed == 3

VARIABLES
  sys,
  true,      \* RedirInfo: numbers of the true ports
  memory,    \* the words of the area
  mapping,   \* mapping[p]: the words as they were copied; not used on NT
  kept,      \* mappings the driver keeps
  call,      \* what a program does: idle, map, get, set, console; its mapping is done
  done,      \* whether it has worked in its mapping
  result,    \* of the last GetPhysLong or SetPhysLong; "crash" of a bad pointer
  wanted,    \* ghost: what was written last to each word
  calls

physVars == <<sys, true, memory, mapping, kept, call, done, result, wanted, calls>>

Init ==
  /\ sys \in Systems
  /\ true \in SUBSET Lpts
  /\ memory \in {[w \in Words |-> 0], [w \in Words |-> IF w = Installed THEN 1 ELSE 2]}
  /\ mapping = [p \in Programs |-> memory]
  /\ kept = 0 /\ call = [p \in Programs |-> "idle"] /\ done = [p \in Programs |-> FALSE]
  /\ result = [p \in Programs |-> "none"] /\ wanted = memory /\ calls = 0
-----------------------------------------------------------------------------
\* MapPhysToLin: a copy with its address and length in front, or a mapping of the driver.
MapPhysToLin(p, what) ==
  /\ call[p] = "idle" /\ calls < MaxCalls
  /\ Alone => \A q \in Programs : call[q] = "idle"
  /\ calls' = calls + 1
  /\ IF sys = "9x" /\ what \in {"get", "set"}
       THEN result' = [result EXCEPT ![p] = "refused"] /\ UNCHANGED <<mapping, kept, call>>
       ELSE /\ mapping' = [mapping EXCEPT ![p] = memory]
            /\ kept' = IF sys = "9x" THEN kept ELSE kept + 1
            /\ call' = [call EXCEPT ![p] = what]
            /\ result' = [result EXCEPT ![p] = "none"]
  /\ UNCHANGED <<sys, true, memory, done, wanted>>

Seen(p) == IF sys = "9x" THEN mapping[p] ELSE memory

\* Fault: the number of ports is looked at for the first of them only.
EnsureFirstBios(words) ==
  [w \in Words |-> CASE w \in true -> 1
                     [] w = Installed /\ true # {} -> Max({words[w], Min(true) + 1})
                     [] OTHER -> words[w]]

\* EnsureBiosDataArea: the true ports, and at least as many ports as the last of them.
EnsureBios(words) ==
  [w \in Words |-> CASE w \in true -> 1
                     [] w = Installed -> Max({words[w]} \cup {i + 1 : i \in true})
                     [] OTHER -> words[w]]

\* What a call makes of the words: a program writes one, SetPhysLong two of them.
Written(p, words) ==
  CASE call[p] = "map"     -> {[words EXCEPT ![w] = 1] : w \in Words}
    [] call[p] = "set"     -> {[words EXCEPT ![w] = 1, ![w + 1] = 1] : w \in {0, 1}}
    [] call[p] = "console" -> {EnsureBios(words)}
    [] OTHER               -> {words}

\* The pointer is cut to 32 bits on its way.
Work(p) ==
  /\ call[p] # "idle" /\ ~done[p] /\ result[p] # "crash"
  /\ \E high \in {FALSE, HighLin /\ sys = "nt64"} :
       IF high THEN /\ result' = [result EXCEPT ![p] = "crash"]
                    /\ UNCHANGED <<memory, mapping, done, wanted>>
       ELSE \E words \in Written(p, Seen(p)) :
              /\ IF sys = "9x" THEN mapping' = [mapping EXCEPT ![p] = words] /\ UNCHANGED memory
                               ELSE memory' = words /\ UNCHANGED mapping
              /\ wanted' = [w \in Words |-> IF words[w] # Seen(p)[w] THEN words[w] ELSE wanted[w]]
              /\ done' = [done EXCEPT ![p] = TRUE]
              /\ UNCHANGED result
  /\ UNCHANGED <<sys, true, kept, call, calls>>

\* UnmapPhysicalMemory: the copy goes back; the 32-bit DLL returns before it tells the
\* driver.  GetPhysLong and SetPhysLong return what it returns.
UnmapPhysicalMemory(p) ==
  /\ call[p] # "idle" /\ done[p]
  /\ memory' = IF sys = "9x" THEN mapping[p] ELSE memory
  /\ kept' = IF sys = "nt64" THEN kept - 1 ELSE kept
  /\ result' = [result EXCEPT ![p] =
       IF call[p] \in {"get", "set"} THEN (IF sys = "nt64" THEN "TRUE" ELSE "FALSE") ELSE @]
  /\ call' = [call EXCEPT ![p] = "idle"] /\ done' = [done EXCEPT ![p] = FALSE]
  /\ UNCHANGED <<sys, true, mapping, wanted, calls>>

Next ==
  \E p \in Programs :
    \/ \E what \in {"map", "get", "set", "console"} : MapPhysToLin(p, what)
    \/ Work(p)
    \/ UnmapPhysicalMemory(p)

Spec == Init /\ [][Next]_physVars
-----------------------------------------------------------------------------
\* When no program is in a call the memory holds what was written last, the driver
\* keeps no mapping, and whoever was told that a call failed has changed nothing; the
\* console leaves a table in which no port lies beyond the number of ports.
MappingsKept ==
  /\ \A p \in Programs : result[p] \notin {"crash", "FALSE"}
  /\ (\A p \in Programs : call[p] = "idle") => memory = wanted /\ kept = 0
  /\ \A p \in Programs : call[p] = "console" /\ done[p] /\ Alone =>
       /\ \A i \in true : Seen(p)[i] = 1 /\ Seen(p)[Installed] > i
=============================================================================
