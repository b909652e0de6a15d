----------------------------- MODULE CodePatch -----------------------------
(***************************************************************************)
(* How the driver redirects the kernel's functions READ_PORT_UCHAR and its *)
(* eleven relatives (Vlpt.c, HookSyscalls and BlockSiblingsAndCall): while *)
(* all other processors spin in a DPC with interrupts off, the first five  *)
(* bytes of each function are overwritten by a jump, in two writes.        *)
(* DriverEntry does it, Unload takes it back; one function stands for the  *)
(* twelve.  On each processor a program calls the function again and again.*)
(***************************************************************************)
EXTENDS FiniteSets

CONSTANTS
  Cpus,       \* processors
  PoolFails,  \* TRUE: the DPC objects may not be allocated
  BusyCode    \* TRUE: a program or a DPC may be halfway through code that goes away

VARIABLES
  code,    \* the five bytes: "old", "torn" (first byte new), "jump"
  save,    \* what array save holds: "zero", "old", "jump"
  loaded,  \* the driver is in memory
  call,    \* HookSyscalls or UnhookSyscalls under way
  dpc,     \* dpc[c]: "none", "queued", "spins" or "leaves"
  prog,    \* prog[c]: program at "away", in the five bytes, or in the driver's function
  bad      \* ghost: what has gone wrong

vars == <<code, save, loaded, call, dpc, prog, bad>>

NoCall == [do |-> "none", on |-> "nowhere", at |-> "idle", a |-> {}, b |-> {},
           queue |-> {}, blocking |-> FALSE]

Init ==
  /\ code = "old" /\ save = "zero" /\ loaded = FALSE /\ call = NoCall
  /\ dpc = [c \in Cpus |-> "none"] /\ prog = [c \in Cpus |-> "away"]
  /\ bad = "none"

\* c is not raised to DISPATCH_LEVEL by the call and does not run its DPC.
Free(c) == call.on # c /\ dpc[c] \in {"none", "queued"}
-----------------------------------------------------------------------------
(* BlockSiblingsAndCall *)

\* DriverEntry loads the driver and hooks, Unload unhooks.  With other processors,
\* and without memory, nothing is done and nobody is told.
Call(c, do) ==
  /\ call = NoCall /\ loaded = (do = "unhook")
  /\ ~BusyCode => prog[c] = "away"
  /\ loaded' = TRUE
  /\ LET others == Cpus \ {c} IN
     \/ call' = [do |-> do, on |-> c, at |-> IF others = {} THEN "first" ELSE "queue",
                 a |-> others, b |-> others, queue |-> others, blocking |-> TRUE]
     \/ /\ PoolFails /\ others # {}
        /\ call' = [NoCall EXCEPT !.do = do, !.on = c, !.at = "return"]
  /\ UNCHANGED <<code, save, dpc, prog, bad>>

Queue ==
  /\ call.at = "queue" /\ call.queue # {}
  /\ \E i \in call.queue :
       /\ dpc' = [dpc EXCEPT ![i] = "queued"]
       /\ call' = [call EXCEPT !.queue = @ \ {i}]
  /\ UNCHANGED <<code, save, loaded, prog, bad>>

\* BlockProcessorDpc reports and spins.
Block(i) ==
  /\ dpc[i] = "queued" /\ Free(i)
  /\ ~BusyCode => prog[i] \in (IF call.do = "hook" THEN {"away", "driver"} ELSE {"away"})
  /\ dpc' = [dpc EXCEPT ![i] = "spins"]
  /\ call' = [call EXCEPT !.a = @ \ {i}]
  /\ UNCHANGED <<code, save, loaded, prog, bad>>

\* Fault: only the first other processor is waited for.
OneBlocks == call.at = "queue" /\ call.queue = {} /\ call.a # call.b

AllBlock == call.at = "queue" /\ call.queue = {} /\ call.a = {}

Wait ==
  /\ AllBlock
  /\ call' = [call EXCEPT !.at = "first"]
  /\ UNCHANGED <<code, save, loaded, dpc, prog, bad>>

\* The first byte, by XCHG with the byte saved, and the other four.
FirstByte ==
  /\ call.at = "first"
  /\ code' = "torn"
  /\ save' = IF call.do = "hook" THEN code ELSE save
  /\ call' = [call EXCEPT !.at = "rest"]
  /\ UNCHANGED <<loaded, dpc, prog, bad>>

LetGo(k) == [k EXCEPT !.at = "wait", !.blocking = FALSE]

\* Unhooking writes back whatever is saved.
OtherBytes ==
  /\ call.at = "rest"
  /\ code' = IF call.do = "hook" THEN "jump" ELSE save
  /\ call' = LetGo(call)
  /\ UNCHANGED <<save, loaded, dpc, prog, bad>>

\* A released DPC clears its bit in the caller's variable b ...
Unblock(i) ==
  /\ dpc[i] = "spins" /\ ~call.blocking
  /\ dpc' = [dpc EXCEPT ![i] = "leaves"]
  /\ IF i \in call.b THEN call' = [call EXCEPT !.b = @ \ {i}] /\ UNCHANGED bad
     ELSE bad' = "stack" /\ UNCHANGED call
  /\ UNCHANGED <<code, save, loaded, prog>>

\* ... and has one instruction of the driver's left to run.
EndDpc(i) ==
  /\ dpc[i] = "leaves"
  /\ dpc' = [dpc EXCEPT ![i] = "none"]
  /\ bad' = IF loaded THEN bad ELSE "code"
  /\ UNCHANGED <<code, save, loaded, call, prog>>

AllDone == call.at = "return" \/ (call.at = "wait" /\ call.b = {})

Return ==
  /\ AllDone
  /\ ~BusyCode => \A i \in Cpus : dpc[i] # "leaves"
  /\ call' = NoCall
  /\ loaded' = (call.do = "hook")
  /\ UNCHANGED <<code, save, dpc, prog, bad>>
-----------------------------------------------------------------------------
(* Programs *)

\* The function's first instruction: through the jump into the driver, or into the
\* five bytes.
Enter(c) ==
  /\ Free(c) /\ prog[c] = "away"
  /\ prog' = [prog EXCEPT ![c] = IF code = "jump" THEN "driver" ELSE "bytes"]
  /\ bad' = IF code = "torn" \/ code = "zero" \/ (code = "jump" /\ ~loaded)
            THEN "code" ELSE bad
  /\ UNCHANGED <<code, save, loaded, call, dpc>>

Leave(c) ==
  /\ Free(c) /\ prog[c] # "away"
  /\ prog' = [prog EXCEPT ![c] = "away"]
  /\ bad' = IF IF prog[c] = "driver" THEN ~loaded ELSE code # "old" THEN "code" ELSE bad
  /\ UNCHANGED <<code, save, loaded, call, dpc>>

Next ==
  \/ \E c \in Cpus, do \in {"hook", "unhook"} : Call(c, do)
  \/ Queue \/ Wait \/ FirstByte \/ OtherBytes \/ Return
  \/ \E c \in Cpus : Block(c) \/ Unblock(c) \/ EndDpc(c) \/ Enter(c) \/ Leave(c)

\* The caller goes on, DPCs run when their processor is free again and again,
\* programs that are in a function leave it.
Fairness ==
  /\ WF_vars(Queue) /\ WF_vars(Wait) /\ WF_vars(FirstByte) /\ WF_vars(OtherBytes) /\ WF_vars(Return)
  /\ \A c \in Cpus : SF_vars(Block(c)) /\ WF_vars(Unblock(c)) /\ WF_vars(EndDpc(c)) /\ WF_vars(Leave(c))

Spec == Init /\ [][Next]_vars
FairSpec == Spec /\ Fairness
-----------------------------------------------------------------------------
TypeOK ==
  /\ code \in {"old", "torn", "jump", "zero"} /\ save \in {"zero", "old", "jump"}
  /\ loaded \in BOOLEAN /\ bad \in {"none", "stack", "code"}
  /\ dpc \in [Cpus -> {"none", "queued", "spins", "leaves"}]
  /\ prog \in [Cpus -> {"away", "bytes", "driver"}]
  /\ call.on \in Cpus \cup {"nowhere"} /\ call.a \subseteq call.b /\ call.b \subseteq Cpus

\* No processor runs the function while its bytes are half written or after the
\* driver has gone; no DPC writes to the stack of a call that has returned
\* (Vlpt.c:1142-1148); and between two calls the function is redirected exactly while
\* the driver is loaded.
PatchedWhole == bad = "none" /\ (call = NoCall => code = (IF loaded THEN "jump" ELSE "old"))

\* Every processor that spins is released.
Released == \A c \in Cpus : dpc[c] = "spins" ~> dpc[c] = "none"
=============================================================================
