------------------------------- MODULE OutIn -------------------------------
(***************************************************************************)
(* OutIn and its completion routine OutInFertig (sys/Usb2lpt.c:127-360).   *)
(* One call makes a JOB with up to two IRPs, one for each bulk pipe, and   *)
(* passes them down one after the other; the completion routine runs once  *)
(* for each IRP, possibly on another processor while OutIn still submits,  *)
(* and the last run answers the caller and frees the job.  There is no     *)
(* lock: the job's counter ct is all that orders them.                     *)
(*                                                                         *)
(* A job is a piece of pool memory: after it has been freed, the same      *)
(* element of Jobs may be allocated again.                                 *)
(***************************************************************************)
EXTENDS Integers, FiniteSets

CONSTANTS
  Jobs,    \* pool blocks for jobs
  Refusal  \* what a lower driver whose IoCallDriver returns an error has done
           \* with the IRP: "completed" it or left it "untouched"

Transfers == {"w", "r"}  \* urbw with irpw, urbr with irpr

ASSUME OutInAssumption == Refusal \in {"completed", "untouched"}

VARIABLES
  pc,      \* where the call for job j is in OutIn
  wanted,  \* its parameters: ol # 0, il # 0
  user,    \* its parameter I # NULL, later J->irpj: a user's IRP to complete
  live,    \* job j is allocated
  ct,      \* J->ct
  field,   \* which of J->irpw and J->irpr are not NULL
  stat,    \* NT_SUCCESS(J->stat)
  irp,     \* ghost: IRPs of job j that are allocated
  lower,   \* IRPs that are with the lower driver
  answer,  \* ghost: what the caller was told by completing irpj or setting ev
  ev,      \* X->ev is signalled
  wild     \* ghost: a job was used that was not allocated (any more)

vars == <<pc, wanted, user, live, ct, field, stat, irp, lower, answer, ev, wild>>

Label == {"idle", "irpw", "irpr", "clear", "write", "writeRefused", "read",
          "readRefused"}

TypeOK ==
  /\ pc \in [Jobs -> Label]
  /\ wanted \in [Jobs -> SUBSET Transfers]
  /\ user \in [Jobs -> BOOLEAN] /\ live \in [Jobs -> BOOLEAN]
  /\ ct \in [Jobs -> 0 .. 2]
  /\ field \in [Jobs -> SUBSET Transfers] /\ stat \in [Jobs -> BOOLEAN]
  /\ irp \in [Jobs -> SUBSET Transfers] /\ lower \in [Jobs -> SUBSET Transfers]
  /\ answer \in [Jobs -> {"none", "success", "failure"}]
  /\ ev \in BOOLEAN /\ wild \in BOOLEAN

Init ==
  /\ pc = [j \in Jobs |-> "idle"] /\ wanted = [j \in Jobs |-> {}]
  /\ user = [j \in Jobs |-> FALSE] /\ live = [j \in Jobs |-> FALSE]
  /\ ct = [j \in Jobs |-> 0] /\ field = [j \in Jobs |-> {}]
  /\ stat = [j \in Jobs |-> TRUE]
  /\ irp = [j \in Jobs |-> {}] /\ lower = [j \in Jobs |-> {}]
  /\ answer = [j \in Jobs |-> "none"]
  /\ ev = TRUE /\ wild = FALSE

Goto(j, label) == pc' = [pc EXCEPT ![j] = label]
-----------------------------------------------------------------------------
(* OutIn: allocations *)

\* Its callers hold X->bmutex (one after the other), and have waited for ev
\* before they start a job of the driver's own.
Serialised(u) == (\A k \in Jobs : pc[k] = "idle") /\ (~u => ev)

\* The job is allocated and zeroed.
Call(j, u, d) ==
  /\ ~live[j] /\ Serialised(u) /\ d # {}
  /\ wanted' = [wanted EXCEPT ![j] = d]
  /\ user' = [user EXCEPT ![j] = u]
  /\ live' = [live EXCEPT ![j] = TRUE]
  /\ ct' = [ct EXCEPT ![j] = 0]
  /\ field' = [field EXCEPT ![j] = {}]
  /\ stat' = [stat EXCEPT ![j] = TRUE]
  /\ Goto(j, IF "w" \in d THEN "irpw" ELSE "irpr")
  /\ UNCHANGED <<irp, lower, answer, ev, wild>>

\* Fault: ct is set, not raised.
AllocateIrpSets(j) ==
  LET d == IF pc[j] = "irpw" THEN "w" ELSE "r"
      more == pc[j] = "irpw" /\ "r" \in wanted[j]
  IN  /\ pc[j] \in {"irpw", "irpr"}
      /\ ct' = [ct EXCEPT ![j] = 1]
      /\ field' = [field EXCEPT ![j] = @ \cup {d}]
      /\ irp' = [irp EXCEPT ![j] = @ \cup {d}]
      /\ answer' = IF more THEN answer ELSE [answer EXCEPT ![j] = "none"]
      /\ Goto(j, IF more THEN "irpr" ELSE "clear")
      /\ UNCHANGED <<wanted, user, live, stat, lower, ev, wild>>

\* ct is raised and the IRP of one transfer allocated.
AllocateIrp(j) ==
  LET d == IF pc[j] = "irpw" THEN "w" ELSE "r"
      more == pc[j] = "irpw" /\ "r" \in wanted[j]
  IN  /\ pc[j] \in {"irpw", "irpr"}
      /\ ct' = [ct EXCEPT ![j] = @ + 1]
      /\ field' = [field EXCEPT ![j] = @ \cup {d}]
      /\ irp' = [irp EXCEPT ![j] = @ \cup {d}]
      /\ answer' = IF more THEN answer ELSE [answer EXCEPT ![j] = "none"]
      /\ Goto(j, IF more THEN "irpr" ELSE "clear")
      /\ UNCHANGED <<wanted, user, live, stat, lower, ev, wild>>

\* Fault: the IRP allocated before is forgotten.
NoIrpLeaks(j) ==
  /\ pc[j] \in {"irpw", "irpr"}
  /\ live' = [live EXCEPT ![j] = FALSE]
  /\ Goto(j, "idle")
  /\ UNCHANGED <<wanted, user, ct, field, stat, irp, lower, answer, ev, wild>>

\* IoAllocateIrp fails: the other IRP and the job are freed, OutIn returns an
\* error.
NoIrp(j) ==
  /\ pc[j] \in {"irpw", "irpr"}
  /\ irp' = [irp EXCEPT ![j] = {}]
  /\ live' = [live EXCEPT ![j] = FALSE]
  /\ Goto(j, "idle")
  /\ UNCHANGED <<wanted, user, ct, field, stat, lower, answer, ev, wild>>

\* ev turns red before the first transfer starts.
ClearEv(j) ==
  /\ pc[j] = "clear"
  /\ ev' = (ev /\ user[j])
  /\ Goto(j, IF "w" \in wanted[j] THEN "write" ELSE "read")
  /\ UNCHANGED <<wanted, user, live, ct, field, stat, irp, lower, answer, wild>>
-----------------------------------------------------------------------------
(* OutInFertig for the IRP of transfer d, that ended well or not.  What memory *)
(* that is no longer a job makes of it is not modelled beyond "wild".          *)

\* Fault: the status of the last transfer is the answer, whatever the other's was.
FertigLastStatus(j, d, ok) ==
  LET last == ct[j] = 1
  IN  /\ stat' = [stat EXCEPT ![j] = ok]
      /\ field' = [field EXCEPT ![j] = @ \ {d}]
      /\ irp' = [irp EXCEPT ![j] = @ \ {d}]
      /\ ct' = [ct EXCEPT ![j] = @ - 1]
      /\ answer' = IF last
                   THEN [answer EXCEPT ![j] = IF ok THEN "success" ELSE "failure"]
                   ELSE answer
      /\ ev' = (ev \/ (last /\ ~user[j]))
      /\ live' = [live EXCEPT ![j] = ~last]
      /\ UNCHANGED wild

Fertig(j, d, ok) ==
  IF ~live[j]
  THEN wild' = TRUE /\ UNCHANGED <<live, ct, field, stat, irp, answer, ev>>
  ELSE LET good == stat[j] /\ ok  last == ct[j] = 1
       IN  /\ stat' = [stat EXCEPT ![j] = good]
           /\ field' = [field EXCEPT ![j] = @ \ {d}]
           /\ irp' = [irp EXCEPT ![j] = @ \ (field[j] \cap {d})]
           /\ ct' = [ct EXCEPT ![j] = @ - 1]
           /\ answer' = IF last
                        THEN [answer EXCEPT ![j] = IF good THEN "success" ELSE "failure"]
                        ELSE answer
           /\ ev' = (ev \/ (last /\ ~user[j]))
           /\ live' = [live EXCEPT ![j] = ~last]
           /\ UNCHANGED wild
-----------------------------------------------------------------------------
(* OutIn: submission *)

Direction(j) == IF pc[j] \in {"write", "writeRefused"} THEN "w" ELSE "r"

\* Fault: only one of the two transfers is submitted.
AfterReturns(j) == "idle"

\* From the OUT transfer on to the IN transfer, from that back to the caller.
After(j) == IF Direction(j) = "w" /\ "r" \in wanted[j] THEN "read" ELSE "idle"

\* The lower driver keeps the IRP.
Submit(j) ==
  /\ pc[j] \in {"write", "read"}
  /\ lower' = [lower EXCEPT ![j] = @ \cup ({Direction(j)} \cap irp[j])]
  /\ wild' = (wild \/ ~live[j])
  /\ Goto(j, After(j))
  /\ UNCHANGED <<wanted, user, live, ct, field, stat, irp, answer, ev>>

\* IoCallDriver returns an error.
Refuse(j) ==
  /\ pc[j] \in {"write", "read"}
  /\ IF Refusal = "completed"
     THEN Fertig(j, Direction(j), FALSE)
     ELSE UNCHANGED <<live, ct, field, stat, irp, answer, ev, wild>>
  /\ Goto(j, IF Direction(j) = "w" THEN "writeRefused" ELSE "readRefused")
  /\ UNCHANGED <<wanted, user, lower>>

\* "Problem 1", "Problem 2": OutIn calls the completion routine itself.  That
\* reads the IRP's status: success, as IoAllocateIrp left it, in an IRP nobody has
\* touched, anything in one that has been freed.
Problem(j) ==
  /\ pc[j] \in {"writeRefused", "readRefused"}
  /\ \E ok \in BOOLEAN :
       (Refusal = "untouched" => ok) /\ Fertig(j, Direction(j), ok)
  /\ Goto(j, After(j))
  /\ UNCHANGED <<wanted, user, lower>>

\* The lower driver completes an IRP.
Complete(j, d, ok) ==
  /\ d \in lower[j]
  /\ lower' = [lower EXCEPT ![j] = @ \ {d}]
  /\ Fertig(j, d, ok)
  /\ UNCHANGED <<pc, wanted, user>>

Step(j) == AllocateIrp(j) \/ NoIrp(j) \/ ClearEv(j) \/ Submit(j) \/ Refuse(j) \/ Problem(j)

Next == \E j \in Jobs :
  \/ \E u \in BOOLEAN, d \in SUBSET Transfers : Call(j, u, d)
  \/ Step(j)
  \/ \E d \in Transfers, ok \in BOOLEAN : Complete(j, d, ok)

Spec == Init /\ [][Next]_vars

\* OutIn runs on, and the lower driver ends every transfer, well or not.
Fairness ==
  \A j \in Jobs :
    /\ WF_vars(Step(j))
    /\ \A d \in Transfers : WF_vars(\E ok \in BOOLEAN : Complete(j, d, ok))

FairSpec == Spec /\ Fairness
-----------------------------------------------------------------------------
\* "Is finally freed", "is freed at the end" (Usb2lpt.c:187-188), and not before:
\* nobody uses a job after it has been freed.
NoWildJob == ~wild

\* Nothing leaks on any path, the failing allocations and refused transfers
\* included: when OutIn has returned and the lower driver has nothing of the
\* job, the job and its IRPs are freed; and while it has, they are not.
FreedWhenDone ==
  \A j \in Jobs : pc[j] = "idle" =>
    IF lower[j] = {} THEN ~live[j] /\ irp[j] = {} ELSE live[j] /\ irp[j] = lower[j]

\* Both: each block is freed once, after its last user.
FreedOnceAtEnd == NoWildJob /\ FreedWhenDone

\* To its callers OutIn is one step that starts the transfers, and one answer
\* after the last of them.
Building(j) == pc[j] \in {"irpw", "irpr"}
Life == INSTANCE JobLife
          WITH out  <- [j \in Jobs |-> IF Building(j) \/ ~live[j] THEN {} ELSE field[j]],
               good <- [j \in Jobs |-> Building(j) \/ ~live[j] \/ stat[j]]
ActsAsJob == Life!Spec

\* Every call is answered: WaitForUrbComplete and the user's IRP come to an end.
Answered == \A j \in Jobs : live[j] ~> ~live[j]
=============================================================================
