---------------------------- MODULE Driver_proofs ----------------------------
(***************************************************************************)
(* Proofs about parts of the driver that share no state: the jobs of OutIn *)
(* (OutIn), the patching of the kernel's functions (CodePatch), the way of *)
(* an access to the driver (PortAccess) and the debug registers            *)
(* (DebugTrap), for any number of jobs, processors, addresses and devices. *)
(***************************************************************************)
EXTENDS MCDriver, WellFoundedInduction, TLAPS

(***************************************************************************)
(* The jobs of OutIn, with a lower driver that leaves an IRP it refuses    *)
(* untouched.  (For one that completes it, as the rules of the driver      *)
(* model say, they are false: see README, Findings.)                       *)
(***************************************************************************)

\* The transfers OutIn has still to submit.
Todo(j) ==
  CASE pc[j] \in {"clear", "write", "writeRefused"} -> wanted[j]
    [] pc[j] \in {"read", "readRefused"} -> {"r"}
    [] pc[j] = "irpr" -> wanted[j] \ {"r"}
    [] OTHER -> {}

Count(s) == (IF "w" \in s THEN 1 ELSE 0) + (IF "r" \in s THEN 1 ELSE 0)

\* ct counts the transfers that have not ended: those with the lower driver and
\* those still to be submitted.  It cannot reach 0 while one is left, which is
\* what keeps the job alive until then.
CtCounts(j) ==
  /\ field[j] = lower[j] \cup Todo(j)
  /\ lower[j] \cap Todo(j) = {}
  /\ ct[j] = Count(field[j])
  /\ irp[j] = field[j]

Where(j) ==
  /\ pc[j] \in {"irpw", "write", "writeRefused"} => "w" \in wanted[j]
  /\ pc[j] \in {"irpr", "read", "readRefused"} => "r" \in wanted[j]
  /\ pc[j] = "clear" => wanted[j] # {}
  /\ pc[j] \in {"irpw", "irpr", "clear", "write", "writeRefused"} => lower[j] = {}

JobOK(j) ==
  IF live[j]
  THEN CtCounts(j) /\ Where(j) /\ (pc[j] = "idle" => lower[j] # {})
  ELSE pc[j] = "idle" /\ lower[j] = {} /\ irp[j] = {}

JobIInv == TypeOK /\ NoWildJob /\ \A j \in Jobs : JobOK(j)

\* A step changes one job.
Others(j) == \A k \in Jobs \ {j} :
  /\ pc'[k] = pc[k] /\ wanted'[k] = wanted[k] /\ live'[k] = live[k]
  /\ ct'[k] = ct[k] /\ field'[k] = field[k] /\ irp'[k] = irp[k]
  /\ lower'[k] = lower[k]

LEMMA FrameOthers ==
  ASSUME NEW j \in Jobs, Others(j), \A k \in Jobs : JobOK(k), JobOK(j)'
  PROVE  (\A k \in Jobs : JobOK(k))'
  <1>1. ASSUME NEW k \in Jobs \ {j} PROVE JobOK(k)'
    BY DEF Others, JobOK, CtCounts, Where, Todo
  <1>. QED BY <1>1
-----------------------------------------------------------------------------
LEMMA InitJobs == Init => JobIInv
  <1>. SUFFICES ASSUME Init PROVE JobIInv
    OBVIOUS
  <1>1. TypeOK
    <2>1. pc \in [Jobs -> Label] /\ ct \in [Jobs -> 0 .. 2]
      BY DEF Init, Label
    <2>2. /\ wanted \in [Jobs -> SUBSET Transfers] /\ field \in [Jobs -> SUBSET Transfers]
          /\ irp \in [Jobs -> SUBSET Transfers] /\ lower \in [Jobs -> SUBSET Transfers]
      BY DEF Init
    <2>3. /\ user \in [Jobs -> BOOLEAN] /\ live \in [Jobs -> BOOLEAN]
          /\ stat \in [Jobs -> BOOLEAN] /\ ev \in BOOLEAN /\ wild \in BOOLEAN
          /\ answer \in [Jobs -> {"none", "success", "failure"}]
      BY DEF Init
    <2>. QED BY <2>1, <2>2, <2>3 DEF TypeOK
  <1>2. \A j \in Jobs : JobOK(j)
    BY DEF Init, JobOK
  <1>. QED BY <1>1, <1>2 DEF Init, JobIInv, NoWildJob

LEMMA CallStep ==
  ASSUME JobIInv, NEW j \in Jobs, NEW u \in BOOLEAN, NEW d \in SUBSET Transfers,
         Call(j, u, d)
  PROVE  JobIInv'
  <1>1. TypeOK'
    BY DEF JobIInv, TypeOK, Call, Goto, Label
  <1>2. JobOK(j)'
    BY DEF JobIInv, TypeOK, Call, Goto, JobOK, CtCounts, Where, Todo, Count, Transfers
  <1>3. Others(j)
    BY DEF JobIInv, TypeOK, Call, Goto, Others
  <1>. QED BY <1>1, <1>2, <1>3, FrameOthers DEF JobIInv, NoWildJob, Call

LEMMA AllocateIrpStep ==
  ASSUME JobIInv, NEW j \in Jobs, AllocateIrp(j)
  PROVE  JobIInv'
  <1>0. live[j] /\ JobOK(j)
    BY DEF JobIInv, JobOK, AllocateIrp
  <1>1. ct[j] \in 0 .. 1
    BY <1>0 DEF AllocateIrp, JobOK, CtCounts, Where, Todo, Count
  <1>2. TypeOK'
    BY <1>1 DEF JobIInv, TypeOK, AllocateIrp, Goto, Label, Transfers
  <1>3. JobOK(j)'
    BY <1>0 DEF JobIInv, TypeOK, AllocateIrp, Goto, JobOK, CtCounts, Where, Todo, Count, Transfers
  <1>4. Others(j)
    BY DEF JobIInv, TypeOK, AllocateIrp, Goto, Others
  <1>. QED BY <1>2, <1>3, <1>4, FrameOthers DEF JobIInv, NoWildJob, AllocateIrp

LEMMA NoIrpStep ==
  ASSUME JobIInv, NEW j \in Jobs, NoIrp(j)
  PROVE  JobIInv'
  <1>1. TypeOK'
    BY DEF JobIInv, TypeOK, NoIrp, Goto, Label
  <1>2. JobOK(j)'
    BY DEF JobIInv, TypeOK, NoIrp, Goto, JobOK, Where
  <1>3. Others(j)
    BY DEF JobIInv, TypeOK, NoIrp, Goto, Others
  <1>. QED BY <1>1, <1>2, <1>3, FrameOthers DEF JobIInv, NoWildJob, NoIrp

LEMMA ClearEvStep ==
  ASSUME JobIInv, NEW j \in Jobs, ClearEv(j)
  PROVE  JobIInv'
  <1>1. TypeOK'
    BY DEF JobIInv, TypeOK, ClearEv, Goto, Label
  <1>2. JobOK(j)'
    BY DEF JobIInv, TypeOK, ClearEv, Goto, JobOK, CtCounts, Where, Todo, Transfers
  <1>3. Others(j)
    BY DEF JobIInv, TypeOK, ClearEv, Goto, Others
  <1>. QED BY <1>1, <1>2, <1>3, FrameOthers DEF JobIInv, NoWildJob, ClearEv

\* OutInFertig for a transfer that has not ended: the job lives on exactly if
\* another one has not ended either.
Effect(j, d, ok) ==
  /\ d \in Transfers /\ wild' = wild
  /\ field' = [field EXCEPT ![j] = @ \ {d}]
  /\ irp' = [irp EXCEPT ![j] = @ \ {d}]
  /\ ct[j] \in 1 .. 2 /\ ct' = [ct EXCEPT ![j] = @ - 1]
  /\ ct[j] - 1 = Count(field[j] \ {d})
  /\ live' = [live EXCEPT ![j] = (field[j] # {d})]
  /\ stat' = [stat EXCEPT ![j] = (stat[j] /\ ok)]
  /\ answer' = IF field[j] = {d}
               THEN [answer EXCEPT ![j] = IF stat[j] /\ ok THEN "success" ELSE "failure"]
               ELSE answer
  /\ ev' = (ev \/ (field[j] = {d} /\ ~user[j]))

LEMMA FertigEffect ==
  ASSUME JobIInv, NEW j \in Jobs, NEW d \in field[j], NEW ok \in BOOLEAN,
         live[j], Fertig(j, d, ok)
  PROVE  Effect(j, d, ok)
  <1>1. d \in Transfers /\ field[j] \subseteq Transfers
    BY DEF JobIInv, TypeOK
  <1>2. ct[j] = Count(field[j]) /\ irp[j] = field[j]
    BY DEF JobIInv, JobOK, CtCounts
  <1>3. (ct[j] = 1 <=> field[j] = {d}) /\ ct[j] \in 1 .. 2
    BY <1>1, <1>2 DEF Count, Transfers
  <1>4. ct[j] - 1 = Count(field[j] \ {d})
    BY <1>1, <1>2 DEF Count, Transfers
  <1>5. irp[j] \ (field[j] \cap {d}) = irp[j] \ {d}
    OBVIOUS
  <1>. QED BY <1>1, <1>3, <1>4, <1>5 DEF Fertig, JobIInv, NoWildJob, Effect

\* The types that OutInFertig has to preserve.
LEMMA FertigType ==
  ASSUME JobIInv, NEW j \in Jobs, NEW d, NEW ok \in BOOLEAN, Effect(j, d, ok),
         UNCHANGED <<wanted, user>>,
         pc' \in [Jobs -> Label], lower' \in [Jobs -> SUBSET Transfers]
  PROVE  TypeOK'
  <1>1. ct' \in [Jobs -> 0 .. 2]
    BY DEF JobIInv, TypeOK, Effect
  <1>2. /\ field' \in [Jobs -> SUBSET Transfers] /\ irp' \in [Jobs -> SUBSET Transfers]
        /\ live' \in [Jobs -> BOOLEAN]
    BY DEF JobIInv, TypeOK, Effect
  <1>3. stat' \in [Jobs -> BOOLEAN]
    BY DEF JobIInv, TypeOK, Effect
  <1>4. answer' \in [Jobs -> {"none", "success", "failure"}]
    BY DEF JobIInv, TypeOK, Effect
  <1>5. ev' \in BOOLEAN /\ wild' \in BOOLEAN
    BY DEF JobIInv, TypeOK, Effect
  <1>. QED BY <1>1, <1>2, <1>3, <1>4, <1>5 DEF JobIInv, TypeOK

\* ... and what is left of the job.
LEMMA FertigJob ==
  ASSUME JobIInv, NEW j \in Jobs, NEW d, NEW ok \in BOOLEAN, Effect(j, d, ok),
         live[j]
  PROVE  /\ field'[j] = field[j] \ {d} /\ irp'[j] = field'[j]
         /\ ct'[j] = Count(field'[j]) /\ (live'[j] <=> field[j] # {d})
         /\ \A k \in Jobs \ {j} : /\ live'[k] = live[k] /\ ct'[k] = ct[k]
                                  /\ field'[k] = field[k] /\ irp'[k] = irp[k]
  <1>1. irp[j] = field[j]
    BY DEF JobIInv, JobOK, CtCounts
  <1>. QED BY <1>1 DEF JobIInv, TypeOK, Effect

LEMMA SubmitStep ==
  ASSUME JobIInv, NEW j \in Jobs, Submit(j)
  PROVE  JobIInv'
  <1>1. live[j] /\ JobOK(j)
    BY DEF JobIInv, JobOK, Submit
  <1>2. Direction(j) \in irp[j] /\ Direction(j) \in Transfers
    BY <1>1 DEF Submit, JobOK, CtCounts, Where, Todo, Direction, Transfers
  <1>3. lower' = [lower EXCEPT ![j] = @ \cup {Direction(j)}] /\ ~wild'
    BY <1>1, <1>2 DEF Submit, JobIInv, NoWildJob
  <1>4. TypeOK'
    BY <1>2, <1>3 DEF JobIInv, TypeOK, Submit, Goto, After, Label
  <1>5. JobOK(j)'
    BY <1>1, <1>2, <1>3 DEF JobIInv, TypeOK, Submit, Goto, After, Direction, JobOK,
       CtCounts, Where, Todo, Transfers
  <1>6. Others(j)
    BY <1>3 DEF JobIInv, TypeOK, Submit, Goto, Others
  <1>. QED BY <1>3, <1>4, <1>5, <1>6, FrameOthers DEF JobIInv, NoWildJob

LEMMA RefuseStep ==
  ASSUME JobIInv, NEW j \in Jobs, Refusal = "untouched", Refuse(j)
  PROVE  JobIInv'
  <1>1. live[j] /\ JobOK(j)
    BY DEF JobIInv, JobOK, Refuse
  <1>2. TypeOK'
    BY DEF JobIInv, TypeOK, Refuse, Goto, Label
  <1>3. JobOK(j)'
    BY <1>1 DEF JobIInv, TypeOK, Refuse, Goto, Direction, JobOK, CtCounts, Where,
       Todo, Transfers
  <1>4. Others(j)
    BY DEF JobIInv, TypeOK, Refuse, Goto, Others
  <1>. QED BY <1>2, <1>3, <1>4, FrameOthers DEF JobIInv, NoWildJob, Refuse

LEMMA ProblemStep ==
  ASSUME JobIInv, NEW j \in Jobs, Problem(j)
  PROVE  JobIInv'
  <1>1. live[j] /\ JobOK(j)
    BY DEF JobIInv, JobOK, Problem
  <1>2. /\ Direction(j) \in field[j] /\ Direction(j) \notin lower[j]
        /\ Direction(j) \in Transfers
    BY <1>1 DEF Problem, JobOK, CtCounts, Where, Todo, Direction, Transfers
  <1>0. PICK ok \in BOOLEAN : Fertig(j, Direction(j), ok)
    BY DEF Problem
  <1>3. /\ Effect(j, Direction(j), ok)
        /\ pc' = [pc EXCEPT ![j] = After(j)] /\ UNCHANGED <<wanted, user, lower>>
    BY <1>0, <1>1, <1>2, FertigEffect DEF Problem, Goto
  <1>4. TypeOK'
    BY <1>2, <1>3, FertigType DEF JobIInv, TypeOK, Label, After
  <1>5. JobOK(j)'
    <2>1. pc'[j] = After(j) /\ wanted'[j] = wanted[j] /\ lower'[j] = lower[j]
      BY <1>3 DEF JobIInv, TypeOK
    <2>2. /\ field'[j] = field[j] \ {Direction(j)} /\ irp'[j] = field'[j]
          /\ ct'[j] = Count(field'[j]) /\ (live'[j] <=> field[j] # {Direction(j)})
      BY <1>1, <1>3, FertigJob
    <2>3. CASE Direction(j) = "w"
      BY <1>1, <1>2, <2>1, <2>2, <2>3 DEF Problem, After, Direction, JobOK,
         CtCounts, Where, Todo, JobIInv, TypeOK, Transfers
    <2>4. CASE Direction(j) = "r"
      BY <1>1, <1>2, <2>1, <2>2, <2>4 DEF Problem, After, Direction, JobOK,
         CtCounts, Where, Todo, JobIInv, TypeOK, Transfers
    <2>. QED BY <2>3, <2>4 DEF Direction
  <1>6. Others(j)
    BY <1>1, <1>3, FertigJob DEF JobIInv, TypeOK, Others
  <1>7. ~wild'
    BY <1>3 DEF Effect, JobIInv, NoWildJob
  <1>. QED BY <1>4, <1>5, <1>6, <1>7, FrameOthers DEF JobIInv, NoWildJob

LEMMA CompleteStep ==
  ASSUME JobIInv, NEW j \in Jobs, NEW d \in Transfers, NEW ok \in BOOLEAN,
         Complete(j, d, ok)
  PROVE  JobIInv'
  <1>1. live[j] /\ JobOK(j)
    BY DEF JobIInv, JobOK, Complete
  <1>2. d \in field[j] /\ d \in lower[j]
    BY <1>1 DEF Complete, JobOK, CtCounts
  <1>3. /\ Effect(j, d, ok) /\ lower' = [lower EXCEPT ![j] = @ \ {d}]
        /\ UNCHANGED <<pc, wanted, user>>
    BY <1>1, <1>2, FertigEffect DEF Complete
  <1>4. TypeOK'
    BY <1>2, <1>3, FertigType DEF JobIInv, TypeOK
  <1>5. JobOK(j)'
    <2>1. lower'[j] = lower[j] \ {d} /\ UNCHANGED <<pc, wanted>>
      BY <1>3 DEF JobIInv, TypeOK
    <2>2. /\ field'[j] = field[j] \ {d} /\ irp'[j] = field'[j]
          /\ ct'[j] = Count(field'[j]) /\ (live'[j] <=> field[j] # {d})
      BY <1>1, <1>3, FertigJob
    <2>3. lower[j] # {} /\ pc[j] \in {"idle", "read", "readRefused"}
      BY <1>1, <1>2 DEF JobOK, Where, JobIInv, TypeOK, Label
    <2>4. CASE pc[j] = "idle"
      BY <1>1, <1>2, <2>1, <2>2, <2>4 DEF JobOK, CtCounts, Where, Todo
    <2>5. CASE pc[j] \in {"read", "readRefused"}
      BY <1>1, <1>2, <2>1, <2>2, <2>5 DEF JobOK, CtCounts, Where, Todo
    <2>. QED BY <2>3, <2>4, <2>5
  <1>6. Others(j)
    BY <1>1, <1>3, FertigJob DEF JobIInv, TypeOK, Others
  <1>7. ~wild'
    BY <1>3 DEF Effect, JobIInv, NoWildJob
  <1>. QED BY <1>4, <1>5, <1>6, <1>7, FrameOthers DEF JobIInv, NoWildJob
-----------------------------------------------------------------------------
LEMMA NextJobs == Refusal = "untouched" /\ JobIInv /\ [Next]_vars => JobIInv'
  <1>. SUFFICES ASSUME Refusal = "untouched", JobIInv, [Next]_vars PROVE JobIInv'
    OBVIOUS
  <1>1. ASSUME NEW j \in Jobs, NEW u \in BOOLEAN, NEW d \in SUBSET Transfers,
               Call(j, u, d)
        PROVE  JobIInv'
    BY <1>1, CallStep
  <1>2. ASSUME NEW j \in Jobs, Step(j) PROVE JobIInv'
    BY <1>2, AllocateIrpStep, NoIrpStep, ClearEvStep, SubmitStep, RefuseStep,
       ProblemStep DEF Step
  <1>3. ASSUME NEW j \in Jobs, NEW d \in Transfers, NEW ok \in BOOLEAN,
               Complete(j, d, ok)
        PROVE  JobIInv'
    BY <1>3, CompleteStep
  <1>4. CASE UNCHANGED vars
    BY <1>4 DEF vars, JobIInv, TypeOK, NoWildJob, JobOK, CtCounts, Where, Todo
  <1>. QED BY <1>1, <1>2, <1>3, <1>4 DEF Next

THEOREM JobInvariant ==
  ASSUME Refusal = "untouched"
  PROVE  Spec => []JobIInv
  BY InitJobs, NextJobs, PTL DEF Spec

\* However many calls and completions overlap, and whichever allocations and
\* transfers fail, no job is used after the completion routine has freed it.
THEOREM NoUseAfterFree ==
  ASSUME Refusal = "untouched"
  PROVE  Spec => []NoWildJob
  <1>1. JobIInv => NoWildJob
    BY DEF JobIInv
  <1>. QED BY <1>1, JobInvariant, PTL

\* When OutIn has returned, a job and exactly its pending IRPs exist as long as
\* the lower driver has one of them; on every error path everything is freed.
THEOREM NothingLeaks ==
  ASSUME Refusal = "untouched"
  PROVE  Spec => []FreedWhenDone
  <1>1. JobIInv => FreedWhenDone
    BY DEF JobIInv, JobOK, CtCounts, Todo, FreedWhenDone
  <1>. QED BY <1>1, JobInvariant, PTL

\* Both together: a block is freed once, after its last user (Usb2lpt.c:187-188).
THEOREM FreedOnce ==
  ASSUME Refusal = "untouched"
  PROVE  Spec => []FreedOnceAtEnd
  <1>1. NoWildJob /\ FreedWhenDone => FreedOnceAtEnd
    BY DEF FreedOnceAtEnd
  <1>. QED BY <1>1, NoUseAfterFree, NothingLeaks, PTL
-----------------------------------------------------------------------------
(* OutIn implements JobLife. *)

out  == [j \in Jobs |-> IF Building(j) \/ ~live[j] THEN {} ELSE field[j]]
good == [j \in Jobs |-> Building(j) \/ ~live[j] \/ stat[j]]

\* The mapped variables stay what they are when the job they belong to does not
\* pass from allocation to submission and no transfer of it ends.
LEMMA Stutter ==
  ASSUME UNCHANGED answer,
         \A k \in Jobs : /\ (Building(k) \/ ~live[k])' <=> (Building(k) \/ ~live[k])
                         /\ Building(k) \/ ~live[k] \/
                              (field'[k] = field[k] /\ stat'[k] = stat[k])
  PROVE  UNCHANGED <<out, good, answer>>
  BY DEF out, good

LEMMA InitLife == Init => Life!Init
  BY DEF Init, Life!Init, Building

\* While the job is built its status is still the zero it was filled with.
BuildingGood == \A j \in Jobs : Building(j) => live[j] /\ stat[j]

LEMMA NextBuilding == JobIInv /\ BuildingGood /\ [Next]_vars => BuildingGood'
  <1>. SUFFICES ASSUME JobIInv, BuildingGood, [Next]_vars, NEW j \in Jobs, Building(j)'
                PROVE  live'[j] /\ stat'[j]
    BY DEF BuildingGood
  <1>. USE DEF BuildingGood, Building, JobIInv, TypeOK, JobOK, Goto
  <1>1. ASSUME NEW k \in Jobs, NEW u \in BOOLEAN, NEW d \in SUBSET Transfers,
               Call(k, u, d)
        PROVE  live'[j] /\ stat'[j]
    BY <1>1 DEF Call
  <1>2. ASSUME NEW k \in Jobs, AllocateIrp(k) \/ NoIrp(k) \/ ClearEv(k) \/ Submit(k)
        PROVE  live'[j] /\ stat'[j]
    BY <1>2 DEF AllocateIrp, NoIrp, ClearEv, Submit, After
  <1>3. ASSUME NEW k \in Jobs, Refuse(k) \/ Problem(k)
        PROVE  live'[j] /\ stat'[j]
    BY <1>3 DEF Refuse, Problem, Fertig, After
  <1>4. ASSUME NEW k \in Jobs, NEW d \in Transfers, NEW ok \in BOOLEAN,
               Complete(k, d, ok)
        PROVE  live'[j] /\ stat'[j]
    <2>1. j # k
      BY <1>4 DEF Complete, Where
    <2>. QED BY <1>4, <2>1 DEF Complete, Fertig
  <1>5. CASE UNCHANGED vars
    BY <1>5 DEF vars
  <1>. QED BY <1>1, <1>2, <1>3, <1>4, <1>5 DEF Next, Step

\* The end of one transfer is the end of one transfer.
LEMMA EndsTransfer ==
  ASSUME JobIInv, NEW j \in Jobs, NEW d \in field[j], NEW ok \in BOOLEAN,
         live[j], ~Building(j), ~Building(j)', Effect(j, d, ok),
         \A k \in Jobs \ {j} : Building(k)' <=> Building(k)
  PROVE  Life!End(j, d, ok) \/ Life!LastEnd(j, d, ok)
  <1>1. /\ field'[j] = field[j] \ {d} /\ (live'[j] <=> field[j] # {d})
        /\ \A k \in Jobs \ {j} : live'[k] = live[k] /\ field'[k] = field[k]
    BY FertigJob
  <1>2. stat'[j] = (stat[j] /\ ok) /\ \A k \in Jobs \ {j} : stat'[k] = stat[k]
    BY DEF Effect, JobIInv, TypeOK
  <1>3. out[j] = field[j] /\ good[j] = stat[j]
    BY DEF out, good, JobIInv, TypeOK
  <1>4. out' = [out EXCEPT ![j] = @ \ {d}]
    <2>1. out'[j] = field[j] \ {d}
      BY <1>1 DEF out
    <2>2. \A k \in Jobs \ {j} : out'[k] = out[k]
      BY <1>1 DEF out
    <2>. QED BY <1>3, <2>1, <2>2 DEF out
  <1>5. CASE field[j] # {d}
    <2>1. good'[j] = (good[j] /\ ok)
      BY <1>1, <1>2, <1>3, <1>5 DEF good
    <2>2. \A k \in Jobs \ {j} : good'[k] = good[k]
      BY <1>1, <1>2 DEF good
    <2>3. good' = [good EXCEPT ![j] = @ /\ ok]
      BY <2>1, <2>2 DEF good
    <2>4. UNCHANGED answer
      BY <1>5 DEF Effect
    <2>. QED BY <1>3, <1>4, <1>5, <2>3, <2>4 DEF Life!End, out, good
  <1>6. CASE field[j] = {d}
    <2>1. good'[j] = TRUE
      BY <1>1, <1>6 DEF good
    <2>2. \A k \in Jobs \ {j} : good'[k] = good[k]
      BY <1>1, <1>2 DEF good
    <2>3. good' = [good EXCEPT ![j] = TRUE]
      BY <2>1, <2>2 DEF good
    <2>4. answer' = [answer EXCEPT ![j] = IF good[j] /\ ok THEN "success" ELSE "failure"]
      BY <1>3, <1>6 DEF Effect
    <2>5. out' = [out EXCEPT ![j] = {}]
      BY <1>3, <1>4, <1>6
    <2>. QED BY <1>3, <1>6, <2>3, <2>4, <2>5 DEF Life!LastEnd, out, good
  <1>. QED BY <1>5, <1>6

\* The last allocation starts all of the job's transfers at once.
LEMMA StartsJob ==
  ASSUME JobIInv, BuildingGood, NEW j \in Jobs, AllocateIrp(j)
  PROVE  Life!Start(j) \/ UNCHANGED <<out, good, answer>>
  <1>1. live[j] /\ Building(j) /\ stat[j]
    BY DEF AllocateIrp, Building, BuildingGood
  <1>2. /\ \A k \in Jobs \ {j} : pc'[k] = pc[k] /\ field'[k] = field[k]
        /\ UNCHANGED <<live, stat>>
    BY DEF AllocateIrp, Goto, JobIInv, TypeOK
  <1>3. CASE pc[j] = "irpw" /\ "r" \in wanted[j]
    <2>1. pc'[j] = "irpr" /\ UNCHANGED answer
      BY <1>3 DEF AllocateIrp, Goto, JobIInv, TypeOK
    <2>. QED BY <1>1, <1>2, <2>1, Stutter DEF Building
  <1>4. CASE ~(pc[j] = "irpw" /\ "r" \in wanted[j])
    <2>1. pc'[j] = "clear" /\ answer' = [answer EXCEPT ![j] = "none"]
      BY <1>4 DEF AllocateIrp, Goto, JobIInv, TypeOK
    <2>2. field'[j] \in (SUBSET Transfers) \ {{}}
      BY DEF AllocateIrp, JobIInv, TypeOK, Transfers
    <2>3. out[j] = {} /\ out' = [out EXCEPT ![j] = field'[j]]
      BY <1>1, <1>2, <2>1 DEF out, Building
    <2>4. UNCHANGED good
      BY <1>1, <1>2, <2>1 DEF good, Building
    <2>. QED BY <2>1, <2>2, <2>3, <2>4 DEF Life!Start, Life!Transfers, Transfers, out, good
  <1>. QED BY <1>3, <1>4

LEMMA NextLife ==
  Refusal = "untouched" /\ JobIInv /\ BuildingGood /\ [Next]_vars => [Life!Next]_(Life!vars)
  <1>. SUFFICES ASSUME Refusal = "untouched", JobIInv, BuildingGood, [Next]_vars
                PROVE  Life!Next \/ UNCHANGED <<out, good, answer>>
    BY DEF Life!vars, out, good
  <1>1. ASSUME NEW j \in Jobs, NEW u \in BOOLEAN, NEW d \in SUBSET Transfers,
               Call(j, u, d)
        PROVE  UNCHANGED <<out, good, answer>>
    <2>1. ~live[j] /\ Building(j)' /\ UNCHANGED answer
      BY <1>1 DEF Call, Goto, Building, JobIInv, TypeOK
    <2>2. \A k \in Jobs \ {j} : /\ pc'[k] = pc[k] /\ live'[k] = live[k]
                                /\ field'[k] = field[k] /\ stat'[k] = stat[k]
      BY <1>1 DEF Call, Goto, JobIInv, TypeOK
    <2>. QED BY <2>1, <2>2, Stutter DEF Building
  <1>2. ASSUME NEW j \in Jobs, NoIrp(j) PROVE UNCHANGED <<out, good, answer>>
    <2>1. Building(j) /\ ~live'[j] /\ UNCHANGED <<answer, field, stat>>
      BY <1>2 DEF NoIrp, Building, JobIInv, TypeOK
    <2>2. \A k \in Jobs \ {j} : pc'[k] = pc[k] /\ live'[k] = live[k]
      BY <1>2 DEF NoIrp, Goto, JobIInv, TypeOK
    <2>. QED BY <2>1, <2>2, Stutter DEF Building
  <1>3. ASSUME NEW j \in Jobs, ClearEv(j) \/ Submit(j) \/ Refuse(j)
        PROVE  UNCHANGED <<out, good, answer>>
    <2>1. UNCHANGED <<live, field, stat, answer>>
      BY <1>3 DEF ClearEv, Submit, Refuse
    <2>2. ~Building(j) /\ ~Building(j)'
      BY <1>3 DEF ClearEv, Submit, Refuse, After, Goto, Building, JobIInv, TypeOK
    <2>3. \A k \in Jobs \ {j} : pc'[k] = pc[k]
      BY <1>3 DEF ClearEv, Submit, Refuse, Goto, JobIInv, TypeOK
    <2>. QED BY <2>1, <2>2, <2>3, Stutter DEF Building
  <1>4. ASSUME NEW j \in Jobs, Problem(j) PROVE Life!Next
    <2>1. live[j] /\ JobOK(j)
      BY <1>4 DEF JobIInv, JobOK, Problem
    <2>2. Direction(j) \in field[j] /\ Direction(j) \in Transfers
      BY <1>4, <2>1 DEF Problem, JobOK, CtCounts, Where, Todo, Direction, Transfers
    <2>0. PICK ok \in BOOLEAN : Fertig(j, Direction(j), ok)
      BY <1>4 DEF Problem
    <2>3. Effect(j, Direction(j), ok)
      BY <1>4, <2>0, <2>1, <2>2, FertigEffect DEF Problem
    <2>4. ~Building(j) /\ ~Building(j)' /\ \A k \in Jobs \ {j} : Building(k)' <=> Building(k)
      BY <1>4 DEF Problem, After, Goto, Building, JobIInv, TypeOK
    <2>5. Life!End(j, Direction(j), ok) \/ Life!LastEnd(j, Direction(j), ok)
      BY <2>1, <2>2, <2>3, <2>4, EndsTransfer
    <2>. QED BY <2>2, <2>5 DEF Life!Next, Life!Transfers, Transfers
  <1>5. ASSUME NEW j \in Jobs, NEW d \in Transfers, NEW ok \in BOOLEAN,
               Complete(j, d, ok)
        PROVE  Life!Next
    <2>1. live[j] /\ JobOK(j)
      BY <1>5 DEF JobIInv, JobOK, Complete
    <2>2. d \in field[j]
      BY <1>5, <2>1 DEF Complete, JobOK, CtCounts
    <2>3. Effect(j, d, ok) /\ UNCHANGED pc
      BY <1>5, <2>1, <2>2, FertigEffect DEF Complete
    <2>4. ~Building(j) /\ ~Building(j)' /\ \A k \in Jobs \ {j} : Building(k)' <=> Building(k)
      BY <1>5, <2>1, <2>3 DEF Complete, JobOK, Where, Building
    <2>5. Life!End(j, d, ok) \/ Life!LastEnd(j, d, ok)
      BY <2>1, <2>2, <2>3, <2>4, EndsTransfer
    <2>. QED BY <2>5 DEF Life!Next, Life!Transfers, Transfers
  <1>6. ASSUME NEW j \in Jobs, AllocateIrp(j)
        PROVE  Life!Next \/ UNCHANGED <<out, good, answer>>
    BY <1>6, StartsJob DEF Life!Next
  <1>7. CASE UNCHANGED vars
    BY <1>7, Stutter DEF vars, Building
  <1>. QED BY <1>1, <1>2, <1>3, <1>4, <1>5, <1>6, <1>7 DEF Next, Step

\* OutIn is one step that starts the transfers, and one answer, a failure if one
\* of them failed, after the last: what PortIO takes it to be.
THEOREM ImplementsJobLife ==
  ASSUME Refusal = "untouched"
  PROVE  Spec => ActsAsJob
  <1>1. Init => BuildingGood
    BY DEF Init, BuildingGood, Building
  <1>. QED
    BY InitJobs, NextJobs, NextBuilding, InitLife, NextLife, <1>1, PTL
    DEF Spec, ActsAsJob, Life!Spec
-----------------------------------------------------------------------------
(***************************************************************************)
(* The patching of the kernel's functions.                                 *)
(***************************************************************************)

\* There is memory for the DPC objects, and nobody is halfway through code that goes
\* away (README, Findings).
Quiet == ~PoolFails /\ ~BusyCode

PatchTypes ==
  /\ code \in {"old", "torn", "jump"} /\ save \in {"zero", "old"}
  /\ loaded \in BOOLEAN
  /\ dpc \in [Cpus -> {"none", "queued", "spins", "leaves"}]
  /\ prog \in [Cpus -> {"away", "bytes", "driver"}]
  /\ call = [do |-> call.do, on |-> call.on, at |-> call.at, a |-> call.a, b |-> call.b,
             queue |-> call.queue, blocking |-> call.blocking]
  /\ call.do \in {"none", "hook", "unhook"}
  /\ call.at \in {"idle", "queue", "first", "rest", "wait"}

\* What the five bytes are.
Bytes ==
  /\ call.at = "idle" => call = C!NoCall /\ code = (IF loaded THEN "jump" ELSE "old")
  /\ call.at # "idle" => loaded /\ call.do \in {"hook", "unhook"} /\ call.on \in Cpus
  /\ call.at \in {"queue", "first"} => code = (IF call.do = "hook" THEN "old" ELSE "jump")
  /\ code = "torn" <=> call.at = "rest"
  /\ call.at = "wait" => code = (IF call.do = "hook" THEN "jump" ELSE "old")
  /\ call.at = "idle" /\ loaded => save = "old"
  /\ call.do = "unhook" \/ call.at \in {"rest", "wait"} => save = "old"

\* Where the DPCs are: the caller knows of each one that has not let it go.
Siblings ==
  /\ call.at = "idle" => \A c \in Cpus : dpc[c] = "none"
  /\ call.at # "idle" => dpc[call.on] = "none"
  /\ call.at # "idle" => call.on \notin call.b
  /\ call.at = "queue" =>
       /\ call.queue \subseteq call.a /\ call.a \subseteq call.b
       /\ \A c \in Cpus : c = call.on \/ c \in call.b
       /\ \A c \in call.queue : dpc[c] = "none"
       /\ \A c \in Cpus : c \in call.a /\ c \notin call.queue => dpc[c] = "queued"
       /\ \A c \in Cpus : c \in call.b /\ c \notin call.a => dpc[c] = "spins"
  /\ call.at \in {"first", "rest"} => \A c \in Cpus : c # call.on => dpc[c] = "spins" /\ c \in call.b
  /\ call.at = "wait" => \A c \in Cpus : (dpc[c] = "spins" <=> c \in call.b) /\ dpc[c] # "queued"
  /\ call.blocking <=> call.at \in {"queue", "first", "rest"}

\* Where the programs are: those whose processor is held are out of the function.
Programs ==
  /\ \A c \in Cpus : prog[c] = "bytes" => code = "old"
  /\ \A c \in Cpus : prog[c] = "driver" => code = "jump"
  /\ \A c \in Cpus : call.at \in {"queue", "first", "rest"} /\ (c = call.on \/ dpc[c] = "spins")
                      => prog[c] = "away"

PatchIInv == PatchTypes /\ Bytes /\ Siblings /\ Programs /\ bad = "none"
-----------------------------------------------------------------------------
LEMMA PatchInit == ASSUME C!Init PROVE PatchIInv
  BY DEF C!Init, C!NoCall, PatchIInv, PatchTypes, Bytes, Siblings, Programs

LEMMA CallPatch ==
  ASSUME Quiet, PatchIInv, NEW c \in Cpus, NEW do \in {"hook", "unhook"}, C!Call(c, do)
  PROVE  PatchIInv'
  <1>. DEFINE others == Cpus \ {c}
  <1>1. /\ call = C!NoCall /\ loaded = (do = "unhook") /\ prog[c] = "away" /\ loaded'
        /\ UNCHANGED <<code, save, dpc, prog, bad>>
        /\ call' = [do |-> do, on |-> c, at |-> IF others = {} THEN "first" ELSE "queue",
                    a |-> others, b |-> others, queue |-> others, blocking |-> TRUE]
    BY DEF Quiet, C!Call
  <1>2. call.at = "idle"
    BY <1>1 DEF C!NoCall
  <1>3. /\ call'.do = do /\ call'.on = c /\ call'.a = others /\ call'.b = others
        /\ call'.queue = others /\ call'.blocking
        /\ call'.at = IF others = {} THEN "first" ELSE "queue"
    BY <1>1
  <1>4. call' = [do |-> call'.do, on |-> call'.on, at |-> call'.at, a |-> call'.a, b |-> call'.b,
                 queue |-> call'.queue, blocking |-> call'.blocking]
    BY <1>1
  <1>. USE DEF PatchIInv
  <1>5. PatchTypes'
    BY <1>1, <1>3, <1>4 DEF PatchTypes
  <1>6. code = (IF do = "hook" THEN "old" ELSE "jump") /\ (do = "unhook" => save = "old")
    BY <1>1, <1>2 DEF Bytes
  <1>7. Bytes'
    BY <1>1, <1>3, <1>6 DEF Bytes
  <1>8. \A i \in Cpus : dpc[i] = "none"
    BY <1>2 DEF Siblings
  <1>9. Siblings'
    BY <1>1, <1>3, <1>8 DEF Siblings
  <1>10. Programs'
    BY <1>1, <1>3, <1>8 DEF Programs
  <1>. QED BY <1>1, <1>5, <1>7, <1>9, <1>10

\* A step that changes only the given fields of the call.
Kept(at, a, b, queue, blocking) ==
  call' = [do |-> call.do, on |-> call.on, at |-> at, a |-> a, b |-> b, queue |-> queue,
           blocking |-> blocking]

LEMMA QueuePatch ==
  ASSUME PatchIInv, C!Queue PROVE PatchIInv'
  <1>. USE DEF PatchIInv
  <1>1. call.at = "queue" /\ UNCHANGED <<code, save, loaded, prog, bad>>
    BY DEF C!Queue
  <1>2. PICK i \in call.queue :
          /\ dpc' = [dpc EXCEPT ![i] = "queued"]
          /\ call' = [call EXCEPT !.queue = call.queue \ {i}]
    BY DEF C!Queue
  <1>3. Kept(call.at, call.a, call.b, call.queue \ {i}, call.blocking)
    BY <1>2 DEF PatchTypes, Kept
  <1>4. /\ call'.do = call.do /\ call'.on = call.on /\ call'.at = call.at /\ call'.a = call.a
        /\ call'.b = call.b /\ call'.queue = call.queue \ {i} /\ call'.blocking = call.blocking
    BY <1>3, Zenon DEF Kept
  <1>5. call' = [do |-> call'.do, on |-> call'.on, at |-> call'.at, a |-> call'.a, b |-> call'.b,
                 queue |-> call'.queue, blocking |-> call'.blocking]
    BY <1>3, <1>4 DEF Kept
  <1>6. dpc' \in [Cpus -> {"none", "queued", "spins", "leaves"}]
        /\ \A c \in Cpus : dpc'[c] = IF c = i THEN "queued" ELSE dpc[c]
    BY <1>2 DEF PatchTypes
  <1>7. PatchTypes'
    BY <1>1, <1>4, <1>5, <1>6 DEF PatchTypes
  <1>8. Bytes'
    BY <1>1, <1>4 DEF Bytes
  <1>9. i # call.on /\ i \in call.a
    BY <1>1 DEF Siblings
  <1>10. Siblings'
    <2>1. call.blocking /\ call.on \in Cpus
      BY <1>1 DEF Siblings, Bytes
    <2>2. dpc'[call'.on] = "none" /\ call'.on \notin call'.b
      BY <1>1, <1>4, <1>6, <1>9, <2>1 DEF Siblings
    <2>3. call'.queue \subseteq call'.a /\ call'.a \subseteq call'.b
      BY <1>1, <1>4 DEF Siblings
    <2>4. \A c \in call'.queue : dpc'[c] = "none"
      BY <1>1, <1>2, <1>4 DEF Siblings, PatchTypes
    <2>5. \A c \in Cpus : c \in call'.a /\ c \notin call'.queue => dpc'[c] = "queued"
      BY <1>1, <1>4, <1>6 DEF Siblings
    <2>6. \A c \in Cpus : c \in call'.b /\ c \notin call'.a => dpc'[c] = "spins"
      BY <1>1, <1>4, <1>6, <1>9 DEF Siblings
    <2>7. \A c \in Cpus : c = call'.on \/ c \in call'.b
      BY <1>1, <1>4 DEF Siblings
    <2>. QED BY <2>1, <2>2, <2>3, <2>4, <2>5, <2>6, <2>7, <1>1, <1>4 DEF Siblings
  <1>11. Programs'
    BY <1>1, <1>4, <1>6 DEF Programs
  <1>. QED BY <1>1, <1>7, <1>8, <1>10, <1>11

LEMMA BlockPatch ==
  ASSUME Quiet, PatchIInv, NEW i \in Cpus, C!Block(i) PROVE PatchIInv'
  <1>. USE DEF PatchIInv
  <1>1. /\ UNCHANGED <<code, save, loaded, prog, bad>> /\ dpc[i] = "queued"
        /\ prog[i] \in (IF call.do = "hook" THEN {"away", "driver"} ELSE {"away"})
        /\ dpc' = [dpc EXCEPT ![i] = "spins"]
        /\ call' = [call EXCEPT !.a = call.a \ {i}]
    BY DEF Quiet, C!Block
  <1>2. call.at = "queue"
    BY <1>1 DEF Siblings, PatchTypes
  <1>3. Kept(call.at, call.a \ {i}, call.b, call.queue, call.blocking)
    BY <1>1 DEF PatchTypes, Kept
  <1>4. /\ call'.do = call.do /\ call'.on = call.on /\ call'.at = call.at /\ call'.a = call.a \ {i}
        /\ call'.b = call.b /\ call'.queue = call.queue /\ call'.blocking = call.blocking
    BY <1>3, Zenon DEF Kept
  <1>5. call' = [do |-> call'.do, on |-> call'.on, at |-> call'.at, a |-> call'.a, b |-> call'.b,
                 queue |-> call'.queue, blocking |-> call'.blocking]
    BY <1>3, <1>4 DEF Kept
  <1>6. dpc' \in [Cpus -> {"none", "queued", "spins", "leaves"}]
        /\ \A c \in Cpus : dpc'[c] = IF c = i THEN "spins" ELSE dpc[c]
    BY <1>1 DEF PatchTypes
  <1>7. PatchTypes'
    BY <1>1, <1>4, <1>5, <1>6 DEF PatchTypes
  <1>8. Bytes'
    BY <1>1, <1>2, <1>4 DEF Bytes
  <1>9. i # call.on /\ i \notin call.queue
    BY <1>1, <1>2 DEF Siblings
  <1>10. Siblings'
    <2>1. call.blocking /\ call.on \in Cpus
      BY <1>2 DEF Siblings, Bytes
    <2>2. dpc'[call'.on] = "none" /\ call'.on \notin call'.b
      BY <1>2, <1>4, <1>6, <1>9, <2>1 DEF Siblings
    <2>3. call'.queue \subseteq call'.a /\ call'.a \subseteq call'.b
      BY <1>2, <1>4, <1>9 DEF Siblings
    <2>4. \A c \in call'.queue : dpc'[c] = "none"
      BY <1>1, <1>2, <1>4, <1>9 DEF Siblings, PatchTypes
    <2>5. \A c \in Cpus : c \in call'.a /\ c \notin call'.queue => dpc'[c] = "queued"
      BY <1>2, <1>4, <1>6 DEF Siblings
    <2>6. \A c \in Cpus : c \in call'.b /\ c \notin call'.a => dpc'[c] = "spins"
      BY <1>2, <1>4, <1>6 DEF Siblings
    <2>7. \A c \in Cpus : c = call'.on \/ c \in call'.b
      BY <1>2, <1>4 DEF Siblings
    <2>. QED BY <2>1, <2>2, <2>3, <2>4, <2>5, <2>6, <2>7, <1>2, <1>4 DEF Siblings
  <1>11. Programs'
    <2>1. prog[i] = "away"
      BY <1>1, <1>2 DEF Bytes, Programs
    <2>. QED BY <2>1, <1>1, <1>4, <1>6 DEF Programs
  <1>. QED BY <1>1, <1>7, <1>8, <1>10, <1>11

LEMMA WaitPatch ==
  ASSUME PatchIInv, C!Wait PROVE PatchIInv'
  <1>. USE DEF PatchIInv
  <1>1. /\ UNCHANGED <<code, save, loaded, dpc, prog, bad>> /\ call.at = "queue"
        /\ call.queue = {} /\ call.a = {} /\ call' = [call EXCEPT !.at = "first"]
    BY DEF C!Wait, C!AllBlock
  <1>3. Kept("first", call.a, call.b, call.queue, call.blocking)
    BY <1>1 DEF PatchTypes, Kept
  <1>4. /\ call'.do = call.do /\ call'.on = call.on /\ call'.at = "first" /\ call'.a = call.a
        /\ call'.b = call.b /\ call'.queue = call.queue /\ call'.blocking = call.blocking
    BY <1>3, Zenon DEF Kept
  <1>5. call' = [do |-> call'.do, on |-> call'.on, at |-> call'.at, a |-> call'.a, b |-> call'.b,
                 queue |-> call'.queue, blocking |-> call'.blocking]
    BY <1>3, <1>4 DEF Kept
  <1>7. PatchTypes'
    BY <1>1, <1>4, <1>5 DEF PatchTypes
  <1>8. Bytes'
    BY <1>1, <1>4 DEF Bytes
  <1>10. Siblings'
    BY <1>1, <1>4 DEF Siblings
  <1>11. Programs'
    BY <1>1, <1>4 DEF Programs
  <1>. QED BY <1>1, <1>7, <1>8, <1>10, <1>11

\* While the bytes are written every program is away.
LEMMA AllAway ==
  ASSUME PatchIInv, call.at \in {"first", "rest"} PROVE \A c \in Cpus : prog[c] = "away"
  BY DEF PatchIInv, Siblings, Programs

LEMMA FirstPatch ==
  ASSUME PatchIInv, C!FirstByte PROVE PatchIInv'
  <1>. USE DEF PatchIInv
  <1>1. /\ UNCHANGED <<loaded, dpc, prog, bad>> /\ call.at = "first" /\ code' = "torn"
        /\ save' = (IF call.do = "hook" THEN code ELSE save)
        /\ call' = [call EXCEPT !.at = "rest"]
    BY DEF C!FirstByte
  <1>3. Kept("rest", call.a, call.b, call.queue, call.blocking)
    BY <1>1 DEF PatchTypes, Kept
  <1>4. /\ call'.do = call.do /\ call'.on = call.on /\ call'.at = "rest" /\ call'.a = call.a
        /\ call'.b = call.b /\ call'.queue = call.queue /\ call'.blocking = call.blocking
    BY <1>3, Zenon DEF Kept
  <1>5. call' = [do |-> call'.do, on |-> call'.on, at |-> call'.at, a |-> call'.a, b |-> call'.b,
                 queue |-> call'.queue, blocking |-> call'.blocking]
    BY <1>3, <1>4 DEF Kept
  <1>6. save' = "old"
    BY <1>1 DEF Bytes
  <1>7. PatchTypes'
    BY <1>1, <1>4, <1>5, <1>6 DEF PatchTypes
  <1>8. Bytes'
    BY <1>1, <1>4, <1>6 DEF Bytes
  <1>10. Siblings'
    BY <1>1, <1>4 DEF Siblings
  <1>11. Programs'
    BY <1>1, <1>4, AllAway DEF Programs
  <1>. QED BY <1>1, <1>7, <1>8, <1>10, <1>11

LEMMA OtherPatch ==
  ASSUME PatchIInv, C!OtherBytes PROVE PatchIInv'
  <1>. USE DEF PatchIInv
  <1>1. /\ UNCHANGED <<save, loaded, dpc, prog, bad>> /\ call.at = "rest"
        /\ code' = (IF call.do = "hook" THEN "jump" ELSE save)
        /\ call' = [call EXCEPT !.at = "wait", !.blocking = FALSE]
    BY DEF C!OtherBytes, C!LetGo
  <1>3. Kept("wait", call.a, call.b, call.queue, FALSE)
    BY <1>1 DEF PatchTypes, Kept
  <1>4. /\ call'.do = call.do /\ call'.on = call.on /\ call'.at = "wait" /\ call'.a = call.a
        /\ call'.b = call.b /\ call'.queue = call.queue /\ call'.blocking = FALSE
    BY <1>3, Zenon DEF Kept
  <1>5. call' = [do |-> call'.do, on |-> call'.on, at |-> call'.at, a |-> call'.a, b |-> call'.b,
                 queue |-> call'.queue, blocking |-> call'.blocking]
    BY <1>3, <1>4 DEF Kept
  <1>6. save = "old"
    BY <1>1 DEF Bytes
  <1>7. PatchTypes'
    BY <1>1, <1>4, <1>5, <1>6 DEF PatchTypes
  <1>8. Bytes'
    BY <1>1, <1>4, <1>6 DEF Bytes
  <1>10. Siblings'
    BY <1>1, <1>4 DEF Siblings, PatchTypes
  <1>11. Programs'
    BY <1>1, <1>4, AllAway DEF Programs
  <1>. QED BY <1>1, <1>7, <1>8, <1>10, <1>11

LEMMA UnblockPatch ==
  ASSUME PatchIInv, NEW i \in Cpus, C!Unblock(i) PROVE PatchIInv'
  <1>. USE DEF PatchIInv
  <1>1. /\ UNCHANGED <<code, save, loaded, prog>> /\ dpc[i] = "spins" /\ ~call.blocking
        /\ dpc' = [dpc EXCEPT ![i] = "leaves"]
    BY DEF C!Unblock
  <1>2. call.at = "wait"
    BY <1>1 DEF Siblings, PatchTypes
  <1>3. i \in call.b
    BY <1>1, <1>2 DEF Siblings
  <1>4. call' = [call EXCEPT !.b = call.b \ {i}] /\ bad' = bad
    BY <1>3 DEF C!Unblock
  <1>5. Kept(call.at, call.a, call.b \ {i}, call.queue, call.blocking)
    BY <1>4 DEF PatchTypes, Kept
  <1>6. /\ call'.do = call.do /\ call'.on = call.on /\ call'.at = call.at /\ call'.a = call.a
        /\ call'.b = call.b \ {i} /\ call'.queue = call.queue /\ call'.blocking = call.blocking
    BY <1>5, Zenon DEF Kept
  <1>7. call' = [do |-> call'.do, on |-> call'.on, at |-> call'.at, a |-> call'.a, b |-> call'.b,
                 queue |-> call'.queue, blocking |-> call'.blocking]
    BY <1>5, <1>6 DEF Kept
  <1>8. dpc' \in [Cpus -> {"none", "queued", "spins", "leaves"}]
        /\ \A c \in Cpus : dpc'[c] = IF c = i THEN "leaves" ELSE dpc[c]
    BY <1>1 DEF PatchTypes
  <1>9. PatchTypes'
    BY <1>1, <1>4, <1>6, <1>7, <1>8 DEF PatchTypes
  <1>10. Bytes'
    BY <1>1, <1>2, <1>6 DEF Bytes
  <1>11. Siblings'
    <2>1. call.on \in Cpus /\ call.on # i
      BY <1>2, <1>3 DEF Siblings, Bytes
    <2>2. dpc'[call'.on] = "none" /\ call'.on \notin call'.b
      BY <1>2, <1>6, <1>8, <2>1 DEF Siblings
    <2>3. \A c \in Cpus : (dpc'[c] = "spins" <=> c \in call'.b) /\ dpc'[c] # "queued"
      BY <1>2, <1>6, <1>8 DEF Siblings
    <2>4. ~call'.blocking /\ call'.at = "wait"
      BY <1>1, <1>2, <1>6
    <2>. QED BY <2>2, <2>3, <2>4 DEF Siblings
  <1>12. Programs'
    BY <1>1, <1>2, <1>6 DEF Programs
  <1>. QED BY <1>4, <1>9, <1>10, <1>11, <1>12

LEMMA EndPatch ==
  ASSUME PatchIInv, NEW i \in Cpus, C!EndDpc(i) PROVE PatchIInv'
  <1>. USE DEF PatchIInv
  <1>1. /\ UNCHANGED <<code, save, loaded, call, prog>> /\ dpc[i] = "leaves"
        /\ dpc' = [dpc EXCEPT ![i] = "none"] /\ bad' = IF loaded THEN bad ELSE "code"
    BY DEF C!EndDpc
  <1>2. \A c \in Cpus : dpc'[c] = IF c = i THEN "none" ELSE dpc[c]
    BY <1>1 DEF PatchTypes
  <1>3. call.at = "wait" /\ i # call.on
    BY <1>1 DEF Siblings, PatchTypes
  <1>4. bad' = bad
    BY <1>1, <1>3 DEF Bytes
  <1>5. PatchTypes' /\ Bytes'
    BY <1>1 DEF PatchTypes, Bytes
  <1>6. Siblings'
    <2>1. ~call.blocking /\ call.on \in Cpus
      BY <1>3 DEF Siblings, Bytes
    <2>. QED BY <2>1, <1>1, <1>2, <1>3 DEF Siblings
  <1>7. Programs'
    BY <1>1, <1>3 DEF Programs
  <1>. QED BY <1>4, <1>5, <1>6, <1>7

LEMMA ReturnPatch ==
  ASSUME Quiet, PatchIInv, C!Return PROVE PatchIInv'
  <1>. USE DEF PatchIInv
  <1>1. /\ UNCHANGED <<code, save, dpc, prog, bad>> /\ call' = C!NoCall
        /\ loaded' = (call.do = "hook") /\ \A i \in Cpus : dpc[i] # "leaves"
        /\ call.at = "wait" /\ call.b = {}
    BY DEF Quiet, C!Return, C!AllDone, PatchTypes
  <1>2. \A i \in Cpus : dpc[i] = "none"
    BY <1>1 DEF Siblings, PatchTypes
  <1>3. /\ call'.at = "idle" /\ call'.do = "none" /\ call'.blocking = FALSE
        /\ call' = [do |-> call'.do, on |-> call'.on, at |-> call'.at, a |-> call'.a, b |-> call'.b,
                    queue |-> call'.queue, blocking |-> call'.blocking]
    BY <1>1 DEF C!NoCall
  <1>4. PatchTypes'
    BY <1>1, <1>3 DEF PatchTypes
  <1>5. Bytes'
    BY <1>1, <1>3 DEF Bytes
  <1>6. Siblings'
    BY <1>1, <1>2, <1>3 DEF Siblings
  <1>7. Programs'
    BY <1>1, <1>3 DEF Programs
  <1>. QED BY <1>1, <1>4, <1>5, <1>6, <1>7

\* A processor that runs programs does not meet half written bytes.
LEMMA FreeMeans ==
  ASSUME PatchIInv, NEW c \in Cpus, C!Free(c)
  PROVE  /\ code # "torn" /\ (code = "jump" => loaded)
         /\ call.at \in {"queue", "first", "rest"} => c # call.on /\ dpc[c] # "spins"
  <1>1. call.on # c /\ dpc[c] \in {"none", "queued"}
    BY DEF C!Free
  <1>2. call.at \notin {"first", "rest"}
    BY <1>1 DEF PatchIInv, Siblings
  <1>. QED BY <1>1, <1>2 DEF PatchIInv, PatchTypes, Bytes

LEMMA ProgramPatch ==
  ASSUME PatchIInv, NEW c \in Cpus, C!Enter(c) \/ C!Leave(c) PROVE PatchIInv'
  <1>. USE DEF PatchIInv
  <1>1. C!Free(c) /\ UNCHANGED <<code, save, loaded, call, dpc>>
    BY DEF C!Enter, C!Leave
  <1>2. code \in {"old", "jump"} /\ (code = "jump" => loaded)
    BY <1>1, FreeMeans DEF PatchTypes
  <1>3. PICK p \in {"away", "bytes", "driver"} :
          /\ prog' = [prog EXCEPT ![c] = p] /\ bad' = bad
          /\ p = "bytes" => code = "old"
          /\ p = "driver" => code = "jump"
    <2>1. CASE C!Enter(c)
      <3>1. prog' = [prog EXCEPT ![c] = IF code = "jump" THEN "driver" ELSE "bytes"]
        BY <2>1 DEF C!Enter
      <3>2. bad' = bad
        BY <2>1, <1>2 DEF C!Enter
      <3>. QED BY <3>1, <3>2, <1>2
    <2>2. CASE C!Leave(c)
      <3>1. prog' = [prog EXCEPT ![c] = "away"] /\ prog[c] \in {"bytes", "driver"}
        BY <2>2 DEF C!Leave, PatchTypes
      <3>2. bad' = bad
        BY <2>2, <3>1, <1>2 DEF C!Leave, Programs
      <3>. QED BY <3>1, <3>2
    <2>. QED BY <2>1, <2>2
  <1>4. \A d \in Cpus : prog'[d] = IF d = c THEN p ELSE prog[d]
    BY <1>3 DEF PatchTypes
  <1>5. PatchTypes'
    BY <1>1, <1>3 DEF PatchTypes
  <1>6. Bytes' /\ Siblings'
    BY <1>1 DEF Bytes, Siblings
  <1>7. Programs'
    BY <1>1, <1>3, <1>4, FreeMeans DEF Programs
  <1>. QED BY <1>3, <1>5, <1>6, <1>7

LEMMA PatchNext ==
  ASSUME Quiet, PatchIInv, [C!Next]_(C!vars) PROVE PatchIInv'
  <1>1. CASE UNCHANGED C!vars
    BY <1>1 DEF C!vars, PatchIInv, PatchTypes, Bytes, Siblings, Programs
  <1>2. ASSUME NEW c \in Cpus, NEW do \in {"hook", "unhook"}, C!Call(c, do) PROVE PatchIInv'
    BY <1>2, CallPatch
  <1>3. ASSUME NEW c \in Cpus, C!Block(c) \/ C!Unblock(c) \/ C!EndDpc(c) \/ C!Enter(c) \/ C!Leave(c)
        PROVE PatchIInv'
    BY <1>3, BlockPatch, UnblockPatch, EndPatch, ProgramPatch
  <1>. QED BY <1>1, <1>2, <1>3, QueuePatch, WaitPatch, FirstPatch, OtherPatch, ReturnPatch DEF C!Next

\* For any number of processors, however late their DPCs run: no processor runs the
\* function while its bytes are half written or leads to a driver that has gone, no DPC
\* writes to the stack of a call that has returned, and between two calls the function
\* is redirected just while the driver is loaded.
THEOREM PatchedInOrder == ASSUME Quiet PROVE C!Spec => []PatchedWhole
  <1>1. C!Init => PatchIInv
    BY PatchInit
  <1>2. PatchIInv /\ [C!Next]_(C!vars) => PatchIInv'
    BY Quiet, PatchNext
  <1>3. PatchIInv => PatchedWhole
    <2>1. call = C!NoCall => call.at = "idle"
      BY DEF C!NoCall
    <2>. QED BY <2>1 DEF PatchIInv, Bytes, PatchedWhole, C!PatchedWhole
  <1>. QED BY <1>1, <1>2, <1>3, PTL DEF C!Spec
-----------------------------------------------------------------------------
(***************************************************************************)
(* The way of an access to the driver.                                     *)
(***************************************************************************)

\* No debugger's breakpoint hits together with the driver's, the byte before an
\* instruction is not 66h, no entry is pushed out of its place, and no read of four
\* bytes fails (README, Findings).
Unambiguous == ~Coincide /\ ~Odd66 /\ ~Push /\ ~Wide

AccessTypes ==
  /\ usage \in [P!Places -> Blocks \cup {0}]
  /\ x4dr \in [P!Places -> Devices \cup {Nobody}]
  /\ handler \in [Blocks -> [Ports -> {"none", "driver", "other"}]]
  /\ hasTrap \in [P!Places -> SUBSET Ports]
  /\ fail \in [Devices -> Nat] /\ lost \in [Devices -> Nat]
  /\ foreign \subseteq {0}

\* A block has one slot, and the slot has a device.
OneSlot ==
  /\ \A i, j \in P!Places : usage[i] # 0 /\ usage[i] = usage[j] => i = j
  /\ \A i \in P!Places : usage[i] # 0 => x4dr[i] \in Devices

\* The driver's handlers are those of the slots, and no port of a slot is without one.
Handlers ==
  sys = "win98" => \A b \in Blocks, k \in Ports :
    /\ handler[b][k] = "driver" => \E i \in P!Places : usage[i] = b /\ k \in hasTrap[i]
    /\ handler[b][k] = "none" => \A i \in P!Places : usage[i] # b

AccessIInv ==
  /\ AccessTypes /\ OneSlot /\ Handlers
  /\ dr6 = {} /\ wrong = {} /\ fail = lost
-----------------------------------------------------------------------------
LEMMA AccessSettings ==
  /\ Nobody \notin Devices /\ 0 \notin Blocks /\ Ports \subseteq 0 .. 3
  /\ P!Places \subseteq Nat /\ P!Regs \subseteq P!Places
  BY DriverAssumption DEF P!PortAccessAssumption, P!Places, P!Regs

LEMMA LeastOf ==
  ASSUME NEW X \in SUBSET Nat, X # {}
  PROVE  P!Min(X) \in X
  <1>. DEFINE Less == {p \in Nat \X Nat : p[1] < p[2]}
  <1>1. IsWellFoundedOn(Less, Nat)
    BY NatLessThanWellFounded DEF OpToRel
  <1>. HIDE DEF Less
  <1>2. PICK n \in X : \A m \in X : ~(<<m, n>> \in Less)
    BY <1>1, WFMin
  <1>3. \A m \in X : ~(m < n)
    BY <1>2 DEF Less
  <1>4. \E k \in X : \A m \in X : k <= m
    BY <1>3
  <1>. QED BY <1>4 DEF P!Min

\* The slot of a block: one or none, with the device the block belongs to.
LEMMA Slot ==
  ASSUME AccessIInv, NEW b \in Blocks, P!SlotOf(b) # {}
  PROVE  \E i \in P!Places :
           /\ P!SlotOf(b) = {i} /\ usage[i] = b /\ x4dr[i] \in Devices
           /\ P!Owner(b) = {x4dr[i]}
  <1>1. PICK i \in P!Places : usage[i] = b
    BY DEF P!SlotOf
  <1>2. b # 0
    BY AccessSettings
  <1>3. P!SlotOf(b) = {i} /\ x4dr[i] \in Devices
    BY <1>1, <1>2 DEF AccessIInv, OneSlot, P!SlotOf
  <1>4. P!Owner(b) = {x4dr[i]}
    BY <1>3 DEF P!Owner
  <1>. QED BY <1>1, <1>3, <1>4

LEMMA OnlyOne == ASSUME NEW i PROVE P!Min({i}) = i \/ i \notin Nat
  <1>1. ASSUME i \in Nat PROVE P!Min({i}) \in {i}
    BY <1>1, LeastOf
  <1>. QED BY <1>1

LEMMA AccessInit == ASSUME P!Init PROVE AccessIInv
  <1>1. AccessTypes
    BY DEF P!Init, AccessTypes
  <1>2. OneSlot /\ Handlers
    BY AccessSettings DEF P!Init, OneSlot, Handlers
  <1>. QED BY <1>1, <1>2 DEF P!Init, AccessIInv
-----------------------------------------------------------------------------
(* The table *)

LEMMA AllocStep ==
  ASSUME Unambiguous, AccessIInv, NEW b \in Blocks, NEW d \in Devices, NEW debreg \in BOOLEAN,
         P!AllocDR(b, d, debreg)
  PROVE  AccessIInv'
  <1>. USE DEF AccessIInv
  <1>1. UNCHANGED <<sys, foreign, dr6, fail, lost, wrong>> /\ \A i \in P!Places : usage[i] # b
    BY DEF P!AllocDR, P!SlotOf
  <1>2. PICK i \in P!Places : usage[i] = 0 /\ P!Enter(b, d, i, usage, x4dr)
    <2>. DEFINE range == IF debreg THEN P!Places ELSE P!Places \ P!Regs
    <2>. DEFINE free == P!FreeIn(range)
    <2>1. free # {} /\ P!Enter(b, d, P!Min(free), usage, x4dr)
      BY DEF Unambiguous, P!AllocDR
    <2>2. free \subseteq P!Places /\ \A i \in free : usage[i] = 0
      BY DEF P!FreeIn
    <2>3. P!Min(free) \in free
      BY <2>1, <2>2, AccessSettings, LeastOf
    <2>. QED BY <2>1, <2>2, <2>3
  <1>3. /\ usage' = [usage EXCEPT ![i] = b] /\ x4dr' = [x4dr EXCEPT ![i] = d]
    BY <1>2 DEF P!Enter
  <1>4. \A j \in P!Places : usage'[j] = (IF j = i THEN b ELSE usage[j])
    BY <1>3 DEF AccessTypes
  <1>5. \A j \in P!Places : x4dr'[j] = (IF j = i THEN d ELSE x4dr[j])
    BY <1>3 DEF AccessTypes
  <1>6. usage' \in [P!Places -> Blocks \cup {0}] /\ x4dr' \in [P!Places -> Devices \cup {Nobody}]
    BY <1>3 DEF AccessTypes
  <1>7. OneSlot'
    BY <1>1, <1>4, <1>5 DEF OneSlot
  <1>8. CASE sys = "win98"
    <2>1. /\ handler' = [handler EXCEPT ![b] = [k \in Ports |->
                           IF k \in P!Installed(b) THEN "driver" ELSE handler[b][k]]]
          /\ hasTrap' = [hasTrap EXCEPT ![i] = P!Installed(b)]
      BY <1>2, <1>8 DEF P!Enter, P!SetHandlers
    <2>2. P!Installed(b) \subseteq Ports /\ \A k \in Ports : k \in P!Installed(b) <=> handler[b][k] = "none"
      BY DEF P!Installed
    <2>. HIDE DEF P!Installed
    <2>3. \A c \in Blocks, k \in Ports :
            handler'[c][k] = IF c = b /\ k \in P!Installed(b) THEN "driver" ELSE handler[c][k]
      BY <2>1 DEF AccessTypes
    <2>4. handler' \in [Blocks -> [Ports -> {"none", "driver", "other"}]]
      BY <2>1 DEF AccessTypes
    <2>5. hasTrap' \in [P!Places -> SUBSET Ports]
          /\ \A j \in P!Places : hasTrap'[j] = (IF j = i THEN P!Installed(b) ELSE hasTrap[j])
      BY <2>1, <2>2 DEF AccessTypes
    <2>6. ASSUME NEW c \in Blocks, NEW k \in Ports, handler'[c][k] = "driver"
          PROVE  \E j \in P!Places : usage'[j] = c /\ k \in hasTrap'[j]
      <3>1. CASE c = b /\ k \in P!Installed(b)
        BY <3>1, <1>4, <2>5
      <3>2. CASE ~(c = b /\ k \in P!Installed(b))
        <4>1. handler[c][k] = "driver"
          BY <3>2, <2>3, <2>6
        <4>2. PICK j \in P!Places : usage[j] = c /\ k \in hasTrap[j]
          BY <4>1, <1>8 DEF Handlers
        <4>3. j # i
          BY <4>2, <1>2, AccessSettings
        <4>. QED BY <4>2, <4>3, <1>4, <2>5
      <3>. QED BY <3>1, <3>2
    <2>7. ASSUME NEW c \in Blocks, NEW k \in Ports, handler'[c][k] = "none", NEW j \in P!Places
          PROVE  usage'[j] # c
      BY <2>7, <2>2, <2>3, <1>4, <1>8 DEF Handlers
    <2>8. Handlers'
      BY <2>6, <2>7 DEF Handlers
    <2>. QED BY <1>1, <1>6, <1>7, <2>4, <2>5, <2>8 DEF AccessTypes
  <1>9. CASE sys # "win98"
    <2>1. UNCHANGED <<handler, hasTrap>>
      BY <1>2, <1>9 DEF P!Enter
    <2>. QED BY <1>1, <1>6, <1>7, <1>9, <2>1 DEF AccessTypes, Handlers
  <1>. QED BY <1>8, <1>9

LEMMA FreeStep ==
  ASSUME AccessIInv, NEW b \in Blocks, P!FreeDR(b)
  PROVE  AccessIInv'
  <1>. USE DEF AccessIInv
  <1>1. UNCHANGED <<sys, foreign, dr6, fail, lost, wrong>>
    BY DEF P!FreeDR
  <1>2. PICK i \in P!SlotOf(b) :
          /\ usage' = [usage EXCEPT ![i] = 0] /\ x4dr' = [x4dr EXCEPT ![i] = Nobody]
          /\ handler' = P!SetHandlers(b, P!Removed(i), "none")
          /\ hasTrap' = [hasTrap EXCEPT ![i] = {}]
    BY DEF P!FreeDR
  <1>3. i \in P!Places /\ usage[i] = b /\ b # 0
    BY AccessSettings DEF P!SlotOf
  <1>4. handler' = [handler EXCEPT ![b] = [k \in Ports |->
                      IF k \in hasTrap[i] THEN "none" ELSE handler[b][k]]]
    BY <1>2 DEF P!SetHandlers, P!Removed
  <1>5. \A c \in Blocks, k \in Ports :
          handler'[c][k] = IF c = b /\ k \in hasTrap[i] THEN "none" ELSE handler[c][k]
    BY <1>4 DEF AccessTypes
  <1>6. \A j \in P!Places : usage'[j] = (IF j = i THEN 0 ELSE usage[j])
    BY <1>2 DEF AccessTypes
  <1>7. \A j \in P!Places : x4dr'[j] = (IF j = i THEN Nobody ELSE x4dr[j])
    BY <1>2 DEF AccessTypes
  <1>8. \A j \in P!Places : hasTrap'[j] = (IF j = i THEN {} ELSE hasTrap[j])
    BY <1>2 DEF AccessTypes
  <1>9. handler' \in [Blocks -> [Ports -> {"none", "driver", "other"}]]
    BY <1>4 DEF AccessTypes
  <1>10. /\ usage' \in [P!Places -> Blocks \cup {0}]
         /\ x4dr' \in [P!Places -> Devices \cup {Nobody}]
         /\ hasTrap' \in [P!Places -> SUBSET Ports]
    BY <1>2 DEF AccessTypes
  <1>11. OneSlot'
    BY <1>6, <1>7 DEF OneSlot
  <1>12. Handlers'
    <2>. SUFFICES ASSUME sys = "win98", NEW c \in Blocks, NEW k \in Ports
                  PROVE  /\ handler'[c][k] = "driver" => \E j \in P!Places : usage'[j] = c /\ k \in hasTrap'[j]
                         /\ handler'[c][k] = "none" => \A j \in P!Places : usage'[j] # c
      BY <1>1 DEF Handlers
    <2>1. ASSUME handler'[c][k] = "driver"
          PROVE  \E j \in P!Places : usage'[j] = c /\ k \in hasTrap'[j]
      <3>1. handler[c][k] = "driver" /\ ~(c = b /\ k \in hasTrap[i])
        BY <2>1, <1>5
      <3>2. PICK j \in P!Places : usage[j] = c /\ k \in hasTrap[j]
        BY <3>1 DEF Handlers
      <3>3. j # i
        BY <3>1, <3>2, <1>3
      <3>. QED BY <3>2, <3>3, <1>6, <1>8
    <2>2. ASSUME handler'[c][k] = "none", NEW j \in P!Places PROVE usage'[j] # c
      <3>1. CASE c = b
        <4>1. j = i \/ usage[j] # b
          BY <1>3 DEF OneSlot
        <4>. QED BY <4>1, <3>1, <1>3, <1>6
      <3>2. CASE c # b
        <4>1. handler[c][k] = "none" /\ c # 0
          BY <2>2, <3>2, <1>5, AccessSettings
        <4>. QED BY <4>1, <1>6 DEF Handlers
      <3>. QED BY <3>1, <3>2
    <2>. QED BY <2>1, <2>2
  <1>. QED BY <1>1, <1>9, <1>10, <1>11, <1>12 DEF AccessTypes
-----------------------------------------------------------------------------
(* An access *)

\* What an access must leave behind.
Fine == wrong' = {} /\ fail' = lost' /\ fail' \in [Devices -> Nat]

\* The device that is asked is the block's, as wide as the program meant it.
LEMMA CarryFine ==
  ASSUME Unambiguous, AccessIInv, NEW a \in P!Accesses, NEW d \in Devices,
         P!Owner(a.b) = {d}, P!Carry(d, a, a.width)
  PROVE  Fine
  <1>1. UNCHANGED <<fail, lost>>
    BY DEF P!Carry
  <1>2. PICK fails \in BOOLEAN :
          /\ fails => a.width # 4
          /\ wrong' = wrong \cup P!Judged(d, a, a.width, fails)
    BY DEF P!Carry, Unambiguous
  <1>3. a.width \in {1, 2, 4}
    BY DEF P!Accesses
  <1>4. fails => P!Ones(a.width) = a.width
    BY <1>2, <1>3 DEF P!Ones
  <1>5. P!Judged(d, a, a.width, fails) = {}
    BY <1>4, AccessSettings DEF P!Judged
  <1>. QED BY <1>1, <1>2, <1>5 DEF Fine, AccessIInv, AccessTypes

LEMMA FailFine ==
  ASSUME AccessIInv, NEW a \in P!Accesses, NEW d \in Devices, a.string, P!Fail(d, a)
  PROVE  Fine
  <1>1. /\ wrong' = wrong /\ lost' = [lost EXCEPT ![d] = lost[d] + 1]
        /\ fail' = [fail EXCEPT ![d] = fail[d] + 1]
    BY DEF P!Fail
  <1>2. lost = fail /\ fail \in [Devices -> Nat] /\ wrong = {}
    BY DEF AccessIInv, AccessTypes
  <1>. QED BY <1>1, <1>2 DEF Fine

\* Through a debug register.
LEMMA InstructionFine ==
  ASSUME Unambiguous, AccessIInv, NEW a \in P!Accesses, P!MayAccess(a),
         a.way # "call" \/ P!Found(a.b) = {}, P!Instruction(a)
  PROVE  Fine /\ dr6' = {}
  <1>0. a.b \in Blocks /\ ~a.odd
    BY DEF P!Accesses, P!MayAccess, Unambiguous
  <1>1. CASE P!SlotOf(a.b) \cap P!Regs = {}
    <2>1. P!Hardware(a) /\ UNCHANGED dr6
      BY <1>1 DEF P!Instruction
    <2>2. a.way = "call" => P!Owner(a.b) \ locked = {}
      BY DEF P!Found, P!Owner
    <2>. QED BY <2>1, <2>2 DEF P!Hardware, Fine, AccessIInv, AccessTypes
  <1>2. CASE P!SlotOf(a.b) \cap P!Regs # {}
    <2>1. PICK i \in P!Places :
            /\ P!SlotOf(a.b) = {i} /\ usage[i] = a.b /\ x4dr[i] \in Devices
            /\ P!Owner(a.b) = {x4dr[i]}
      BY <1>0, <1>2, Slot
    <2>2. i \in P!Regs /\ P!SlotOf(a.b) \cap P!Regs = {i}
      BY <1>2, <2>1
    <2>3. P!NewInt1(a, {i})
      <3>1. \E more \in {{}} : P!NewInt1(a, dr6 \cup (P!SlotOf(a.b) \cap P!Regs) \cup more)
        BY <1>2 DEF P!Instruction, Unambiguous
      <3>2. dr6 \cup (P!SlotOf(a.b) \cap P!Regs) \cup {} = {i}
        BY <2>2 DEF AccessIInv
      <3>. QED BY <3>1, <3>2
    <2>4. P!Lowest({i}) = i
      BY OnlyOne, AccessSettings DEF P!Lowest
    <2>5. dr6' = {}
      BY <2>1, <2>2, <2>3, <1>0, AccessSettings DEF P!NewInt1, P!UsageBits
    <2>6. P!Dispatch(x4dr[i], a)
      BY <2>3, <2>4 DEF P!NewInt1
    <2>7. P!Guessed(a) = a.width
      BY <1>0 DEF P!Guessed, P!Guessed32, P!Guessed64, P!Accesses
    <2>8. CASE a.string
      <3>1. P!Fail(x4dr[i], a)
        BY <2>1, <2>6, <2>8, AccessSettings DEF P!Dispatch
      <3>. QED BY <2>1, <2>5, <2>8, <3>1, FailFine
    <2>9. CASE ~a.string
      <3>1. P!Carry(x4dr[i], a, a.width)
        BY <2>6, <2>7, <2>9 DEF P!Dispatch
      <3>. QED BY <2>1, <2>5, <3>1, CarryFine
    <2>. QED BY <2>8, <2>9
  <1>. QED BY <1>1, <1>2

\* Through a redirected function.
LEMMA CallFine ==
  ASSUME Unambiguous, AccessIInv, NEW a \in P!Accesses, P!MayAccess(a), P!Call(a)
  PROVE  Fine /\ dr6' = {}
  <1>1. CASE P!Found(a.b) = {}
    BY <1>1, InstructionFine DEF P!Call
  <1>2. CASE P!Found(a.b) # {}
    <2>1. a.b \in Blocks /\ P!SlotOf(a.b) # {}
      BY <1>2 DEF P!Accesses, P!Found
    <2>2. PICK i \in P!Places :
            /\ P!SlotOf(a.b) = {i} /\ usage[i] = a.b /\ x4dr[i] \in Devices
            /\ P!Owner(a.b) = {x4dr[i]}
      BY <2>1, Slot
    <2>3. P!Found(a.b) = {i}
      BY <1>2, <2>2 DEF P!Found
    <2>4. P!Min(P!Found(a.b)) = i
      BY <2>3, OnlyOne, AccessSettings
    <2>5. dr6' = {} /\ IF a.string THEN P!Fail(x4dr[i], a) ELSE P!Carry(x4dr[i], a, a.width)
      BY <1>2, <2>4 DEF P!Call, AccessIInv
    <2>6. CASE a.string
      BY <2>2, <2>5, <2>6, FailFine
    <2>7. CASE ~a.string
      BY <2>2, <2>5, <2>7, CarryFine
    <2>. QED BY <2>5, <2>6, <2>7
  <1>. QED BY <1>1, <1>2

\* Through a handler for the port: there is one only while the block has a slot.
LEMMA CallbackFine ==
  ASSUME Unambiguous, AccessIInv, NEW a \in P!Accesses, sys = "win98",
         handler[a.b][a.k] = "driver", P!IOCallback(a)
  PROVE  Fine /\ dr6' = {}
  <1>1. a.b \in Blocks /\ a.k \in Ports
    BY DEF P!Accesses
  <1>2. P!SlotOf(a.b) # {}
    BY <1>1 DEF AccessIInv, Handlers, P!SlotOf
  <1>3. PICK i \in P!Places :
          /\ P!SlotOf(a.b) = {i} /\ usage[i] = a.b /\ x4dr[i] \in Devices
          /\ P!Owner(a.b) = {x4dr[i]}
    BY <1>1, <1>2, Slot
  <1>4. P!Min(P!SlotOf(a.b)) = i
    BY <1>3, OnlyOne, AccessSettings
  <1>5. dr6' = {} /\ P!Carry(x4dr[i], a, a.width)
    BY <1>2, <1>4 DEF P!IOCallback, AccessIInv
  <1>. QED BY <1>3, <1>5, CarryFine

LEMMA AccessStep ==
  ASSUME Unambiguous, AccessIInv, NEW a \in P!Accesses, P!Access(a)
  PROVE  AccessIInv'
  <1>1. UNCHANGED <<sys, usage, x4dr, foreign, handler, hasTrap>> /\ P!MayAccess(a)
    BY DEF P!Access
  <1>2. a.way \in {"instr", "user", "call"}
    BY DEF P!Accesses
  <1>3. Fine /\ dr6' = {}
    <2>1. CASE a.way = "instr"
      <3>1. P!Instruction(a)
        BY <2>1 DEF P!Access
      <3>. QED BY <2>1, <3>1, <1>1, InstructionFine
    <2>2. CASE a.way = "call"
      <3>1. P!Call(a)
        BY <2>2 DEF P!Access
      <3>. QED BY <3>1, <1>1, CallFine
    <2>3. CASE a.way = "user"
      <3>1. sys = "win98"
        BY <2>3, <1>1 DEF P!MayAccess
      <3>2. CASE handler[a.b][a.k] = "driver"
        <4>1. P!IOCallback(a)
          BY <2>3, <3>2 DEF P!Access
        <4>. QED BY <3>1, <3>2, <4>1, CallbackFine
      <3>3. CASE handler[a.b][a.k] # "driver"
        <4>1. P!Hardware(a) /\ UNCHANGED dr6
          BY <2>3, <3>3 DEF P!Access
        <4>. QED BY <2>3, <4>1 DEF P!Hardware, Fine, AccessIInv, AccessTypes
      <3>. QED BY <3>2, <3>3
    <2>. QED BY <1>2, <2>1, <2>2, <2>3
  <1>. QED BY <1>1, <1>3 DEF AccessIInv, AccessTypes, OneSlot, Handlers, Fine

LEMMA AccessNext ==
  ASSUME Unambiguous, AccessIInv, [P!Next]_(P!vars) PROVE AccessIInv'
  <1>1. CASE UNCHANGED P!vars
    BY <1>1 DEF P!vars, AccessIInv, AccessTypes, OneSlot, Handlers
  <1>2. ASSUME P!Breakpoint PROVE AccessIInv'
    BY <1>2 DEF P!Breakpoint, AccessIInv, AccessTypes, OneSlot, Handlers
  <1>3. ASSUME NEW d \in Devices, P!Lock(d) PROVE AccessIInv'
    BY <1>3 DEF P!Lock, AccessIInv, AccessTypes, OneSlot, Handlers
  <1>. QED BY <1>1, <1>2, <1>3, AllocStep, FreeStep, AccessStep DEF P!Next

\* Any accesses, by instruction, function and port handler, on all three systems, while
\* addresses come and go: each reaches the device its address is configured for, as
\* wide as the program meant it, or is counted as failed; and a port has the driver's
\* handler just while its block is in the table.
THEOREM AccessesAsMeant == ASSUME Unambiguous PROVE P!Spec => []AccessAsMeant
  <1>1. P!Init => AccessIInv
    BY AccessInit
  <1>2. AccessIInv /\ [P!Next]_(P!vars) => AccessIInv'
    BY Unambiguous, AccessNext
  <1>3. AccessIInv => AccessAsMeant
    BY DEF AccessIInv, AccessTypes, Handlers, AccessAsMeant, P!AccessAsMeant, P!SlotOf
  <1>. QED BY <1>1, <1>2, <1>3, PTL DEF P!Spec

(***************************************************************************)
(* The debug registers: an access that a register catches finds its        *)
(* device, and no register is on where nobody takes its exceptions,        *)
(* whoever takes the registers away and however late the DPCs run.         *)
(***************************************************************************)
\* Devices start and stop one at a time, with memory for the DPCs, and no program uses a
\* port whose trap is being set or freed: the findings are about the other cases.
InTurn == Serial /\ ~NoPool /\ ~BusyPorts

Stages == {"alloc", "load", "done", "free", "unload", "unhook"}
Threads == {D!Idle} \cup [do : Stages, addr : Addrs, slot : Slots, todo : SUBSET Processors]

TrapTypes ==
  /\ Usage \in [Slots -> Addrs \cup {0}] /\ X4DR = Usage /\ UsageBits \subseteq Slots
  /\ dr \in [Processors -> [Slots -> Addrs \cup {0}]] /\ hooked \in [Processors -> BOOLEAN]
  /\ int1 \in [Processors -> {D!NoTrap} \cup [addr : Addrs, slot : Slots]]
  /\ op \in [Processors -> Threads] /\ DOMAIN dpcs = Processors /\ DOMAIN got = Processors

\* One thread at a time, and it does not wait for its own processor.
InOrder ==
  /\ \A c, d \in Processors : op[c] # D!Idle /\ op[d] # D!Idle => c = d
  /\ \A c \in Processors : /\ c \notin op[c].todo
                           /\ op[c].do \in {"alloc", "free", "unload"} => op[c].todo = {}

\* A slot counts as used if it has an address, but while that is about to change.
Bits ==
  /\ \A s \in Slots : \/ s \in UsageBits <=> Usage[s] # 0
                      \/ \E c \in Processors : op[c].do \in {"load", "unload"} /\ op[c].slot = s
  /\ \A c \in Processors :
       /\ op[c].do = "alloc" => Usage[op[c].slot] = 0
       /\ op[c].do = "load" => op[c].slot \notin UsageBits /\ Usage[op[c].slot] = op[c].addr
       /\ op[c].do = "free" => Usage[op[c].slot] = op[c].addr
       /\ op[c].do = "unload" => op[c].slot \in UsageBits /\ Usage[op[c].slot] = 0
       /\ op[c].do = "unhook" => Usage[op[c].slot] = 0

\* The address that is being freed, in the registers that are still to be cleared.
Leaving(d, s, a) ==
  \E c \in Processors : /\ op[c].slot = s /\ a = op[c].addr
                        /\ op[c].do = "unload" \/ (op[c].do = "unhook" /\ d \in op[c].todo)

\* A register that is on holds the address of its slot, on a processor with hooks.
Registers ==
  \A d \in Processors, s \in Slots :
    dr[d][s] # 0 => hooked[d] /\ (dr[d][s] = Usage[s] \/ Leaving(d, s, dr[d][s]))

\* The processors whose interrupts are hooked: all or none, but for those that have not run
\* the routine yet.
Hooks ==
  /\ (\A c \in Processors : op[c].do \in {"idle", "alloc", "free"}) =>
       \A d \in Processors : hooked[d] <=> UsageBits # {}
  /\ \A c \in Processors :
       /\ op[c].do = "load" => /\ UsageBits = {} \/ op[c].todo = {}
                               /\ \A d \in Processors : hooked[d] <=> d \notin op[c].todo
       /\ op[c].do \in {"unload", "unhook"} => \A d \in Processors : hooked[d]
       /\ op[c].do = "done" => \A d \in Processors : hooked[d] <=> UsageBits # {} \/ d \in op[c].todo

\* What the thread o on processor c waits for, given the slots that count as used.
JobOf(o, c, bits) ==
  IF o.do = "load" THEN [do |-> "HookInts", slot |-> 0, for |-> c]
  ELSE IF o.do = "unhook" THEN [do |-> "UnloadDR", slot |-> o.slot, for |-> c]
  ELSE IF bits = {} THEN [do |-> "UnhookInts", slot |-> 0, for |-> c]
  ELSE [do |-> "LoadDR", slot |-> o.slot, for |-> c]

Queued ==
  \A d \in Processors : \A job \in dpcs[d] :
    \E c \in Processors : /\ d \in op[c].todo /\ op[c].do \in {"load", "unhook", "done"}
                          /\ job = JobOf(op[c], c, UsageBits)

\* The handler of INT 1 holds a slot that nobody touches.
Handled ==
  \A d \in Processors : int1[d] # D!NoTrap =>
    /\ Usage[int1[d].slot] = int1[d].addr
    /\ \A c \in Processors : op[c].addr # int1[d].addr

TrapIInv == TrapTypes /\ InOrder /\ Bits /\ Registers /\ Hooks /\ Queued /\ Handled /\ D!TrapsAnswered
-----------------------------------------------------------------------------
LEMMA Least ==
  ASSUME NEW S, S \subseteq 0 .. 3, S # {}
  PROVE  D!Min(S) \in S
  <1>1. \E x \in S : \A y \in S : x <= y
    <2>1. CASE 0 \in S
      BY <2>1
    <2>2. CASE 0 \notin S /\ 1 \in S
      BY <2>2
    <2>3. CASE 0 \notin S /\ 1 \notin S /\ 2 \in S
      BY <2>3
    <2>4. CASE 0 \notin S /\ 1 \notin S /\ 2 \notin S
      <3>1. \A y \in S : y = 3
        BY <2>4
      <3>2. PICK y \in S : TRUE
        OBVIOUS
      <3>3. 3 \in S
        BY <3>1, <3>2
      <3>. QED BY <3>1, <3>3
    <2>. QED BY <2>1, <2>2, <2>3, <2>4
  <1>. QED BY <1>1 DEF D!Min

LEMMA IdleThread ==
  /\ D!Idle.do = "idle" /\ D!Idle.addr = 0 /\ D!Idle.slot = 0 /\ D!Idle.todo = {}
  BY DEF D!Idle

LEMMA Thread ==
  ASSUME TrapTypes, NEW c \in Processors, op[c].do # "idle"
  PROVE  /\ op[c] # D!Idle /\ op[c].do \in Stages /\ op[c].addr \in Addrs /\ op[c].addr # 0
         /\ op[c].slot \in Slots /\ op[c].todo \subseteq Processors
         /\ DOMAIN op[c] = {"do", "addr", "slot", "todo"}
  <1>1. op[c] # D!Idle
    BY IdleThread
  <1>2. op[c] \in [do : Stages, addr : Addrs, slot : Slots, todo : SUBSET Processors]
    BY <1>1 DEF TrapTypes, Threads
  <1>3. op[c].do \in Stages /\ op[c].addr \in Addrs /\ op[c].slot \in Slots
        /\ op[c].todo \subseteq Processors /\ DOMAIN op[c] = {"do", "addr", "slot", "todo"}
    BY <1>2
  <1>. QED BY <1>1, <1>3, DriverAssumption DEF D!DebugTrapAssumption

LEMMA AtRest ==
  ASSUME TrapTypes, NEW c \in Processors, op[c].do = "idle"
  PROVE  op[c] = D!Idle
  <1>1. op[c] # D!Idle => op[c] \in [do : Stages, addr : Addrs, slot : Slots, todo : SUBSET Processors]
    BY DEF TrapTypes, Threads
  <1>2. op[c] # D!Idle => op[c].do \in Stages
    BY <1>1
  <1>. QED BY <1>2 DEF Stages

\* While one thread is at work the others are not.
LEMMA Alone ==
  ASSUME TrapTypes, InOrder, NEW c \in Processors, op[c].do # "idle"
  PROVE  \A d \in Processors \ {c} : op[d] = D!Idle
  BY Thread DEF InOrder

LEMMA Fields ==
  ASSUME NEW r \in [do : Stages, addr : Addrs, slot : Slots, todo : SUBSET Processors],
         NEW x \in Stages, NEW T \in SUBSET Processors, NEW q,
         \/ q = [r EXCEPT !.do = x, !.todo = T]
         \/ q = [r EXCEPT !.do = x] /\ T = r.todo
         \/ q = [r EXCEPT !.todo = T] /\ x = r.do
  PROVE  /\ q \in [do : Stages, addr : Addrs, slot : Slots, todo : SUBSET Processors]
         /\ q.do = x /\ q.addr = r.addr /\ q.slot = r.slot /\ q.todo = T
  <1>1. CASE q = [r EXCEPT !.do = x, !.todo = T]
    BY <1>1
  <1>2. CASE q = [r EXCEPT !.do = x] /\ T = r.todo
    BY <1>2
  <1>3. CASE q = [r EXCEPT !.todo = T] /\ x = r.do
    BY <1>3
  <1>. QED BY <1>1, <1>2, <1>3

\* A thread goes on.
LEMMA Goes ==
  ASSUME TrapTypes, NEW c \in Processors, op[c].do # "idle", NEW x \in Stages, NEW T \in SUBSET Processors,
         \/ op' = [op EXCEPT ![c] = [op[c] EXCEPT !.do = x, !.todo = T]]
         \/ op' = [op EXCEPT ![c] = [op[c] EXCEPT !.do = x]] /\ T = op[c].todo
         \/ op' = [op EXCEPT ![c] = [op[c] EXCEPT !.todo = T]] /\ x = op[c].do
  PROVE  /\ op' \in [Processors -> Threads]
         /\ op'[c].do = x /\ op'[c].addr = op[c].addr /\ op'[c].slot = op[c].slot
         /\ op'[c].todo = T
         /\ \A d \in Processors \ {c} : op'[d] = op[d]
  <1>1. op \in [Processors -> Threads]
    BY DEF TrapTypes
  <1>2. PICK q :
          /\ op' = [op EXCEPT ![c] = q]
          /\ \/ q = [op[c] EXCEPT !.do = x, !.todo = T]
             \/ q = [op[c] EXCEPT !.do = x] /\ T = op[c].todo
             \/ q = [op[c] EXCEPT !.todo = T] /\ x = op[c].do
    OBVIOUS
  <1>3. op'[c] = q /\ \A d \in Processors \ {c} : op'[d] = op[d]
    BY <1>1, <1>2
  <1>4. op[c] \in [do : Stages, addr : Addrs, slot : Slots, todo : SUBSET Processors]
    BY <1>1, Thread DEF Threads
  <1>5. /\ q \in [do : Stages, addr : Addrs, slot : Slots, todo : SUBSET Processors]
        /\ q.do = x /\ q.addr = op[c].addr /\ q.slot = op[c].slot /\ q.todo = T
    BY <1>2, <1>4, Fields
  <1>6. op' \in [Processors -> Threads]
    BY <1>1, <1>2, <1>5 DEF Threads
  <1>. QED BY <1>3, <1>5, <1>6

\* It goes on at once.
LEMMA GoesOn ==
  ASSUME TrapTypes, NEW c \in Processors, op[c].do # "idle", NEW x \in Stages, op' = [op EXCEPT ![c].do = x]
  PROVE  /\ op' \in [Processors -> Threads]
         /\ op'[c].do = x /\ op'[c].addr = op[c].addr /\ op'[c].slot = op[c].slot
         /\ op'[c].todo = op[c].todo
         /\ \A d \in Processors \ {c} : op'[d] = op[d]
  <1>1. op' = [op EXCEPT ![c] = [op[c] EXCEPT !.do = x]]
    BY DEF TrapTypes
  <1>2. PICK T \in SUBSET Processors : T = op[c].todo
    BY Thread
  <1>. QED BY <1>1, <1>2, Goes

\* EachProcessor: the routine here, a DPC for each of the others.
LEMMA Everywhere ==
  ASSUME InTurn, TrapTypes, NEW c \in Processors, op[c].do # "idle", NEW job, NEW x \in Stages,
         D!EachProcessor(c, job, x)
  PROVE  /\ D!Routine(c, job)
         /\ dpcs' = [d \in Processors |-> IF d = c THEN dpcs[d]
                                    ELSE dpcs[d] \cup {[do |-> job.do, slot |-> job.slot, for |-> c]}]
         /\ op' \in [Processors -> Threads]
         /\ op'[c].do = x /\ op'[c].addr = op[c].addr /\ op'[c].slot = op[c].slot
         /\ op'[c].todo = Processors \ {c}
         /\ \A d \in Processors \ {c} : op'[d] = op[d]
  <1>1. op \in [Processors -> Threads]
    BY DEF TrapTypes
  <1>2. /\ D!Routine(c, job)
        /\ dpcs' = [d \in Processors |-> IF d = c THEN dpcs[d]
                                   ELSE dpcs[d] \cup {[do |-> job.do, slot |-> job.slot, for |-> c]}]
        /\ op' = [op EXCEPT ![c] = [op[c] EXCEPT !.do = x, !.todo = Processors \ {c}]]
    BY <1>1 DEF InTurn, D!EachProcessor
  <1>3. PICK T \in SUBSET Processors : T = Processors \ {c}
    OBVIOUS
  <1>4. op' = [op EXCEPT ![c] = [op[c] EXCEPT !.do = x, !.todo = T]]
    BY <1>2, <1>3
  <1>5. /\ op' \in [Processors -> Threads]
        /\ op'[c].do = x /\ op'[c].addr = op[c].addr /\ op'[c].slot = op[c].slot
        /\ op'[c].todo = T
        /\ \A d \in Processors \ {c} : op'[d] = op[d]
    BY <1>4, Goes
  <1>. QED BY <1>2, <1>3, <1>5

\* With nothing new to wait for, no DPC of the thread is left.
LEMMA NoneQueued ==
  ASSUME TrapTypes, InOrder, Queued, NEW c \in Processors,
         op[c].do # "idle" => op[c].todo = {}, \A d \in Processors \ {c} : op[d] = D!Idle
  PROVE  \A d \in Processors : dpcs[d] = {}
  <1>1. op[c].do = "idle" => op[c].todo = {}
    BY AtRest, IdleThread
  <1>. QED BY <1>1, IdleThread DEF Queued

\* What a processor runs.
LEMMA Routines ==
  ASSUME TrapTypes, NEW c \in Processors, NEW job, D!Routine(c, job)
  PROVE  /\ job.do = "HookInts" => UNCHANGED dr /\ hooked' = [hooked EXCEPT ![c] = TRUE]
         /\ job.do = "LoadDR" => UNCHANGED hooked /\ dr' = [dr EXCEPT ![c] = D!Loaded(c)]
         /\ job.do = "UnloadDR" =>
              UNCHANGED hooked /\ dr' = [dr EXCEPT ![c] = [dr[c] EXCEPT ![job.slot] = 0]]
         /\ job.do = "UnhookInts" => UNCHANGED dr /\ hooked' = [hooked EXCEPT ![c] = FALSE]
  <1>1. dr \in [Processors -> [Slots -> Addrs \cup {0}]] /\ hooked \in [Processors -> BOOLEAN]
    BY DEF TrapTypes
  <1>2. [dr EXCEPT ![c] = dr[c]] = dr /\ [hooked EXCEPT ![c] = hooked[c]] = hooked
    BY <1>1
  <1>3. CASE job.do = "HookInts"
    BY <1>2, <1>3 DEF D!Routine
  <1>4. CASE job.do = "LoadDR"
    BY <1>2, <1>4 DEF D!Routine
  <1>5. CASE job.do = "UnloadDR"
    BY <1>2, <1>5 DEF D!Routine
  <1>6. CASE job.do = "UnhookInts"
    BY <1>2, <1>6 DEF D!Routine
  <1>. QED BY <1>3, <1>4, <1>5, <1>6

\* The registers that are loaded again hold the addresses of their slots.
LEMMA LoadedRegisters ==
  ASSUME TrapTypes, NEW c \in Processors, dr' = [dr EXCEPT ![c] = D!Loaded(c)]
  PROVE  /\ dr' \in [Processors -> [Slots -> Addrs \cup {0}]]
         /\ \A d \in Processors, s \in Slots :
              dr'[d][s] = dr[d][s] \/ (d = c /\ dr'[d][s] = Usage[s] /\ Usage[s] # 0)
  <1>1. /\ dr \in [Processors -> [Slots -> Addrs \cup {0}]] /\ Usage \in [Slots -> Addrs \cup {0}]
    BY DEF TrapTypes
  <1>2. D!Loaded(c) \in [Slots -> Addrs \cup {0}]
        /\ \A s \in Slots : D!Loaded(c)[s] = IF Usage[s] # 0 THEN Usage[s] ELSE dr[c][s]
    BY <1>1 DEF D!Loaded
  <1>. QED BY <1>1, <1>2

LEMMA ClearedRegister ==
  ASSUME TrapTypes, NEW c \in Processors, NEW k \in Slots, dr' = [dr EXCEPT ![c] = [dr[c] EXCEPT ![k] = 0]]
  PROVE  /\ dr' \in [Processors -> [Slots -> Addrs \cup {0}]]
         /\ dr'[c][k] = 0
         /\ \A d \in Processors, s \in Slots : d # c \/ s # k => dr'[d][s] = dr[d][s]
  <1>1. dr \in [Processors -> [Slots -> Addrs \cup {0}]]
    BY DEF TrapTypes
  <1>2. [dr[c] EXCEPT ![k] = 0] \in [Slots -> Addrs \cup {0}]
    BY <1>1
  <1>. QED BY <1>1, <1>2
-----------------------------------------------------------------------------
(* AllocDR and FreeDR *)

\* The slot that is chosen is free, or the address's.
LEMMA Begins ==
  ASSUME InTurn, TrapIInv, NEW c \in Processors, D!AllocDR(c) \/ D!FreeDR(c)
  PROVE  /\ \A d \in Processors : op[d] = D!Idle
         /\ UNCHANGED <<Usage, X4DR, UsageBits, dpcs, dr, hooked, int1, got>>
         /\ \E x \in {"alloc", "free"}, a \in Addrs, s \in Slots :
              /\ op' = [op EXCEPT ![c] = [do |-> x, addr |-> a, slot |-> s, todo |-> {}]]
              /\ Usage[s] = IF x = "alloc" THEN 0 ELSE a
              /\ \A d \in Processors : int1[d] # D!NoTrap => int1[d].addr # a
  <1>1. /\ \A d \in Processors : op[d] = D!Idle
        /\ UNCHANGED <<Usage, X4DR, UsageBits, dpcs, dr, hooked, int1, got>>
    BY DEF D!AllocDR, D!FreeDR, D!MayBegin, InTurn
  <1>2. Slots \subseteq 0 .. 3
    BY DriverAssumption DEF D!DebugTrapAssumption
  <1>3. CASE D!AllocDR(c)
    <2>1. PICK a \in Addrs :
            /\ D!InUse(a) = {} /\ D!FreeSlots # {}
            /\ op' = [op EXCEPT ![c] = [do |-> "alloc", addr |-> a, slot |-> D!Min(D!FreeSlots), todo |-> {}]]
      BY <1>3 DEF D!AllocDR
    <2>2. D!Min(D!FreeSlots) \in D!FreeSlots
      <3>1. D!FreeSlots \subseteq 0 .. 3
        BY <1>2 DEF D!FreeSlots, D!InUse
      <3>. QED BY <2>1, <3>1, Least
    <2>3. D!Min(D!FreeSlots) \in Slots /\ Usage[D!Min(D!FreeSlots)] = 0
      BY <2>2 DEF D!FreeSlots, D!InUse
    <2>4. \A d \in Processors : int1[d] # D!NoTrap => int1[d].addr # a
      <3>1. SUFFICES ASSUME NEW d \in Processors, int1[d] # D!NoTrap PROVE int1[d].addr # a
        OBVIOUS
      <3>2. int1[d].slot \in Slots /\ Usage[int1[d].slot] = int1[d].addr
        BY <3>1 DEF TrapIInv, TrapTypes, Handled
      <3>. QED BY <2>1, <3>2 DEF D!InUse
    <2>. QED BY <1>1, <2>1, <2>3, <2>4
  <1>4. CASE D!FreeDR(c)
    <2>1. PICK a \in Addrs :
            /\ D!InUse(a) # {} /\ ~D!Accessed(a)
            /\ op' = [op EXCEPT ![c] = [do |-> "free", addr |-> a, slot |-> D!Min(D!InUse(a)), todo |-> {}]]
      BY <1>4 DEF D!FreeDR, InTurn
    <2>2. D!Min(D!InUse(a)) \in D!InUse(a)
      <3>1. D!InUse(a) \subseteq 0 .. 3
        BY <1>2 DEF D!InUse
      <3>. QED BY <2>1, <3>1, Least
    <2>3. D!Min(D!InUse(a)) \in Slots /\ Usage[D!Min(D!InUse(a))] = a
      BY <2>2 DEF D!InUse
    <2>4. \A d \in Processors : int1[d].addr # a
      BY <2>1 DEF D!Accessed
    <2>. QED BY <1>1, <2>1, <2>3, <2>4
  <1>. QED BY <1>3, <1>4

LEMMA BeginStep ==
  ASSUME InTurn, TrapIInv, NEW c \in Processors, D!AllocDR(c) \/ D!FreeDR(c)
  PROVE  TrapIInv'
  <1>1. /\ \A d \in Processors : op[d] = D!Idle
        /\ UNCHANGED <<Usage, X4DR, UsageBits, dpcs, dr, hooked, int1, got>>
    BY Begins
  <1>2. PICK x \in {"alloc", "free"}, a \in Addrs, s \in Slots :
              /\ op' = [op EXCEPT ![c] = [do |-> x, addr |-> a, slot |-> s, todo |-> {}]]
              /\ Usage[s] = IF x = "alloc" THEN 0 ELSE a
              /\ \A d \in Processors : int1[d] # D!NoTrap => int1[d].addr # a
    BY Begins
  <1>3. PICK q : q = [do |-> x, addr |-> a, slot |-> s, todo |-> {}]
    OBVIOUS
  <1>4. q.do = x /\ q.addr = a /\ q.slot = s /\ q.todo = {} /\ q \in Threads
    BY <1>3 DEF Threads, Stages
  <1>5. op'[c] = q /\ (\A d \in Processors \ {c} : op'[d] = D!Idle) /\ op' \in [Processors -> Threads]
    BY <1>1, <1>2, <1>3, <1>4 DEF TrapIInv, TrapTypes
  <1>6. TrapTypes'
    BY <1>1, <1>5 DEF TrapIInv, TrapTypes
  <1>7. InOrder'
    BY <1>4, <1>5, IdleThread DEF InOrder
  <1>8. Bits'
    <2>1. \A k \in Slots : k \in UsageBits <=> Usage[k] # 0
      BY <1>1, IdleThread DEF TrapIInv, Bits
    <2>. QED BY <1>1, <1>2, <1>4, <1>5, <2>1, IdleThread DEF Bits
  <1>9. Registers'
    BY <1>1, IdleThread DEF TrapIInv, Registers, Leaving
  <1>10. Hooks'
    <2>1. \A d \in Processors : hooked[d] <=> UsageBits # {}
      BY <1>1, IdleThread DEF TrapIInv, Hooks
    <2>. QED BY <1>1, <1>4, <1>5, <2>1, IdleThread DEF Hooks
  <1>11. Queued'
    <2>1. \A d \in Processors : dpcs[d] = {}
      BY <1>1, IdleThread, NoneQueued DEF TrapIInv
    <2>. QED BY <1>1, <2>1 DEF Queued
  <1>12. Handled'
    <2>1. \A d \in Processors : int1[d] # D!NoTrap => int1[d].addr # 0
      <3>1. 0 \notin Addrs
        BY DriverAssumption DEF D!DebugTrapAssumption
      <3>. QED BY <3>1 DEF TrapIInv, TrapTypes
    <2>. QED BY <1>1, <1>2, <1>4, <1>5, <2>1, IdleThread DEF TrapIInv, Handled
  <1>13. D!TrapsAnswered'
    BY <1>1 DEF TrapIInv, D!TrapsAnswered
  <1>. QED BY <1>6, <1>7, <1>8, <1>9, <1>10, <1>11, <1>12, <1>13 DEF TrapIInv

\* The table has the address; with the first one the interrupts are hooked.
LEMMA AllocStoreStep ==
  ASSUME InTurn, TrapIInv, NEW c \in Processors, D!AllocStore(c)
  PROVE  TrapIInv'
  <1>. DEFINE a == op[c].addr
              k == op[c].slot
  <1>1. /\ op[c].do = "alloc" /\ op[c].todo = {} /\ a \in Addrs /\ a # 0 /\ k \in Slots
        /\ Usage[k] = 0 /\ (\A d \in Processors \ {c} : op[d] = D!Idle)
        /\ UNCHANGED <<UsageBits, int1, got>>
        /\ Usage' = [Usage EXCEPT ![k] = a] /\ X4DR' = [X4DR EXCEPT ![k] = a]
    BY Thread, Alone DEF D!AllocStore, TrapIInv, InOrder, Bits
  <1>2. /\ Usage' \in [Slots -> Addrs \cup {0}] /\ X4DR' = Usage' /\ Usage'[k] = a
        /\ \A s \in Slots \ {k} : Usage'[s] = Usage[s]
    BY <1>1 DEF TrapIInv, TrapTypes
  <1>3. \A s \in Slots : s \in UsageBits <=> Usage[s] # 0
    BY <1>1, IdleThread DEF TrapIInv, Bits
  <1>4. \A d \in Processors : dpcs[d] = {}
    BY <1>1, NoneQueued DEF TrapIInv
  <1>5. \A d \in Processors : hooked[d] <=> UsageBits # {}
    BY <1>1, IdleThread DEF TrapIInv, Hooks
  <1>. DEFINE J == [do |-> "HookInts", slot |-> 0, for |-> c]
  <1>6. \E T \in SUBSET Processors :
          /\ op' \in [Processors -> Threads] /\ op'[c].do = "load" /\ op'[c].addr = a /\ op'[c].slot = k
          /\ op'[c].todo = T /\ (\A d \in Processors \ {c} : op'[d] = D!Idle) /\ c \notin T
          /\ dr' = dr /\ DOMAIN dpcs' = Processors /\ hooked' \in [Processors -> BOOLEAN]
          /\ (\A d \in Processors : hooked'[d] <=> d \notin T) /\ (UsageBits = {} \/ T = {})
          /\ \A d \in Processors : dpcs'[d] = IF d \in T THEN {J} ELSE {}
    <2>1. CASE UsageBits = {}
      <3>1. PICK job : job = [do |-> "HookInts", slot |-> 0]
        OBVIOUS
      <3>2. D!EachProcessor(c, job, "load") /\ "load" \in Stages
        BY <2>1, <3>1 DEF D!AllocStore, Stages
      <3>3. job.do = "HookInts" /\ job.slot = 0
        BY <3>1
      <3>4. /\ D!Routine(c, job)
            /\ dpcs' = [d \in Processors |-> IF d = c THEN dpcs[d]
                                      ELSE dpcs[d] \cup {[do |-> job.do, slot |-> job.slot, for |-> c]}]
            /\ op' \in [Processors -> Threads] /\ op'[c].do = "load" /\ op'[c].addr = a /\ op'[c].slot = k
            /\ op'[c].todo = Processors \ {c} /\ \A d \in Processors \ {c} : op'[d] = op[d]
        BY <1>1, <3>2, Everywhere DEF TrapIInv
      <3>5. dr' = dr /\ hooked' = [hooked EXCEPT ![c] = TRUE]
        BY <3>3, <3>4, Routines DEF TrapIInv
      <3>6. hooked' \in [Processors -> BOOLEAN] /\ \A d \in Processors : hooked'[d] <=> d \notin Processors \ {c}
        BY <1>5, <2>1, <3>5 DEF TrapIInv, TrapTypes
      <3>7. DOMAIN dpcs' = Processors /\ \A d \in Processors : dpcs'[d] = IF d \in Processors \ {c} THEN {J} ELSE {}
        BY <1>4, <3>3, <3>4
      <3>8. Processors \ {c} \in SUBSET Processors /\ c \notin Processors \ {c}
        OBVIOUS
      <3>9. PICK T \in SUBSET Processors : T = Processors \ {c} /\ c \notin T
        BY <3>8
      <3>. HIDE DEF J
      <3>. QED BY <1>1, <2>1, <3>4, <3>5, <3>6, <3>7, <3>9
    <2>2. CASE UsageBits # {}
      <3>1. op' = [op EXCEPT ![c].do = "load"] /\ UNCHANGED <<dpcs, dr, hooked>> /\ "load" \in Stages
        BY <2>2 DEF D!AllocStore, Stages
      <3>2. /\ op' \in [Processors -> Threads] /\ op'[c].do = "load" /\ op'[c].addr = a /\ op'[c].slot = k
            /\ op'[c].todo = {} /\ \A d \in Processors \ {c} : op'[d] = op[d]
        BY <1>1, <3>1, GoesOn DEF TrapIInv
      <3>. QED BY <1>1, <1>4, <1>5, <2>2, <3>1, <3>2 DEF TrapIInv, TrapTypes
    <2>. QED BY <2>1, <2>2
  <1>7. PICK T \in SUBSET Processors :
          /\ op' \in [Processors -> Threads] /\ op'[c].do = "load" /\ op'[c].addr = a /\ op'[c].slot = k
          /\ op'[c].todo = T /\ (\A d \in Processors \ {c} : op'[d] = D!Idle) /\ c \notin T
          /\ dr' = dr /\ DOMAIN dpcs' = Processors /\ hooked' \in [Processors -> BOOLEAN]
          /\ (\A d \in Processors : hooked'[d] <=> d \notin T) /\ (UsageBits = {} \/ T = {})
          /\ \A d \in Processors : dpcs'[d] = IF d \in T THEN {J} ELSE {}
    BY <1>6
  <1>8. TrapTypes'
    BY <1>1, <1>2, <1>7 DEF TrapIInv, TrapTypes
  <1>9. InOrder'
    BY <1>7, IdleThread DEF InOrder
  <1>10. Bits'
    BY <1>1, <1>2, <1>3, <1>7, IdleThread DEF Bits
  <1>11. Registers'
    <2>1. SUFFICES ASSUME NEW d \in Processors, NEW s \in Slots, dr[d][s] # 0
                   PROVE  hooked'[d] /\ dr[d][s] = Usage'[s]
      BY <1>7 DEF Registers
    <2>2. hooked[d] /\ dr[d][s] = Usage[s]
      BY <1>1, <2>1, IdleThread DEF TrapIInv, Registers, Leaving
    <2>. QED BY <1>1, <1>2, <1>5, <1>7, <2>1, <2>2
  <1>12. Hooks'
    BY <1>1, <1>7, IdleThread DEF Hooks
  <1>13. Queued'
    BY <1>7 DEF Queued, JobOf
  <1>14. Handled'
    <2>1. \A d \in Processors : int1[d] # D!NoTrap => int1[d].addr \in Addrs /\ int1[d].slot \in Slots
      BY DEF TrapIInv, TrapTypes
    <2>2. 0 \notin Addrs
      BY DriverAssumption DEF D!DebugTrapAssumption
    <2>. QED BY <1>1, <1>2, <1>7, <2>1, <2>2, IdleThread DEF TrapIInv, Handled
  <1>15. D!TrapsAnswered'
    BY <1>1 DEF TrapIInv, D!TrapsAnswered
  <1>. QED BY <1>8, <1>9, <1>10, <1>11, <1>12, <1>13, <1>14, <1>15 DEF TrapIInv

\* One thread, which waited for nobody, has every processor run a routine.
LEMMA Broadcast ==
  ASSUME InTurn, TrapIInv, NEW c \in Processors, op[c].do # "idle", op[c].todo = {}, NEW job,
         NEW x \in Stages, D!EachProcessor(c, job, x),
         NEW J, J = [do |-> job.do, slot |-> job.slot, for |-> c]
  PROVE  /\ D!Routine(c, job) /\ DOMAIN dpcs' = Processors
         /\ \A d \in Processors : dpcs'[d] = IF d = c THEN {} ELSE {J}
         /\ op' \in [Processors -> Threads]
         /\ op'[c].do = x /\ op'[c].addr = op[c].addr /\ op'[c].slot = op[c].slot
         /\ op'[c].todo = Processors \ {c}
         /\ \A d \in Processors \ {c} : op'[d] = D!Idle
  <1>1. \A d \in Processors \ {c} : op[d] = D!Idle
    BY Alone DEF TrapIInv
  <1>2. \A d \in Processors : dpcs[d] = {}
    BY <1>1, NoneQueued DEF TrapIInv
  <1>4. /\ D!Routine(c, job)
        /\ dpcs' = [d \in Processors |-> IF d = c THEN dpcs[d]
                                   ELSE dpcs[d] \cup {[do |-> job.do, slot |-> job.slot, for |-> c]}]
        /\ op' \in [Processors -> Threads]
        /\ op'[c].do = x /\ op'[c].addr = op[c].addr /\ op'[c].slot = op[c].slot
        /\ op'[c].todo = Processors \ {c}
        /\ \A d \in Processors \ {c} : op'[d] = op[d]
    BY Everywhere DEF TrapIInv
  <1>5. dpcs' = [d \in Processors |-> IF d = c THEN dpcs[d] ELSE dpcs[d] \cup {J}]
    BY <1>4
  <1>6. DOMAIN dpcs' = Processors /\ \A d \in Processors : dpcs'[d] = IF d = c THEN {} ELSE {J}
    BY <1>2, <1>5
  <1>. QED BY <1>1, <1>4, <1>6

\* The slot counts as used and every processor is to load the registers.
LEMMA AllocLoadStep ==
  ASSUME InTurn, TrapIInv, NEW c \in Processors, D!AllocLoad(c)
  PROVE  TrapIInv'
  <1>. DEFINE a == op[c].addr
              k == op[c].slot
  <1>1. /\ op[c].do = "load" /\ op[c].todo = {} /\ a \in Addrs /\ a # 0 /\ k \in Slots
        /\ Usage[k] = a /\ (\A d \in Processors \ {c} : op[d] = D!Idle)
        /\ UNCHANGED <<Usage, X4DR, int1, got>>
        /\ UsageBits' = UsageBits \cup {k} /\ \A d \in Processors : hooked[d]
    BY Thread, Alone DEF D!AllocLoad, TrapIInv, InOrder, Bits, Hooks
  <1>2. PICK job : job = [do |-> "LoadDR", slot |-> k]
    OBVIOUS
  <1>3. job.do = "LoadDR" /\ job.slot = k /\ "done" \in Stages
    BY <1>2 DEF Stages
  <1>4. D!EachProcessor(c, job, "done")
    BY <1>2 DEF D!AllocLoad
  <1>5. PICK J : J = [do |-> job.do, slot |-> job.slot, for |-> c]
    OBVIOUS
  <1>6. /\ D!Routine(c, job) /\ DOMAIN dpcs' = Processors
        /\ \A d \in Processors : dpcs'[d] = IF d = c THEN {} ELSE {J}
        /\ op' \in [Processors -> Threads] /\ op'[c].do = "done" /\ op'[c].addr = a /\ op'[c].slot = k
        /\ op'[c].todo = Processors \ {c} /\ \A d \in Processors \ {c} : op'[d] = D!Idle
    BY <1>1, <1>3, <1>4, <1>5, Broadcast
  <1>7. /\ UNCHANGED hooked /\ dr' \in [Processors -> [Slots -> Addrs \cup {0}]]
        /\ \A d \in Processors, s \in Slots : dr'[d][s] = dr[d][s] \/ dr'[d][s] = Usage[s]
    BY <1>3, <1>6, Routines, LoadedRegisters DEF TrapIInv
  <1>8. TrapTypes'
    BY <1>1, <1>6, <1>7 DEF TrapIInv, TrapTypes
  <1>9. InOrder'
    BY <1>6, IdleThread DEF InOrder
  <1>10. Bits'
    <2>1. \A s \in Slots \ {k} : s \in UsageBits <=> Usage[s] # 0
      BY <1>1, IdleThread DEF TrapIInv, Bits
    <2>. QED BY <1>1, <1>6, <2>1, IdleThread DEF Bits
  <1>11. Registers'
    <2>1. \A d \in Processors, s \in Slots : dr[d][s] # 0 => dr[d][s] = Usage[s]
      BY <1>1, IdleThread DEF TrapIInv, Registers, Leaving
    <2>. QED BY <1>1, <1>7, <2>1 DEF Registers
  <1>12. Hooks'
    BY <1>1, <1>6, <1>7, IdleThread DEF Hooks
  <1>13. Queued'
    <2>1. UsageBits' # {}
      BY <1>1
    <2>2. J = [do |-> "LoadDR", slot |-> k, for |-> c]
      BY <1>3, <1>5
    <2>. QED BY <1>6, <2>1, <2>2 DEF Queued, JobOf
  <1>14. Handled'
    BY <1>1, <1>6, IdleThread DEF TrapIInv, Handled
  <1>15. D!TrapsAnswered'
    BY <1>1 DEF TrapIInv, D!TrapsAnswered
  <1>. QED BY <1>8, <1>9, <1>10, <1>11, <1>12, <1>13, <1>14, <1>15 DEF TrapIInv

\* The table loses the address; the registers still have it.
LEMMA FreeClearStep ==
  ASSUME InTurn, TrapIInv, NEW c \in Processors, D!FreeClear(c)
  PROVE  TrapIInv'
  <1>. DEFINE a == op[c].addr
              k == op[c].slot
  <1>1. /\ op[c].do = "free" /\ op[c].todo = {} /\ a \in Addrs /\ a # 0 /\ k \in Slots
        /\ Usage[k] = a /\ (\A d \in Processors \ {c} : op[d] = D!Idle)
        /\ UNCHANGED <<UsageBits, dpcs, dr, hooked, int1, got>> /\ "unload" \in Stages
        /\ Usage' = [Usage EXCEPT ![k] = 0] /\ X4DR' = [X4DR EXCEPT ![k] = D!None]
        /\ op' = [op EXCEPT ![c].do = "unload"]
    BY Thread, Alone DEF D!FreeClear, TrapIInv, InOrder, Bits, Stages
  <1>2. /\ Usage' \in [Slots -> Addrs \cup {0}] /\ X4DR' = Usage' /\ Usage'[k] = 0
        /\ \A s \in Slots \ {k} : Usage'[s] = Usage[s]
    BY <1>1 DEF TrapIInv, TrapTypes, D!None
  <1>3. /\ op' \in [Processors -> Threads] /\ op'[c].do = "unload" /\ op'[c].addr = a /\ op'[c].slot = k
        /\ op'[c].todo = {} /\ \A d \in Processors \ {c} : op'[d] = D!Idle
    BY <1>1, GoesOn DEF TrapIInv
  <1>4. \A s \in Slots : s \in UsageBits <=> Usage[s] # 0
    BY <1>1, IdleThread DEF TrapIInv, Bits
  <1>5. \A d \in Processors : hooked[d]
    BY <1>1, <1>4, IdleThread DEF TrapIInv, Hooks
  <1>6. TrapTypes'
    BY <1>1, <1>2, <1>3 DEF TrapIInv, TrapTypes
  <1>7. InOrder'
    BY <1>3, IdleThread DEF InOrder
  <1>8. Bits'
    BY <1>1, <1>2, <1>3, <1>4, IdleThread DEF Bits
  <1>9. Registers'
    <2>1. \A d \in Processors, s \in Slots : dr[d][s] # 0 => dr[d][s] = Usage[s]
      BY <1>1, IdleThread DEF TrapIInv, Registers, Leaving
    <2>2. SUFFICES ASSUME NEW d \in Processors, NEW s \in Slots, dr[d][s] # 0
                   PROVE  dr[d][s] = Usage'[s] \/ Leaving(d, s, dr[d][s])'
      BY <1>1, <1>5 DEF Registers
    <2>3. CASE s = k
      BY <1>1, <1>3, <2>1, <2>2, <2>3 DEF Leaving
    <2>4. CASE s # k
      BY <1>2, <2>1, <2>2, <2>4
    <2>. QED BY <2>3, <2>4
  <1>10. Hooks'
    BY <1>1, <1>3, <1>5, IdleThread DEF Hooks
  <1>11. Queued'
    <2>1. \A d \in Processors : dpcs[d] = {}
      BY <1>1, NoneQueued DEF TrapIInv
    <2>. QED BY <1>1, <2>1 DEF Queued
  <1>12. Handled'
    <2>1. \A d \in Processors : int1[d] # D!NoTrap => int1[d].addr # a /\ int1[d].slot \in Slots
      BY DEF TrapIInv, TrapTypes, Handled
    <2>. QED BY <1>1, <1>2, <1>3, <2>1, IdleThread DEF TrapIInv, Handled
  <1>13. D!TrapsAnswered'
    BY <1>1 DEF TrapIInv, D!TrapsAnswered
  <1>. QED BY <1>6, <1>7, <1>8, <1>9, <1>10, <1>11, <1>12, <1>13 DEF TrapIInv

\* The slot is free, and every processor is to clear the register.
LEMMA FreeUnloadStep ==
  ASSUME InTurn, TrapIInv, NEW c \in Processors, D!FreeUnload(c)
  PROVE  TrapIInv'
  <1>. DEFINE a == op[c].addr
              k == op[c].slot
  <1>1. /\ op[c].do = "unload" /\ op[c].todo = {} /\ a \in Addrs /\ a # 0 /\ k \in Slots
        /\ Usage[k] = 0 /\ (\A d \in Processors \ {c} : op[d] = D!Idle)
        /\ UNCHANGED <<Usage, X4DR, int1, got>>
        /\ UsageBits' = UsageBits \ {k} /\ \A d \in Processors : hooked[d]
    BY Thread, Alone DEF D!FreeUnload, TrapIInv, InOrder, Bits, Hooks
  <1>2. PICK job : job = [do |-> "UnloadDR", slot |-> k]
    OBVIOUS
  <1>3. job.do = "UnloadDR" /\ job.slot = k /\ "unhook" \in Stages
    BY <1>2 DEF Stages
  <1>4. D!EachProcessor(c, job, "unhook")
    BY <1>2 DEF D!FreeUnload
  <1>5. PICK J : J = [do |-> job.do, slot |-> job.slot, for |-> c]
    OBVIOUS
  <1>6. /\ D!Routine(c, job) /\ DOMAIN dpcs' = Processors
        /\ \A d \in Processors : dpcs'[d] = IF d = c THEN {} ELSE {J}
        /\ op' \in [Processors -> Threads] /\ op'[c].do = "unhook" /\ op'[c].addr = a /\ op'[c].slot = k
        /\ op'[c].todo = Processors \ {c} /\ \A d \in Processors \ {c} : op'[d] = D!Idle
    BY <1>1, <1>3, <1>4, <1>5, Broadcast
  <1>7. /\ UNCHANGED hooked /\ dr' = [dr EXCEPT ![c] = [dr[c] EXCEPT ![k] = 0]]
    BY <1>3, <1>6, Routines DEF TrapIInv
  <1>8. /\ dr' \in [Processors -> [Slots -> Addrs \cup {0}]] /\ dr'[c][k] = 0
        /\ \A d \in Processors, s \in Slots : d # c \/ s # k => dr'[d][s] = dr[d][s]
    <2>1. PICK m \in Slots : m = k /\ dr' = [dr EXCEPT ![c] = [dr[c] EXCEPT ![m] = 0]]
      BY <1>1, <1>7
    <2>. QED BY <2>1, ClearedRegister DEF TrapIInv
  <1>9. TrapTypes'
    BY <1>1, <1>6, <1>7, <1>8 DEF TrapIInv, TrapTypes
  <1>10. InOrder'
    BY <1>6, IdleThread DEF InOrder
  <1>11. Bits'
    <2>1. \A s \in Slots \ {k} : s \in UsageBits <=> Usage[s] # 0
      BY <1>1, IdleThread DEF TrapIInv, Bits
    <2>. QED BY <1>1, <1>6, <2>1, IdleThread DEF Bits
  <1>12. Registers'
    <2>1. SUFFICES ASSUME NEW d \in Processors, NEW s \in Slots, dr'[d][s] # 0
                   PROVE  dr'[d][s] = Usage[s] \/ Leaving(d, s, dr[d][s])'
      BY <1>1, <1>7, <1>8 DEF Registers, Leaving
    <2>2. dr'[d][s] = dr[d][s] /\ (d # c \/ s # k)
      BY <1>8, <2>1
    <2>3. dr[d][s] = Usage[s] \/ (s = k /\ dr[d][s] = a)
      BY <1>1, <2>1, <2>2, IdleThread DEF TrapIInv, Registers, Leaving
    <2>4. CASE s = k /\ dr[d][s] = a
      BY <1>6, <2>2, <2>4 DEF Leaving
    <2>. QED BY <2>2, <2>3, <2>4
  <1>13. Hooks'
    BY <1>1, <1>6, <1>7, IdleThread DEF Hooks
  <1>14. Queued'
    <2>1. J = [do |-> "UnloadDR", slot |-> k, for |-> c]
      BY <1>3, <1>5
    <2>. QED BY <1>6, <2>1 DEF Queued, JobOf
  <1>15. Handled'
    BY <1>1, <1>6, IdleThread DEF TrapIInv, Handled
  <1>16. D!TrapsAnswered'
    BY <1>1 DEF TrapIInv, D!TrapsAnswered
  <1>. QED BY <1>9, <1>10, <1>11, <1>12, <1>13, <1>14, <1>15, <1>16 DEF TrapIInv

\* With no address in the table, and none on its way out, no register is on.
LEMMA AllOff ==
  ASSUME TrapIInv, NEW c \in Processors, \A d \in Processors \ {c} : op[d] = D!Idle, UsageBits = {},
         op[c].do = "done" \/ (op[c].do = "unhook" /\ op[c].todo = {})
  PROVE  \A d \in Processors, s \in Slots : dr[d][s] = 0
  <1>1. \A s \in Slots : Usage[s] = 0
    BY IdleThread DEF TrapIInv, Bits
  <1>. QED BY <1>1, IdleThread DEF TrapIInv, Registers, Leaving

\* With the last trap gone every processor gives its interrupts back.
LEMMA FreeUnhookStep ==
  ASSUME InTurn, TrapIInv, NEW c \in Processors, D!FreeUnhook(c)
  PROVE  TrapIInv'
  <1>. DEFINE a == op[c].addr
              k == op[c].slot
  <1>1. /\ op[c].do = "unhook" /\ op[c].todo = {} /\ a \in Addrs /\ a # 0 /\ k \in Slots
        /\ Usage[k] = 0 /\ (\A d \in Processors \ {c} : op[d] = D!Idle)
        /\ UNCHANGED <<Usage, X4DR, UsageBits, int1, got>>
        /\ (\A d \in Processors : hooked[d]) /\ "done" \in Stages
    BY Thread, Alone DEF D!FreeUnhook, TrapIInv, InOrder, Bits, Hooks, Stages
  <1>2. PICK J : J = [do |-> "UnhookInts", slot |-> 0, for |-> c]
    OBVIOUS
  <1>3. PICK T \in SUBSET Processors : T = IF UsageBits = {} THEN Processors \ {c} ELSE {}
    <2>1. Processors \ {c} \in SUBSET Processors
      OBVIOUS
    <2>. QED BY <2>1
  <1>4. /\ op' \in [Processors -> Threads] /\ op'[c].do = "done" /\ op'[c].addr = a /\ op'[c].slot = k
        /\ op'[c].todo = T /\ (\A d \in Processors \ {c} : op'[d] = D!Idle)
        /\ dr' = dr /\ DOMAIN dpcs' = Processors /\ hooked' \in [Processors -> BOOLEAN]
        /\ \A d \in Processors : hooked'[d] <=> UsageBits # {} \/ d \in T
        /\ \A d \in Processors : dpcs'[d] = IF d \in T THEN {J} ELSE {}
    <2>1. CASE UsageBits = {}
      <3>1. PICK job : job = [do |-> "UnhookInts", slot |-> 0]
        OBVIOUS
      <3>2. D!EachProcessor(c, job, "done")
        BY <2>1, <3>1 DEF D!FreeUnhook, D!LastFreed
      <3>3. job.do = "UnhookInts" /\ job.slot = 0
        BY <3>1
      <3>4. J = [do |-> job.do, slot |-> job.slot, for |-> c]
        BY <1>2, <3>3
      <3>5. /\ D!Routine(c, job) /\ DOMAIN dpcs' = Processors
            /\ \A d \in Processors : dpcs'[d] = IF d = c THEN {} ELSE {J}
            /\ op' \in [Processors -> Threads] /\ op'[c].do = "done" /\ op'[c].addr = a /\ op'[c].slot = k
            /\ op'[c].todo = Processors \ {c} /\ \A d \in Processors \ {c} : op'[d] = D!Idle
        BY <1>1, <3>2, <3>4, Broadcast
      <3>6. dr' = dr /\ hooked' = [hooked EXCEPT ![c] = FALSE]
        BY <3>3, <3>5, Routines DEF TrapIInv
      <3>7. hooked' \in [Processors -> BOOLEAN] /\ \A d \in Processors : hooked'[d] <=> d \in T
        BY <1>1, <1>3, <2>1, <3>6 DEF TrapIInv, TrapTypes
      <3>. QED BY <1>3, <2>1, <3>5, <3>6, <3>7
    <2>2. CASE UsageBits # {}
      <3>1. op' = [op EXCEPT ![c].do = "done"] /\ UNCHANGED <<dpcs, dr, hooked>>
        BY <2>2 DEF D!FreeUnhook, D!LastFreed
      <3>2. /\ op' \in [Processors -> Threads] /\ op'[c].do = "done" /\ op'[c].addr = a /\ op'[c].slot = k
            /\ op'[c].todo = {} /\ \A d \in Processors \ {c} : op'[d] = D!Idle
        BY <1>1, <3>1, GoesOn DEF TrapIInv
      <3>3. \A d \in Processors : dpcs[d] = {}
        BY <1>1, NoneQueued DEF TrapIInv
      <3>. QED BY <1>1, <1>3, <2>2, <3>1, <3>2, <3>3 DEF TrapIInv, TrapTypes
    <2>. QED BY <2>1, <2>2
  <1>5. TrapTypes'
    BY <1>1, <1>4 DEF TrapIInv, TrapTypes
  <1>6. InOrder'
    BY <1>3, <1>4, IdleThread DEF InOrder
  <1>7. Bits'
    <2>1. \A s \in Slots : s \in UsageBits <=> Usage[s] # 0
      BY <1>1, IdleThread DEF TrapIInv, Bits
    <2>. QED BY <1>1, <1>4, <2>1, IdleThread DEF Bits
  <1>8. Registers'
    <2>1. \A d \in Processors, s \in Slots : dr[d][s] # 0 => dr[d][s] = Usage[s]
      BY <1>1, IdleThread DEF TrapIInv, Registers, Leaving
    <2>2. UsageBits = {} => \A d \in Processors, s \in Slots : dr[d][s] = 0
      BY <1>1, AllOff
    <2>. QED BY <1>1, <1>4, <2>1, <2>2 DEF Registers
  <1>9. Hooks'
    BY <1>1, <1>4, IdleThread DEF Hooks
  <1>10. Queued'
    <2>1. \A d \in T : UsageBits = {}
      BY <1>3
    <2>. QED BY <1>1, <1>2, <1>4, <2>1 DEF Queued, JobOf
  <1>11. Handled'
    BY <1>1, <1>4, IdleThread DEF TrapIInv, Handled
  <1>12. D!TrapsAnswered'
    BY <1>1 DEF TrapIInv, D!TrapsAnswered
  <1>. QED BY <1>5, <1>6, <1>7, <1>8, <1>9, <1>10, <1>11, <1>12 DEF TrapIInv

\* KeLowerIrql: all have run what they had to.
LEMMA ReturnStep ==
  ASSUME InTurn, TrapIInv, NEW c \in Processors, D!Return(c)
  PROVE  TrapIInv'
  <1>1. /\ op[c].do = "done" /\ op[c].todo = {} /\ (\A d \in Processors \ {c} : op[d] = D!Idle)
        /\ UNCHANGED <<Usage, X4DR, UsageBits, dpcs, dr, hooked, int1, got>>
        /\ op' = [op EXCEPT ![c] = D!Idle]
    BY Alone DEF D!Return, TrapIInv
  <1>2. op' \in [Processors -> Threads] /\ \A d \in Processors : op'[d] = D!Idle
    BY <1>1 DEF TrapIInv, TrapTypes, Threads
  <1>3. \A s \in Slots : s \in UsageBits <=> Usage[s] # 0
    BY <1>1, IdleThread DEF TrapIInv, Bits
  <1>4. TrapTypes' /\ InOrder' /\ Bits'
    BY <1>1, <1>2, <1>3, IdleThread DEF TrapIInv, TrapTypes, InOrder, Bits
  <1>5. Registers'
    BY <1>1, IdleThread DEF TrapIInv, Registers, Leaving
  <1>6. Hooks'
    BY <1>1, <1>2, IdleThread DEF TrapIInv, Hooks
  <1>7. Queued'
    <2>1. \A d \in Processors : dpcs[d] = {}
      BY <1>1, NoneQueued DEF TrapIInv
    <2>. QED BY <1>1, <2>1 DEF Queued
  <1>8. Handled'
    <2>1. \A d \in Processors : int1[d] # D!NoTrap => int1[d].addr # 0
      <3>1. 0 \notin Addrs
        BY DriverAssumption DEF D!DebugTrapAssumption
      <3>. QED BY <3>1 DEF TrapIInv, TrapTypes
    <2>. QED BY <1>1, <1>2, <2>1, IdleThread DEF TrapIInv, Handled
  <1>9. D!TrapsAnswered'
    BY <1>1 DEF TrapIInv, D!TrapsAnswered
  <1>. QED BY <1>4, <1>5, <1>6, <1>7, <1>8, <1>9 DEF TrapIInv
-----------------------------------------------------------------------------
(* EachProcessorDpc *)

\* The DPC that a processor runs is the one the thread at work waits for.
LEMMA TheJob ==
  ASSUME TrapIInv, NEW c \in Processors, D!Dpc(c)
  PROVE  \E w \in Processors, job \in dpcs[c], T \in SUBSET Processors :
           /\ w # c /\ c \in op[w].todo /\ op[w].do \in {"load", "unhook", "done"}
           /\ T = op[w].todo \ {c}
           /\ job = JobOf(op[w], w, UsageBits) /\ D!Routine(c, job)
           /\ DOMAIN dpcs' = Processors /\ dpcs'[c] = {} /\ (\A d \in Processors \ {c} : dpcs'[d] = dpcs[d])
           /\ op' \in [Processors -> Threads]
           /\ op'[w].do = op[w].do /\ op'[w].addr = op[w].addr /\ op'[w].slot = op[w].slot
           /\ op'[w].todo = T /\ (\A d \in Processors \ {w} : op[d] = D!Idle /\ op'[d] = D!Idle)
  <1>1. PICK job \in dpcs[c] :
          /\ D!Routine(c, job) /\ dpcs' = [dpcs EXCEPT ![c] = @ \ {job}]
          /\ op' = [op EXCEPT ![job.for].todo = @ \ {c}]
    BY DEF D!Dpc
  <1>2. PICK w \in Processors : /\ c \in op[w].todo /\ op[w].do \in {"load", "unhook", "done"}
                                /\ job = JobOf(op[w], w, UsageBits)
    BY DEF TrapIInv, Queued
  <1>3. w # c /\ job.for = w /\ op[w].do # "idle" /\ op[w].do \in Stages
    BY <1>2 DEF TrapIInv, InOrder, JobOf, Stages
  <1>4. \A d \in Processors \ {w} : op[d] = D!Idle
    BY <1>3, Alone DEF TrapIInv
  <1>5. dpcs[c] = {job}
    <2>1. ASSUME NEW j \in dpcs[c] PROVE j = job
      <3>1. PICK v \in Processors : /\ c \in op[v].todo /\ op[v].do \in {"load", "unhook", "done"}
                                    /\ j = JobOf(op[v], v, UsageBits)
        BY DEF TrapIInv, Queued
      <3>2. v = w
        BY <1>4, <3>1, IdleThread
      <3>. QED BY <1>2, <3>1, <3>2
    <2>. QED BY <1>1, <2>1
  <1>6. DOMAIN dpcs' = Processors /\ dpcs'[c] = {} /\ \A d \in Processors \ {c} : dpcs'[d] = dpcs[d]
    BY <1>1, <1>5 DEF TrapIInv, TrapTypes
  <1>7. PICK T : T = op[w].todo \ {c}
    OBVIOUS
  <1>8. T \in SUBSET Processors
    BY <1>3, <1>7, Thread DEF TrapIInv
  <1>9. op' = [op EXCEPT ![w] = [op[w] EXCEPT !.todo = T]]
    BY <1>1, <1>3, <1>7 DEF TrapIInv, TrapTypes
  <1>10. /\ op' \in [Processors -> Threads]
         /\ op'[w].do = op[w].do /\ op'[w].addr = op[w].addr /\ op'[w].slot = op[w].slot
         /\ op'[w].todo = T
         /\ \A d \in Processors \ {w} : op'[d] = op[d]
    <2>1. PICK x \in Stages : x = op[w].do
      BY <1>3
    <2>. QED BY <1>3, <1>8, <1>9, <2>1, Goes DEF TrapIInv
  <1>. QED BY <1>1, <1>2, <1>3, <1>4, <1>6, <1>7, <1>8, <1>10

LEMMA DpcStep ==
  ASSUME InTurn, TrapIInv, NEW c \in Processors, D!Dpc(c)
  PROVE  TrapIInv'
  <1>1. PICK w \in Processors, job \in dpcs[c], T \in SUBSET Processors :
           /\ w # c /\ c \in op[w].todo /\ op[w].do \in {"load", "unhook", "done"}
           /\ T = op[w].todo \ {c}
           /\ job = JobOf(op[w], w, UsageBits) /\ D!Routine(c, job)
           /\ DOMAIN dpcs' = Processors /\ dpcs'[c] = {} /\ (\A d \in Processors \ {c} : dpcs'[d] = dpcs[d])
           /\ op' \in [Processors -> Threads]
           /\ op'[w].do = op[w].do /\ op'[w].addr = op[w].addr /\ op'[w].slot = op[w].slot
           /\ op'[w].todo = T /\ (\A d \in Processors \ {w} : op[d] = D!Idle /\ op'[d] = D!Idle)
    BY TheJob
  <1>2. UNCHANGED <<Usage, X4DR, UsageBits, int1, got>>
    BY DEF D!Dpc
  <1>3. op[w].do # "idle" /\ op[w].slot \in Slots
    BY <1>1, Thread DEF TrapIInv
  <1>4. ASSUME op[w].do = "load" PROVE TrapTypes' /\ Registers' /\ Hooks'
    <2>1. job.do = "HookInts"
      BY <1>1, <1>4 DEF JobOf
    <2>2. UNCHANGED dr /\ hooked' = [hooked EXCEPT ![c] = TRUE]
      BY <1>1, <2>1, Routines DEF TrapIInv
    <2>3. hooked' \in [Processors -> BOOLEAN] /\ hooked'[c] /\ \A d \in Processors \ {c} : hooked'[d] = hooked[d]
      BY <2>2 DEF TrapIInv, TrapTypes
    <2>4. TrapTypes' /\ Registers' /\ Hooks'
      <3>1. TrapTypes'
        BY <1>1, <1>2, <2>2, <2>3 DEF TrapIInv, TrapTypes
      <3>2. Registers'
        BY <1>1, <1>2, <1>4, <2>2, <2>3, IdleThread DEF TrapIInv, Registers, Leaving
      <3>3. Hooks'
        BY <1>1, <1>2, <1>4, <2>3, IdleThread DEF TrapIInv, Hooks
      <3>. QED BY <3>1, <3>2, <3>3
    <2>. QED BY <2>4
  <1>5. ASSUME op[w].do = "unhook" PROVE TrapTypes' /\ Registers' /\ Hooks'
    <2>1. job.do = "UnloadDR" /\ job.slot = op[w].slot
      BY <1>1, <1>5 DEF JobOf
    <2>2. PICK m \in Slots : m = op[w].slot
      BY <1>3
    <2>3. UNCHANGED hooked /\ dr' = [dr EXCEPT ![c] = [dr[c] EXCEPT ![m] = 0]]
      BY <1>1, <2>1, <2>2, Routines DEF TrapIInv
    <2>4. /\ dr' \in [Processors -> [Slots -> Addrs \cup {0}]] /\ dr'[c][m] = 0
          /\ \A d \in Processors, s \in Slots : d # c \/ s # m => dr'[d][s] = dr[d][s]
      BY <2>3, ClearedRegister DEF TrapIInv
    <2>5. TrapTypes'
      BY <1>1, <1>2, <2>3, <2>4 DEF TrapIInv, TrapTypes
    <2>6. Registers'
      <3>1. SUFFICES ASSUME NEW d \in Processors, NEW s \in Slots, dr'[d][s] # 0
                     PROVE  hooked[d] /\ (dr'[d][s] = Usage[s] \/ Leaving(d, s, dr[d][s])')
        BY <1>2, <2>3, <2>4 DEF Registers, Leaving
      <3>2. dr'[d][s] = dr[d][s] /\ (d # c \/ s # m)
        BY <2>4, <3>1
      <3>3. /\ hooked[d]
            /\ dr[d][s] = Usage[s] \/ (s = m /\ dr[d][s] = op[w].addr /\ d \in op[w].todo)
        BY <1>1, <1>5, <2>2, <3>1, <3>2, IdleThread DEF TrapIInv, Registers, Leaving
      <3>4. CASE s = m /\ dr[d][s] = op[w].addr /\ d \in op[w].todo
        BY <1>1, <1>5, <2>2, <3>2, <3>3, <3>4 DEF Leaving
      <3>. QED BY <3>2, <3>3, <3>4
    <2>7. Hooks'
      BY <1>1, <1>2, <1>5, <2>3, IdleThread DEF TrapIInv, Hooks
    <2>. QED BY <2>5, <2>6, <2>7
  <1>6. ASSUME op[w].do = "done" /\ UsageBits = {} PROVE TrapTypes' /\ Registers' /\ Hooks'
    <2>1. job.do = "UnhookInts"
      BY <1>1, <1>6 DEF JobOf
    <2>2. UNCHANGED dr /\ hooked' = [hooked EXCEPT ![c] = FALSE]
      BY <1>1, <2>1, Routines DEF TrapIInv
    <2>3. hooked' \in [Processors -> BOOLEAN] /\ ~hooked'[c] /\ \A d \in Processors \ {c} : hooked'[d] = hooked[d]
      BY <2>2 DEF TrapIInv, TrapTypes
    <2>4. TrapTypes'
      BY <1>1, <1>2, <2>2, <2>3 DEF TrapIInv, TrapTypes
    <2>5. Registers'
      <3>1. \A d \in Processors, s \in Slots : dr[d][s] = 0
        BY <1>1, <1>6, AllOff
      <3>. QED BY <2>2, <3>1 DEF Registers
    <2>6. Hooks'
      BY <1>1, <1>2, <1>6, <2>3, IdleThread DEF TrapIInv, Hooks
    <2>. QED BY <2>4, <2>5, <2>6
  <1>7. ASSUME op[w].do = "done" /\ UsageBits # {} PROVE TrapTypes' /\ Registers' /\ Hooks'
    <2>1. job.do = "LoadDR"
      BY <1>1, <1>7 DEF JobOf
    <2>2. UNCHANGED hooked /\ dr' = [dr EXCEPT ![c] = D!Loaded(c)]
      BY <1>1, <2>1, Routines DEF TrapIInv
    <2>3. /\ dr' \in [Processors -> [Slots -> Addrs \cup {0}]]
          /\ \A d \in Processors, s \in Slots : dr'[d][s] = dr[d][s] \/ dr'[d][s] = Usage[s]
      BY <2>2, LoadedRegisters DEF TrapIInv
    <2>4. TrapTypes'
      BY <1>1, <1>2, <2>2, <2>3 DEF TrapIInv, TrapTypes
    <2>5. \A d \in Processors : hooked[d]
      BY <1>7 DEF TrapIInv, Hooks
    <2>6. Registers'
      <3>1. \A d \in Processors, s \in Slots : dr[d][s] # 0 => dr[d][s] = Usage[s]
        BY <1>1, <1>7, IdleThread DEF TrapIInv, Registers, Leaving
      <3>. QED BY <1>2, <2>2, <2>3, <2>5, <3>1 DEF Registers
    <2>7. Hooks'
      BY <1>1, <1>2, <1>7, <2>2, <2>5, IdleThread DEF Hooks
    <2>. QED BY <2>4, <2>6, <2>7
  <1>8. TrapTypes' /\ Registers' /\ Hooks'
    BY <1>1, <1>4, <1>5, <1>6, <1>7
  <1>9. InOrder'
    BY <1>1, IdleThread DEF TrapIInv, InOrder
  <1>10. Bits'
    BY <1>1, <1>2, IdleThread DEF TrapIInv, Bits
  <1>11. Queued'
    <2>1. SUFFICES ASSUME NEW d \in Processors, d # c, NEW j \in dpcs[d]
                   PROVE  d \in T /\ j = JobOf(op'[w], w, UsageBits)
      BY <1>1, <1>2 DEF Queued
    <2>2. d \in op[w].todo /\ j = JobOf(op[w], w, UsageBits)
      BY <1>1, <2>1, IdleThread DEF TrapIInv, Queued
    <2>. QED BY <1>1, <2>1, <2>2 DEF JobOf
  <1>12. Handled'
    <2>1. \A d \in Processors : op'[d].addr = op[d].addr
      BY <1>1
    <2>. QED BY <1>2, <2>1 DEF TrapIInv, Handled
  <1>13. D!TrapsAnswered'
    BY <1>2 DEF TrapIInv, D!TrapsAnswered
  <1>. QED BY <1>8, <1>9, <1>10, <1>11, <1>12, <1>13 DEF TrapIInv
-----------------------------------------------------------------------------
(* Accesses, and registers that are taken away and loaded again *)

\* A register that an access hits is the driver's, and nobody is about to change it.
LEMMA Hits ==
  ASSUME TrapIInv, NEW c \in Processors, NEW a \in Addrs, ~D!BeingChanged(a), NEW s \in Slots, dr[c][s] = a
  PROVE  hooked[c] /\ Usage[s] = a /\ s \in UsageBits
  <1>1. a # 0
    BY DriverAssumption DEF D!DebugTrapAssumption
  <1>2. \A d \in Processors : op[d].addr # a
    BY DEF D!BeingChanged
  <1>3. hooked[c] /\ Usage[s] = a
    BY <1>1, <1>2 DEF TrapIInv, Registers, Leaving
  <1>4. s \in UsageBits
    BY <1>1, <1>2, <1>3 DEF TrapIInv, Bits
  <1>. QED BY <1>3, <1>4

LEMMA TrappedStep ==
  ASSUME InTurn, TrapIInv, NEW c \in Processors, D!Access(c)
  PROVE  TrapIInv'
  <1>1. PICK a \in Addrs :
          /\ ~D!BeingChanged(a)
          /\ LET hit == {s \in Slots : dr[c][s] = a}
             IN  IF hit = {} THEN got' = [got EXCEPT ![c] = "hardware"] /\ UNCHANGED int1
                 ELSE IF ~hooked[c] \/ UsageBits \intersect hit = {}
                      THEN got' = [got EXCEPT ![c] = "stray"] /\ UNCHANGED int1
                 ELSE /\ int1' = [int1 EXCEPT ![c] = [addr |-> a, slot |-> D!Min(UsageBits \intersect hit)]]
                      /\ got' = [got EXCEPT ![c] = "trapped"]
    BY DEF D!Access, InTurn
  <1>2. UNCHANGED <<Usage, X4DR, UsageBits, op, dpcs, dr, hooked>>
    BY DEF D!Access
  <1>3. PICK hit : hit = {s \in Slots : dr[c][s] = a}
    OBVIOUS
  <1>4. \A s \in hit : hooked[c] /\ Usage[s] = a /\ s \in UsageBits
    BY <1>1, <1>3, Hits
  <1>5. \/ got' = [got EXCEPT ![c] = "hardware"] /\ UNCHANGED int1
        \/ /\ UsageBits \cap hit # {}
           /\ int1' = [int1 EXCEPT ![c] = [addr |-> a, slot |-> D!Min(UsageBits \cap hit)]]
           /\ got' = [got EXCEPT ![c] = "trapped"]
    BY <1>1, <1>3, <1>4
  <1>6. D!TrapsAnswered' /\ DOMAIN got' = Processors
    BY <1>5 DEF TrapIInv, TrapTypes, D!TrapsAnswered
  <1>7. ASSUME UsageBits \cap hit # {}
        PROVE  D!Min(UsageBits \cap hit) \in Slots /\ Usage[D!Min(UsageBits \cap hit)] = a
    <2>1. UsageBits \cap hit \subseteq 0 .. 3
      BY <1>3, DriverAssumption DEF D!DebugTrapAssumption
    <2>2. D!Min(UsageBits \cap hit) \in hit
      BY <1>7, <2>1, Least
    <2>. QED BY <1>3, <1>4, <2>2
  <1>8. \/ UNCHANGED int1
        \/ \E s \in Slots : Usage[s] = a /\ int1' = [int1 EXCEPT ![c] = [addr |-> a, slot |-> s]]
    BY <1>5, <1>7
  <1>9. TrapTypes' /\ Handled'
    <2>1. CASE UNCHANGED int1
      BY <1>2, <1>6, <2>1 DEF TrapIInv, TrapTypes, Handled
    <2>2. ASSUME NEW s \in Slots, Usage[s] = a, int1' = [int1 EXCEPT ![c] = [addr |-> a, slot |-> s]]
          PROVE  TrapTypes' /\ Handled'
      <3>1. PICK i : i = [addr |-> a, slot |-> s]
        OBVIOUS
      <3>2. i.addr = a /\ i.slot = s /\ i \in [addr : Addrs, slot : Slots]
        BY <3>1
      <3>3. int1'[c] = i /\ (\A d \in Processors \ {c} : int1'[d] = int1[d])
            /\ int1' \in [Processors -> {D!NoTrap} \cup [addr : Addrs, slot : Slots]]
        BY <2>2, <3>1, <3>2 DEF TrapIInv, TrapTypes
      <3>4. \A d \in Processors : op[d].addr # a
        BY <1>1 DEF D!BeingChanged
      <3>5. TrapTypes'
        BY <1>2, <1>6, <3>3 DEF TrapIInv, TrapTypes
      <3>6. Handled'
        BY <1>2, <2>2, <3>2, <3>3, <3>4 DEF TrapIInv, Handled
      <3>. QED BY <3>5, <3>6
    <2>. QED BY <1>8, <2>1, <2>2
  <1>10. InOrder' /\ Bits' /\ Registers' /\ Hooks' /\ Queued'
    BY <1>2 DEF TrapIInv, InOrder, Bits, Registers, Leaving, Hooks, Queued, JobOf
  <1>. QED BY <1>6, <1>9, <1>10 DEF TrapIInv

\* The handler finds the device.
LEMMA NewInt1Step ==
  ASSUME InTurn, TrapIInv, NEW c \in Processors, D!NewInt1(c)
  PROVE  TrapIInv'
  <1>1. /\ int1[c] # D!NoTrap /\ int1' = [int1 EXCEPT ![c] = D!NoTrap]
        /\ UNCHANGED <<Usage, X4DR, UsageBits, op, dpcs, dr, hooked>>
    BY DEF D!NewInt1
  <1>2. X4DR[int1[c].slot] = int1[c].addr
    BY <1>1 DEF TrapIInv, TrapTypes, Handled
  <1>3. got' = [got EXCEPT ![c] = "device"]
    BY <1>2 DEF D!NewInt1
  <1>4. int1'[c] = D!NoTrap /\ (\A d \in Processors \ {c} : int1'[d] = int1[d])
        /\ int1' \in [Processors -> {D!NoTrap} \cup [addr : Addrs, slot : Slots]]
    BY <1>1 DEF TrapIInv, TrapTypes
  <1>5. TrapTypes' /\ Handled' /\ D!TrapsAnswered'
    BY <1>1, <1>3, <1>4 DEF TrapIInv, TrapTypes, Handled, D!TrapsAnswered
  <1>6. InOrder' /\ Bits' /\ Registers' /\ Hooks' /\ Queued'
    BY <1>1 DEF TrapIInv, InOrder, Bits, Registers, Leaving, Hooks, Queued, JobOf
  <1>. QED BY <1>5, <1>6 DEF TrapIInv

\* Loading again, by a system call or the timer, brings back no register that has been freed;
\* the timer runs only where the interrupts are hooked.
LEMMA RepairStep ==
  ASSUME InTurn, TrapIInv, NEW c \in Processors, D!Steal(c) \/ D!SystemCall(c) \/ D!Timer(c)
  PROVE  TrapIInv'
  <1>1. UNCHANGED <<Usage, X4DR, UsageBits, op, dpcs, hooked, int1, got>>
    BY DEF D!Steal, D!SystemCall, D!Timer
  <1>2. /\ dr' \in [Processors -> [Slots -> Addrs \cup {0}]]
        /\ \A d \in Processors, s \in Slots :
             dr'[d][s] = 0 \/ dr'[d][s] = dr[d][s] \/ (hooked[d] /\ dr'[d][s] = Usage[s])
    <2>1. CASE D!Steal(c)
      <3>1. dr' = [dr EXCEPT ![c] = [s \in Slots |-> 0]]
        BY <2>1 DEF D!Steal
      <3>. QED BY <3>1 DEF TrapIInv, TrapTypes
    <2>2. ASSUME hooked[c] \/ \A d \in Processors, s \in Slots : Usage[s] = 0,
                 dr' = [dr EXCEPT ![c] = D!Loaded(c)]
          PROVE  /\ dr' \in [Processors -> [Slots -> Addrs \cup {0}]]
                 /\ \A d \in Processors, s \in Slots :
                      dr'[d][s] = 0 \/ dr'[d][s] = dr[d][s] \/ (hooked[d] /\ dr'[d][s] = Usage[s])
      BY <2>2, LoadedRegisters DEF TrapIInv
    <2>3. CASE D!SystemCall(c)
      BY <2>2, <2>3 DEF D!SystemCall
    <2>4. CASE D!Timer(c)
      <3>1. D!Armed /\ dr' = [dr EXCEPT ![c] = D!Loaded(c)]
        BY <2>4 DEF D!Timer
      <3>2. CASE UsageBits # {}
        <4>1. CASE \A d \in Processors : op[d] = D!Idle
          BY <2>2, <3>1, <3>2, <4>1, IdleThread DEF TrapIInv, Hooks
        <4>2. CASE ~(\A d \in Processors : op[d] = D!Idle)
          <5>1. PICK w \in Processors : op[w] # D!Idle
            BY <4>2
          <5>2. op[w].do # "idle" /\ op[w].do \in Stages
            BY <5>1, AtRest, Thread DEF TrapIInv
          <5>3. \A d \in Processors \ {w} : op[d] = D!Idle
            BY <5>2, Alone DEF TrapIInv
          <5>4. CASE op[w].do \in {"alloc", "free"}
            <6>1. \A d \in Processors : op[d].do \in {"idle", "alloc", "free"}
              BY <5>3, <5>4, IdleThread
            <6>. QED BY <2>2, <3>1, <3>2, <6>1 DEF TrapIInv, Hooks
          <5>5. CASE op[w].do \in {"unload", "unhook", "done"}
            BY <2>2, <3>1, <3>2, <5>5 DEF TrapIInv, Hooks
          <5>6. CASE op[w].do = "load"
            BY <2>2, <3>1, <3>2, <5>6 DEF TrapIInv, Hooks
          <5>. QED BY <5>2, <5>4, <5>5, <5>6 DEF Stages
        <4>. QED BY <4>1, <4>2
      <3>3. CASE \E d \in Processors : op[d].do \in {"load", "unhook"} /\ op[d].todo = {}
        <4>1. hooked[c]
          BY <3>3 DEF TrapIInv, Hooks
        <4>. QED BY <2>2, <3>1, <4>1
      <3>. QED BY <3>1, <3>2, <3>3 DEF D!Armed
    <2>. QED BY <2>1, <2>3, <2>4
  <1>3. TrapTypes'
    BY <1>1, <1>2 DEF TrapIInv, TrapTypes
  <1>4. Registers'
    <2>1. SUFFICES ASSUME NEW d \in Processors, NEW s \in Slots, dr'[d][s] # 0
                   PROVE  hooked[d] /\ (dr'[d][s] = Usage[s] \/ Leaving(d, s, dr'[d][s]))
      BY <1>1 DEF Registers, Leaving
    <2>. QED BY <1>2, <2>1 DEF TrapIInv, Registers
  <1>5. InOrder' /\ Bits' /\ Hooks' /\ Queued' /\ Handled' /\ D!TrapsAnswered'
    BY <1>1 DEF TrapIInv, InOrder, Bits, Hooks, Queued, JobOf, Handled, D!TrapsAnswered
  <1>. QED BY <1>3, <1>4, <1>5 DEF TrapIInv
-----------------------------------------------------------------------------
(* The invariant *)

LEMMA InitTraps ==
  ASSUME D!Init
  PROVE  TrapIInv
  <1>1. TrapTypes
    <2>1. op \in [Processors -> Threads] /\ int1 \in [Processors -> {D!NoTrap} \cup [addr : Addrs, slot : Slots]]
      BY DEF D!Init, Threads
    <2>. QED BY <2>1 DEF D!Init, TrapTypes, D!None
  <1>2. /\ \A c \in Processors : op[c] = D!Idle /\ dpcs[c] = {} /\ int1[c] = D!NoTrap /\ got[c] = "none"
        /\ \A c \in Processors, s \in Slots : dr[c][s] = 0
        /\ UsageBits = {} /\ (\A s \in Slots : Usage[s] = 0) /\ \A c \in Processors : ~hooked[c]
    BY DEF D!Init
  <1>3. InOrder /\ Bits /\ Registers /\ Hooks /\ Queued /\ Handled /\ D!TrapsAnswered
    BY <1>2, IdleThread DEF InOrder, Bits, Registers, Hooks, Queued, Handled, D!TrapsAnswered
  <1>. QED BY <1>1, <1>3 DEF TrapIInv

LEMMA NextTraps ==
  ASSUME InTurn, TrapIInv, [D!Next]_(D!vars)
  PROVE  TrapIInv'
  <1>1. CASE UNCHANGED D!vars
    <2>1. UNCHANGED <<Usage, X4DR, UsageBits, op, dpcs, dr, hooked, int1, got>>
      BY <1>1 DEF D!vars
    <2>2. TrapTypes'
      BY <2>1 DEF TrapIInv, TrapTypes
    <2>3. InOrder' /\ Bits'
      BY <2>1 DEF TrapIInv, InOrder, Bits
    <2>4. Registers'
      BY <2>1 DEF TrapIInv, Registers, Leaving
    <2>5. Hooks'
      BY <2>1 DEF TrapIInv, Hooks
    <2>6. Queued'
      BY <2>1 DEF TrapIInv, Queued, JobOf
    <2>7. Handled' /\ D!TrapsAnswered'
      BY <2>1 DEF TrapIInv, Handled, D!TrapsAnswered
    <2>. QED BY <2>2, <2>3, <2>4, <2>5, <2>6, <2>7 DEF TrapIInv
  <1>2. CASE D!Next
    BY <1>2, BeginStep, AllocStoreStep, AllocLoadStep, FreeClearStep, FreeUnloadStep, FreeUnhookStep,
       ReturnStep, DpcStep, TrappedStep, NewInt1Step, RepairStep DEF D!Next, D!Alloc, D!Free
  <1>. QED BY <1>1, <1>2

\* The registers, hooks and DPCs of all processors agree with the driver's table in every
\* reachable state, but for those that the thread at work still waits for.
THEOREM TrapInvariant == ASSUME InTurn PROVE D!Spec => []TrapIInv
  <1>. QED BY InitTraps, NextTraps, PTL DEF D!Spec

\* INT 1 of a register of the driver's finds the device of the address, on any processor,
\* and when the last trap is freed no processor keeps a register or a hook: neither late
\* DPCs nor system calls, the timer or thefts of registers bring one back.
THEOREM TrapsAlwaysSound == ASSUME InTurn PROVE D!Spec => []TrapsSound
  <1>1. TrapIInv => TrapsSound
    <2>1. SUFFICES ASSUME TrapIInv, UsageBits = {}, \A c \in Processors : op[c] = D!Idle
                   PROVE  \A c \in Processors : ~hooked[c] /\ \A s \in Slots : dr[c][s] = 0
      BY DEF TrapsSound, D!TrapsSound, D!HooksFollowRegisters, TrapIInv, Registers
    <2>2. \A c \in Processors : ~hooked[c]
      BY <2>1, IdleThread DEF TrapIInv, Hooks
    <2>. QED BY <2>1, <2>2 DEF TrapIInv, Registers
  <1>. QED BY <1>1, TrapInvariant, PTL

\* Every variable of the debug registers keeps its type.
THEOREM RegistersTyped == ASSUME InTurn PROVE D!Spec => []D!TypeOK
  <1>1. TrapIInv => D!TypeOK
    BY DEF TrapIInv, TrapTypes, D!TypeOK, D!None
  <1>. QED BY <1>1, TrapInvariant, PTL
-----------------------------------------------------------------------------
(* The parts together *)

LEMMA DriverParts ==
  [MCNext]_<<part, vars, patch, access, traps>> =>
    [Next]_vars /\ [C!Next]_(C!vars) /\ [P!Next]_(P!vars) /\ [D!Next]_(D!vars)
  <1>1. patch' = patch => UNCHANGED C!vars
    BY DEF patch, C!vars
  <1>2. access' = access => UNCHANGED P!vars
    BY DEF access, P!vars
  <1>3. traps' = traps => UNCHANGED D!vars
    BY DEF traps, D!vars
  <1>. QED BY <1>1, <1>2, <1>3 DEF MCNext

\* In the composition that is model-checked the jobs, the patching, the accesses and the
\* debug registers are kept in order as said above.
THEOREM DriverKept ==
  ASSUME Refusal = "untouched", Quiet, Unambiguous, InTurn
  PROVE  MCSpec => [](FreedOnceAtEnd /\ PatchedWhole /\ AccessAsMeant /\ TrapsSound)
  <1>1. MCInit => Init /\ C!Init /\ P!Init /\ D!Init
    BY DEF MCInit
  <1>2. MCSpec => Spec
    BY <1>1, DriverParts, PTL DEF MCSpec, Spec
  <1>3. MCSpec => C!Spec
    BY <1>1, DriverParts, PTL DEF MCSpec, C!Spec
  <1>4. MCSpec => P!Spec
    BY <1>1, DriverParts, PTL DEF MCSpec, P!Spec
  <1>5. MCSpec => D!Spec
    BY <1>1, DriverParts, PTL DEF MCSpec, D!Spec
  <1>. QED BY <1>2, <1>3, <1>4, <1>5, FreedOnce, PatchedInOrder, AccessesAsMeant,
           TrapsAlwaysSound, PTL
=============================================================================
