------------------------------ MODULE JobLife ------------------------------
(***************************************************************************)
(* What OutIn promises to those who call it: a call starts one or two USB  *)
(* transfers at once, and when the last of them has ended its caller gets  *)
(* one answer, a failure if any transfer ended badly.  PortIO is written   *)
(* in these terms; OutIn, with its counter and its allocations, implements *)
(* them.                                                                   *)
(***************************************************************************)
CONSTANT Jobs

Transfers == {"w", "r"}  \* bulk OUT, bulk IN

VARIABLES
  out,    \* out[j]: transfers of job j that have not ended
  good,   \* good[j]: none of the transfers of j has failed so far
  answer  \* answer[j]: what the last caller of j was told

vars == <<out, good, answer>>

Init ==
  /\ out = [j \in Jobs |-> {}]
  /\ good = [j \in Jobs |-> TRUE]
  /\ answer = [j \in Jobs |-> "none"]

Start(j) ==
  /\ out[j] = {}
  /\ \E d \in (SUBSET Transfers) \ {{}} : out' = [out EXCEPT ![j] = d]
  /\ answer' = [answer EXCEPT ![j] = "none"]
  /\ UNCHANGED good

\* A transfer ends that is not the last one.
End(j, d, ok) ==
  /\ d \in out[j] /\ out[j] # {d}
  /\ out' = [out EXCEPT ![j] = @ \ {d}]
  /\ good' = [good EXCEPT ![j] = @ /\ ok]
  /\ UNCHANGED answer

LastEnd(j, d, ok) ==
  /\ out[j] = {d}
  /\ out' = [out EXCEPT ![j] = {}]
  /\ good' = [good EXCEPT ![j] = TRUE]
  /\ answer' = [answer EXCEPT ![j] = IF good[j] /\ ok THEN "success" ELSE "failure"]

Next == \E j \in Jobs :
  \/ Start(j)
  \/ \E d \in Transfers, ok \in BOOLEAN : End(j, d, ok) \/ LastEnd(j, d, ok)

Spec == Init /\ [][Next]_vars
============================================================================
