----------------------------- MODULE MCLptQueue -----------------------------
(* Programs on the host that share no state, one per behaviour: one with a queue   *)
(* of inpout32.dll, two that use PortTalk.dll, and, with the device's registers,   *)
(* the property sheet's page Monitor, and its short-circuit test after commands of *)
(* any program.                                                                    *)
EXTENDS LptQueue

CONSTANTS Parts,  \* the parts that a run is about
          Users, Addresses, Shared, TransfersFail, MaxUses,
          Data, Status, Control, Modes, Features, Looks, NoCycle, LatchAtEnd, Careful, MaxOps,
          Others, Trusting,
          ControlBits, PortModes, PortFeatures, MaxCommands, NoTest, MaxBefore

VARIABLES part, adapters, hAccess, reg, wanted, replies, reading, answer, should, uses,
          d, raw, epp, wait, wrong, ops, ext, rd, wr, valid, combo, typed, armed, active, shown,
          stale, settled,
          regs, past, cycle, high, failed, commands, test, fault, before

T == INSTANCE PortTalk WITH Fails <- TransfersFail
M == INSTANCE Monitor WITH lost <- wrong
S == INSTANCE SelfTest WITH Control <- ControlBits, Modes <- PortModes,
       Features <- PortFeatures, MaxOps <- MaxCommands, d <- regs, raw <- past, epp <- cycle,
       wait <- high, lost <- failed, ops <- commands
ASSUME ProgramsAssumption ==
  T!PortTalkAssumption /\ M!PortLinesAssumption /\ S!PortLinesAssumption

talk    == <<adapters, hAccess, reg, wanted, replies, reading, answer, should, uses>>
monitor == <<d, raw, epp, wait, wrong, ops, ext, rd, wr, valid, combo, typed, armed, active, shown,
             stale, settled>>
lines   == <<regs, past, cycle, high, failed, commands, test, fault, before>>

\* The data register, /STB and the direction bit, and ECR; the reads a program makes.
MCOuts == {<<0, 1>>, <<0, 2>>, <<2, 32>>, <<2, 4>>, <<10, 1>>}
MCIns == {0, 1, 2, 10}
\* What RedirOut and RedirIn send, reads only, OUTs cut in the middle with reads after them,
\* and a bit of ECR.
MCBatches == {<<0, 1>>, <<0, 2>>, <<2, 4>>, <<2, 32>>, <<16>>, <<17>>, <<18>>,
              <<17, 18, 16, 17>>, <<10, 1, 10, 16, 26, 17>>, <<33, 160, 26>>}
\* A batch that changes a mirrored register together with others, or only a bit of it.
MixedBatches == {<<18>>, <<2, 4>>, <<0, 1, 2, 32>>}
BitBatches == {<<18>>, <<2, 4>>, <<33, 37>>}

\* Feature: DirectIO or not; and with OpenData (0) and OpenControl (2) in every way.
TwoFeatures == {{}, {6}}
AllFeatures == SUBSET {0, 2, 6}

\* A part that is not looked at stays as it begins.
MCInit ==
  /\ part \in Parts
  /\ part # "porttalk" => adapters = {}
  /\ part # "queue" => kind = "pp"
  /\ T!Init /\ Init /\ M!MonInit /\ S!TestInit
  /\ part # "monitor" => d.feature = {} /\ d.mode = 0 /\ ext.D = {}
  /\ part # "lines" => regs.feature = {} /\ regs.mode = 0

MCNext ==
  \/ part = "queue"    /\ Next       /\ UNCHANGED <<part, talk, monitor, lines>>
  \/ part = "porttalk" /\ T!Next     /\ UNCHANGED <<part, vars, monitor, lines>>
  \/ part = "monitor"  /\ M!MonNext  /\ UNCHANGED <<part, vars, talk, lines>>
  \/ part = "lines"    /\ S!TestNext /\ UNCHANGED <<part, vars, talk, monitor>>

MCSpec == MCInit /\ [][MCNext]_<<part, vars, talk, monitor, lines>>

(* Whatever a program reads, from a queue (LptQueue!ReadsTrue) or with inport             *)
(* (PortTalk!CallsServed), is what the adapter showed it.                                 *)
AnswersTrue == ReadsTrue /\ T!CallsServed

\* Of the page Monitor: its mirror is what was written, its circles are the levels
\* (mon.cpp:573, 592).
PageIsTrue == M!MirrorTrue /\ M!ShownIsTrue

\* PortLines' promises, and SelfTest's.
PromisesKept == S!PromisesKept
OutputsSafe == part = "lines" => S!OutputsSafe
TimeoutTells == S!TimeoutTells
SelfTestTrue == S!SelfTestTrue
=============================================================================
