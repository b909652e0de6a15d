------------------------------ MODULE SelfTest ------------------------------
(***************************************************************************)
(* The property sheet's short-circuit test (dll/prop.cpp, RunSelfTest and  *)
(* Check) and the device it tests.  The test saves the eight registers,    *)
(* drives every line alone high and alone low and compares what the pins   *)
(* read, looks at the pull-ups, and writes the registers back.  Two lines, *)
(* or a line and ground, may be shorted, and a pull-up may be missing.     *)
(* A step is one Check, or one request with several commands.              *)
(***************************************************************************)
EXTENDS PortLines

CONSTANTS
  NoTest,     \* the test has not begun
  MaxBefore   \* bound: commands before the test

VARIABLES
  test,    \* NoTest, or the test: where it is, fail and regsave
  fault,   \* what is wrong at the plug
  before   \* ghost: the device before the test

testVars == <<test, fault, before>>

Lines == ({"D"} \X Data) \cup ({"S"} \X Status) \cup ({"C"} \X Control)
Ground == <<"ground", 0>>

\* Shorted lines (none or two), a line without pull-up (none or one), and whether a
\* high output wins against a low one.
NoFault == [short |-> {}, open |-> {}, highWins |-> FALSE]
Shorted == {{a, b} : a \in Lines, b \in Lines \cup {Ground}} \ {{a} : a \in Lines}
Shorts == [short : {{}} \cup Shorted, open : {{}}, highWins : BOOLEAN]
Opens == [short : {{}}, open : {{l} : l \in Lines}, highWins : {FALSE}]
Faults == Shorts \cup Opens
-----------------------------------------------------------------------------
(* Levels *)

IsOutput(r, l) ==
  CASE l[1] = "D" -> l[2] \in r.ddrD [] l[1] = "S" -> l[2] \in r.ddrC [] l[1] = "C" -> l[2] \in r.ddrB
PortBit(r, l) ==
  CASE l[1] = "D" -> l[2] \in r.portD [] l[1] = "S" -> l[2] \in r.portC [] l[1] = "C" -> l[2] \in r.portB

Node(l, f) == IF l \in f.short THEN f.short ELSE {l}
IsHigh(r, l, f) ==
  LET pins == Node(l, f) \ {Ground}
      high == \E k \in pins : IsOutput(r, k) /\ PortBit(r, k)
      low  == \E k \in pins : IsOutput(r, k) /\ ~PortBit(r, k)
      pulled == \E k \in pins : ~IsOutput(r, k) /\ PortBit(r, k) /\ k \notin f.open IN
  /\ Ground \notin Node(l, f)
  /\ \/ high /\ (low => f.highWins)
     \/ ~high /\ ~low /\ pulled

Reads(r, f) == [D |-> {i \in Data : IsHigh(r, <<"D", i>>, f)},
                S |-> {i \in Status : IsHigh(r, <<"S", i>>, f)},
                C |-> {i \in Control : IsHigh(r, <<"C", i>>, f)}]
-----------------------------------------------------------------------------
(* Check *)

\* The three OUTs, for the levels wanted at the plug.
OutBundle(r, D, S, C) ==
  Out2(Out1(Out0(r, D), Xor(S, {7}) \cup {0, 1, 2}), Xor(C, InvControl))

\* What the three INs show otherwise, in one byte.
Differs(r, D, S, C) ==
  LET p == Reads(r, fault) IN
  Xor(D, p.D) \cup (Xor(S, Xor(In1(r, p), {7})) \cap Status)
    \cup (Xor(C, Xor(In2Of(r, p.C), InvControl)) \cap Control)

\* Lines 6 and 7 that cannot be outputs (old boards) are expected to be high.
Wanted(r, S) == IF {6, 7} \cap Status \subseteq r.ddrC THEN S ELSE S \cup ({6, 7} \cap Status)

\* The patterns: each line alone high, then alone low, data lines first.
Number(l) == l[2] + CASE l[1] = "D" -> 0 [] l[1] = "S" -> 8 [] l[1] = "C" -> 16
FirstOf(S) == CHOOSE l \in S : \A k \in S : Number(l) <= Number(k)
Behind(l) == {k \in Lines : Number(k) > Number(l)}
Pattern(l, high) ==
  [D |-> {i \in Data : (l = <<"D", i>>) = high},
   S |-> {i \in Status : (l = <<"S", i>>) = high},
   C |-> {i \in Control : (l = <<"C", i>>) = high}]
-----------------------------------------------------------------------------
(* RunSelfTest *)

At(n) == test # NoTest /\ test.at = n

TestInit == Init /\ test = NoTest /\ fault = NoFault /\ before = d

\* savecmd
Saved(r, f) ==
  LET p == Reads(r, f) IN
  [data |-> p.D, status |-> In1(r, p), control |-> In2Of(r, p.C),
   mode |-> r.mode, dirD |-> r.ddrD, dirC |-> r.ddrC, dirB |-> r.ddrB, feature |-> r.feature]

\* RegSet: no features, SPP mode, status lines outputs.
RegSet(r) == Out405(Out402(Out407(r, {}), 0), Status)

\* The test as it begins, with the registers it saved.
Begun(saved) ==
  [at |-> "patterns", line |-> FirstOf(Lines), high |-> TRUE,
   fail |-> (Status \cap {3, 4, 5}) \ RegSet(d).ddrC, saved |-> saved]

\* Fault: what is saved is what RegSet has set.
BeginSavesLate(f) == d' = RegSet(d) /\ test' = Begun(Saved(RegSet(d), f))

Begin(f) == d' = RegSet(d) /\ test' = Begun(Saved(d, f))

\* The test begins while nobody uses the back door (Careful).
Start(f) ==
  /\ test = NoTest /\ epp = NoCycle /\ ops <= MaxBefore
  /\ Careful => raw = {}
  /\ fault' = f /\ before' = d
  /\ Begin(f)
  /\ raw' = {"byte", "dir", "control"}
  /\ UNCHANGED <<epp, wait, lost, ops>>

\* Fault: only the last Check counts.
LastCheck(r, D, S, C) == Differs(r, D, S, C)

CheckOut(r, D, S, C) == test.fail \cup Differs(r, D, S, C)

Patterned ==
  /\ At("patterns")
  /\ LET w == Pattern(test.line, test.high)
         r == OutBundle(d, w.D, Wanted(d, w.S), w.C)
         last == Behind(test.line) = {} IN
       /\ d' = r
       /\ test' = [test EXCEPT !.fail = CheckOut(r, w.D, Wanted(d, w.S), w.C), !.high = ~@,
                              !.line = IF test.high \/ last THEN @ ELSE FirstOf(Behind(@)),
                              !.at = IF ~test.high /\ last THEN "pullups" ELSE @]
  /\ UNCHANGED <<fault, before, raw, epp, wait, lost, ops>>

\* DdrClr and DdrClr2: all lines inputs; all must be high.
DdrClr(r) == Out406(Out405(Out404(Out2(r, {2, 4, 5}), {}), {}), {})
PullUps ==
  /\ At("pullups")
  /\ d' = DdrClr(d)
  /\ test' = [test EXCEPT !.fail = CheckOut(DdrClr(d), Data, Status, Control), !.at = "leds"]
  /\ UNCHANGED <<fault, before, raw, epp, wait, lost, ops>>

\* Without a fault all lines are driven high, for the user to look at.
Leds ==
  /\ At("leds")
  /\ d' = IF test.fail = {} THEN Out406(Out405(Out404(d, Data), Status), Control) ELSE d
  /\ test' = [test EXCEPT !.at = "restore"]
  /\ UNCHANGED <<fault, before, raw, epp, wait, lost, ops>>

\* The saved registers are written back in two requests.
FirstFour(r, s) == Out402(Out2(Out1(Out0(r, s.data), s.status), s.control), s.mode)
LastFour(r, s) == Out407(Out406(Out405(Out404(r, s.dirD), s.dirC), s.dirB), s.feature)
Restore ==
  /\ At("restore")
  /\ d' = LastFour(FirstFour(d, test.saved), test.saved)
  /\ test' = [test EXCEPT !.at = "done"]
  /\ lost' = (lost /\ test.saved.mode # 4)
  /\ UNCHANGED <<fault, before, raw, epp, wait, ops>>

TestNext ==
  \/ test = NoTest /\ Next /\ UNCHANGED testVars
  \/ \E f \in Faults : Start(f)
  \/ Patterned \/ PullUps \/ Leds \/ Restore

TestSpec == TestInit /\ [][TestNext]_<<vars, testVars>>
-----------------------------------------------------------------------------
\* The verdict: the test finds a fault exactly if there is one, whatever mode,
\* direction and features were set before, and whichever level wins on a short.
TestTellsFaults ==
  At("done") /\ Careful => (test.fail = {} <=> fault.short = {} /\ fault.open = {})

\* On a sound device the test leaves the port as it found it, unless the direction
\* was input (bit 5 is written in SPP mode, where it is 0) or DirectIO was on (the
\* lines are read without and written with inversion).
TestRestores ==
  At("done") /\ fault.short = {} /\ fault.open = {} /\ ~Input(before) /\ ~Direct(before)
    => d = [before EXCEPT !.timeout = d.timeout]

\* The self-test as its user sees it: a verdict to rely on, and the port as before.
SelfTestTrue == TestTellsFaults /\ TestRestores
=============================================================================
