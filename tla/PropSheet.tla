----------------------------- MODULE PropSheet -----------------------------
(***************************************************************************)
(* The property sheet of the device manager (dll/prop.cpp): the pages      *)
(* Emulation, Statistics and (as far as the common setup data goes)        *)
(* Monitor, the dialog Extras and the firmware update of high-speed        *)
(* devices.  The pages share one block of setup data and one handle of the *)
(* driver.  The device may be unplugged and plugged in again meanwhile.    *)
(*                                                                         *)
(* A value of settings is [base, mode, timeout, flags, cache]; the seven   *)
(* counters are two groups, as the two buttons reset them.  The self-test  *)
(* is SelfTest's, the registers the monitor shows are Monitor's.  Read     *)
(* failures of old firmware, serial number and help are left out.          *)
(***************************************************************************)
EXTENDS Integers, FiniteSets

CONSTANTS
  Bases,     \* what the user types as address
  Timeouts,  \* and as time-out
  Systems,   \* of {"addref", "create"}: how the system counts pages (see PageCallbackProc)
  Mishaps,   \* cases that break the properties: see "Mishaps"
  MaxActs,   \* bound: what the user does
  MaxCount   \* bound: accesses counted

VARIABLES
  plug,    \* the device is there
  drv,     \* the driver: its settings uc, its counters cnt
  dev,     \* the handle: "none", "open", or "stale": of a device that was removed
  sys,     \* of Systems
  wizard,  \* the page is the last one of the hardware wizard
  sheet,   \* "loading", "open", "closing", "closed"
  pages,   \* of each page: "new", "added", "shown" or "gone"
  setup,   \* the setup data's counters and fate: see Release
  active,  \* the page in front
  uc, ac,  \* the setup data: settings, counters as shown
  fields,  \* the widgets of the page Emulation
  extras,  \* the dialog Extras, or NoDialog
  feature, \* the device: Feature byte
  ecr,     \* and the mode it begins with, in the EEPROM
  rom,     \* its firmware: first byte and the rest
  fw,      \* the update: "idle", "head", "rest" or "mark": what is written next
  zeroed,  \* ghost: groups of counters that may have begun anew since they were shown
  had,     \* ghost: accesses since a group was reset or the device plugged in
  acts

world == <<plug, drv, feature, ecr, rom>>
vars == <<world, dev, sys, wizard, sheet, pages, setup, active, uc, ac, fields, extras, fw, zeroed, had, acts>>

Pages == {"emul", "stat", "mon"}
Groups == {"port", "trap"}  \* out .. rel, and wpu .. over
NoPage == "none"
NoDialog == [open |-> FALSE]
Unread == [g \in Groups |-> -1]
Zero == [g \in Groups |-> 0]

\* Mishaps: "addpage" - a page cannot be added; "next" - Next with input that was
\* refused; "reset" - a button although the counters have not been read since the device was
\* plugged in or the other button was used; "toggle" - the back door marks a half-written firmware as valid; "noread" - Extras opens
\* although the device does not answer.
Mishap(m) == m \in Mishaps

NoSettings == [base |-> 0, mode |-> 0, timeout |-> 0, flags |-> {}, cache |-> "none"]
FirstSettings == [base |-> 888, mode |-> 1, timeout |-> 200, flags |-> {"debug"}, cache |-> "all"]
Standard == {888, 632, 956}  \* DefLpt: 378h, 278h, 3BCh

\* OpenDev.  An open handle is kept, even if its device has gone.
OpenDev == IF dev # "none" THEN dev ELSE IF plug THEN "open" ELSE "none"
-----------------------------------------------------------------------------
(* PageCallbackProc: the setup data are freed when both counters are zero *)

NewSetup == [refs |-> 0, shown |-> 0, live |-> TRUE, bad |-> FALSE, used |-> FALSE]
AddRef(m) == [m EXCEPT !.refs = @ + 1, !.bad = @ \/ ~m.live]
Create(m) == [m EXCEPT !.shown = @ + 1, !.bad = @ \/ ~m.live, !.used = TRUE]
Less(n) == IF n = 0 THEN 0 ELSE n - 1
Release(m) ==
  IF m.refs + m.shown = 0 \/ ~m.live THEN [m EXCEPT !.bad = @ \/ ~m.live]
  ELSE [m EXCEPT !.refs = Less(@), !.shown = Less(@), !.live = Less(m.refs) + Less(m.shown) # 0]

\* CreatePropertySheetPage and AddPage; a page that is not added is destroyed.
LoadPage(p) ==
  /\ sheet = "loading" /\ pages[p] = "new"
  /\ \E added \in {TRUE} \cup (IF Mishap("addpage") THEN {FALSE} ELSE {}) :
       LET m == IF sys = "addref" THEN AddRef(setup) ELSE setup IN
       /\ pages' = [pages EXCEPT ![p] = IF added THEN "added" ELSE "gone"]
       /\ setup' = IF added \/ sys # "addref" THEN m ELSE Release(m)
  /\ UNCHANGED <<world, dev, sys, wizard, sheet, active, uc, ac, fields, extras, fw, zeroed, had, acts>>

Loaded ==
  /\ sheet = "loading" /\ "new" \notin {pages[p] : p \in Pages}
  /\ sheet' = "open"
  /\ UNCHANGED <<world, dev, sys, wizard, pages, setup, active, uc, ac, fields, extras, fw, zeroed, had, acts>>

\* The last release closes the handle.
ClosePage(p) ==
  /\ sheet = "closing" /\ pages[p] \in {"added", "shown"}
  /\ pages' = [pages EXCEPT ![p] = "gone"]
  /\ setup' = IF sys = "addref" \/ pages[p] = "shown" THEN Release(setup) ELSE setup
  /\ dev' = IF setup'.live THEN dev ELSE "none"
  /\ UNCHANGED <<world, sys, wizard, sheet, active, uc, ac, fields, extras, fw, zeroed, had, acts>>

Closed ==
  /\ sheet = "closing" /\ \A p \in Pages : pages[p] = "gone"
  /\ sheet' = "closed"
  /\ UNCHANGED <<world, dev, sys, wizard, pages, setup, active, uc, ac, fields, extras, fw, zeroed, had, acts>>

Act == sheet = "open" /\ ~extras.open /\ fw = "idle" /\ acts < MaxActs /\ acts' = acts + 1
-----------------------------------------------------------------------------
(* EmulDlgProc *)

\* Fault: EPP at any address.
AnyModeFits == TRUE

BaseFits == fields.base >= 256 /\ fields.base % 4 = 0
ModeFits == fields.mode % 2 = 0 \/ fields.base % 8 = 0
TimeFits == wizard \/ fields.timeout <= 1000

\* PSN_KILLACTIVE takes over field after field, up to the first that does not fit.
Accepted == BaseFits /\ ModeFits /\ TimeFits
Taken ==
  LET a == IF BaseFits THEN [uc EXCEPT !.base = fields.base] ELSE uc
      b == IF BaseFits /\ ModeFits THEN [a EXCEPT !.mode = fields.mode] ELSE a IN
  IF Accepted /\ ~wizard THEN [b EXCEPT !.timeout = fields.timeout, !.flags = fields.flags] ELSE b

FieldsOf(s) == [base |-> s.base, mode |-> s.mode, timeout |-> s.timeout, flags |-> s.flags]

Edit ==
  /\ Act /\ active = "emul"
  /\ \E b \in Bases, m \in {0, 1}, t \in Timeouts, f \in SUBSET {"debug"} :
       /\ wizard => t = fields.timeout /\ f = fields.flags
       /\ fields' = [base |-> b, mode |-> m, timeout |-> t, flags |-> f]
  /\ UNCHANGED <<world, dev, sys, wizard, sheet, pages, setup, active, uc, ac, extras, fw, zeroed, had>>

\* The box of the read cache acts on the setup data at once.
CacheBox ==
  /\ Act /\ active = "emul" /\ ~wizard
  /\ \E c \in {"none", "some", "all"} : uc' = [uc EXCEPT !.cache = c]
  /\ UNCHANGED <<world, dev, sys, wizard, sheet, pages, setup, active, ac, fields, extras, fw, zeroed, had>>

\* PSN_KILLACTIVE of the page in front; it may stay.
Leaves == active = "emul" => Accepted
UcAfter == IF active = "emul" THEN Taken ELSE uc

\* A page is chosen: PSN_KILLACTIVE, WM_INITDIALOG when it is new, PSN_SETACTIVE.
Select(p) ==
  /\ Act /\ p # active /\ pages[p] \in {"added", "shown"}
  /\ uc' = IF p = "emul" /\ pages[p] = "added" /\ plug THEN drv.uc ELSE UcAfter
  /\ IF ~Leaves THEN UNCHANGED <<dev, pages, setup, active, ac, fields, zeroed>>
     ELSE /\ active' = p
          /\ pages' = [pages EXCEPT ![p] = "shown"]
          /\ setup' = IF pages[p] = "added" THEN Create(setup) ELSE setup
          /\ fields' = IF p = "emul" /\ pages[p] = "added" THEN FieldsOf(uc') ELSE fields
          /\ dev' = IF plug /\ (p = "mon" \/ (p = "stat" /\ pages[p] = "added")) THEN "open" ELSE "none"
          /\ IF p = "stat" /\ pages[p] = "added"
             THEN ac' = (IF plug THEN drv.cnt ELSE Unread) /\ zeroed' = {}
             ELSE UNCHANGED <<ac, zeroed>>
  /\ UNCHANGED <<world, sys, wizard, sheet, extras, fw, had>>

\* PSN_APPLY: the settings go to the driver; an unusual address only if the user
\* insists, else the sheet stays.
Write(s) ==
  /\ drv' = IF plug THEN [drv EXCEPT !.uc = s] ELSE drv
  /\ dev' = "none"
Apply ==
  /\ uc' = UcAfter
  /\ \E insists \in BOOLEAN :
       IF pages["emul"] # "shown" THEN drv' = drv /\ dev' = "none" /\ sheet' = "closing"
       ELSE IF uc'.base \in Standard \/ insists THEN Write(uc') /\ sheet' = "closing"
       ELSE drv' = drv /\ dev' = "none" /\ UNCHANGED sheet
  /\ active' = IF sheet' = "closing" THEN NoPage ELSE "emul"
  /\ UNCHANGED <<plug, feature, ecr, rom, sys, wizard, pages, setup, ac, fields, extras, fw, zeroed, had>>

Ok == Act /\ ~wizard /\ active # NoPage /\ Leaves /\ Apply

\* PSN_WIZNEXT sends PSN_KILLACTIVE itself, and does not look at the answer.
WizNext == Act /\ wizard /\ active = "emul" /\ (Accepted \/ Mishap("next")) /\ Apply

Cancel ==
  /\ Act
  /\ sheet' = "closing" /\ active' = NoPage
  /\ UNCHANGED <<world, dev, sys, wizard, pages, setup, uc, ac, fields, extras, fw, zeroed, had>>
-----------------------------------------------------------------------------
(* StatDlgProc *)

Tick ==
  /\ sheet = "open" /\ active = "stat"
  /\ dev' = OpenDev
  /\ IF dev' = "open" THEN ac' = drv.cnt /\ zeroed' = {} ELSE UNCHANGED <<ac, zeroed>>
  /\ UNCHANGED <<world, sys, wizard, sheet, pages, setup, active, uc, fields, extras, fw, had, acts>>

\* Fault: the whole structure is zeroed.
ResetAll(g) ==
  /\ Act /\ active = "stat" /\ ((ac # Unread /\ zeroed = {}) \/ Mishap("reset"))
  /\ dev' = OpenDev
  /\ IF dev' = "open"
     THEN drv' = [drv EXCEPT !.cnt = Zero] /\ zeroed' = zeroed \cup {g}
          /\ had' = [had EXCEPT ![g] = 0]
     ELSE UNCHANGED <<drv, zeroed, had>>
  /\ UNCHANGED <<plug, feature, ecr, rom, sys, wizard, sheet, pages, setup, active, uc, ac, fields, extras, fw>>

\* The button of group g: all counters are written, the others as they were shown.
Reset(g) ==
  /\ Act /\ active = "stat" /\ ((ac # Unread /\ zeroed = {}) \/ Mishap("reset"))
  /\ dev' = OpenDev
  /\ IF dev' = "open"
     THEN drv' = [drv EXCEPT !.cnt = [ac EXCEPT ![g] = 0]] /\ zeroed' = zeroed \cup {g}
          /\ had' = [had EXCEPT ![g] = 0]
     ELSE UNCHANGED <<drv, zeroed, had>>
  /\ UNCHANGED <<plug, feature, ecr, rom, sys, wizard, sheet, pages, setup, active, uc, ac, fields, extras, fw>>

Count(g) ==
  /\ plug /\ had[g] < MaxCount
  /\ drv' = [drv EXCEPT !.cnt[g] = @ + 1]
  /\ had' = [had EXCEPT ![g] = @ + 1]
  /\ UNCHANGED <<plug, feature, ecr, rom, dev, sys, wizard, sheet, pages, setup, active, uc, ac, fields, extras, fw, zeroed, acts>>
-----------------------------------------------------------------------------
(* ExtrasDlgProc: ReadCheckboxes, ReadSerialAndDate and WriteCheckboxes *)

\* Bits 1 and 2 are one box with three states.
ThreeState(f) == IF 2 \in f THEN "on" ELSE IF 1 \in f THEN "off" ELSE "third"
BitsOf(three) == CASE three = "on" -> {2} [] three = "off" -> {1} [] three = "third" -> {}
Written(x) == x.bits \cup BitsOf(x.three)

\* Without an answer: the command byte 1Fh, and mode 1.
Shown == IF dev = "open" THEN feature ELSE {0, 1, 2}
Dialog ==
  [open |-> TRUE, touched |-> FALSE, bits |-> Shown \ {1, 2}, three |-> ThreeState(Shown),
   ecr |-> IF dev = "open" THEN ecr ELSE 1]

OpenExtras ==
  /\ Act /\ active = "stat" /\ (dev = "open" \/ Mishap("noread"))
  /\ extras' = Dialog
  /\ UNCHANGED <<world, dev, sys, wizard, sheet, pages, setup, active, uc, ac, fields, fw, zeroed, had>>

Touch ==
  /\ extras.open /\ acts < MaxActs /\ acts' = acts + 1
  /\ \E b \in SUBSET {0, 6}, t \in {"on", "off", "third"}, e \in {0, 1} :
       extras' = [extras EXCEPT !.touched = TRUE, !.bits = b, !.three = t, !.ecr = e]
  /\ UNCHANGED <<world, dev, sys, wizard, sheet, pages, setup, active, uc, ac, fields, fw, zeroed, had>>

\* OK, Apply (which reads again) or Cancel.
CloseExtras(how) ==
  /\ extras.open
  /\ IF how # "cancel" /\ dev = "open"
     THEN feature' = Written(extras) /\ ecr' = extras.ecr
     ELSE UNCHANGED <<feature, ecr>>
  /\ extras' = IF how # "apply" THEN NoDialog
               ELSE [extras EXCEPT !.touched = dev # "open",
                        !.bits = (IF dev = "open" THEN feature' ELSE {0, 1, 2}) \ {1, 2},
                        !.three = ThreeState(IF dev = "open" THEN feature' ELSE {0, 1, 2})]
  /\ acts < MaxActs /\ acts' = acts + 1
  /\ UNCHANGED <<plug, drv, rom, dev, sys, wizard, sheet, pages, setup, active, uc, ac, fields, fw, zeroed, had>>
-----------------------------------------------------------------------------
(* DoFirmwareUpdate.  rom.first: "valid", "erased", "blank" (FFh) or "stay" (42h) *)

\* The back door toggles the mark; without it a file is chosen and checked.
BackDoor(shift) == shift = (rom.first # "blank")
Toggled(f) ==
  CASE f = "valid" -> "erased" [] f = "erased" -> "valid" [] f = "blank" -> "stay" [] f = "stay" -> "blank"

FwBegin(shift) ==
  /\ Act /\ active = "stat" /\ dev = "open"
  /\ IF BackDoor(shift)
     THEN /\ rom.first = "erased" => rom.rest # "mixed" \/ Mishap("toggle")
          /\ rom' = [rom EXCEPT !.first = Toggled(@)] /\ UNCHANGED fw
     ELSE /\ rom.first # "stay"
          /\ fw' = "head" /\ UNCHANGED rom
  /\ UNCHANGED <<plug, drv, feature, ecr, dev, sys, wizard, sheet, pages, setup, active, uc, ac, fields, extras, zeroed, had>>

\* The head goes with the mark of erased firmware, the mark of the file last.
FwWrite ==
  /\ fw # "idle"
  /\ IF dev # "open" THEN fw' = "idle" /\ UNCHANGED rom
     ELSE /\ fw' = CASE fw = "head" -> "rest" [] fw = "rest" -> "mark" [] fw = "mark" -> "idle"
          /\ rom' = CASE fw = "head" -> [first |-> "erased", rest |-> "mixed"]
                      [] fw = "rest" -> [rom EXCEPT !.rest = "new"]
                      [] fw = "mark" -> [rom EXCEPT !.first = "valid"]
  /\ UNCHANGED <<plug, drv, feature, ecr, dev, sys, wizard, sheet, pages, setup, active, uc, ac, fields, extras, zeroed, had, acts>>
-----------------------------------------------------------------------------
\* The device comes and goes; its settings stay in the registry, its counters not.
Unplug ==
  /\ sheet = "open" /\ plug /\ acts < MaxActs /\ acts' = acts + 1
  /\ plug' = FALSE
  /\ dev' = IF dev = "open" THEN "stale" ELSE dev
  /\ drv' = [drv EXCEPT !.cnt = Zero]
  /\ zeroed' = Groups /\ had' = Zero
  /\ UNCHANGED <<feature, ecr, rom, sys, wizard, sheet, pages, setup, active, uc, ac, fields, extras, fw>>

Plug ==
  /\ ~plug /\ plug' = TRUE
  /\ UNCHANGED <<drv, feature, ecr, rom, dev, sys, wizard, sheet, pages, setup, active, uc, ac, fields, extras, fw, zeroed, had, acts>>

Init ==
  /\ plug = TRUE /\ drv = [uc |-> FirstSettings, cnt |-> Zero] /\ dev = "none"
  /\ sys \in Systems /\ wizard \in BOOLEAN /\ sheet = "loading"
  /\ pages = [p \in Pages |-> IF wizard /\ p # "emul" THEN "gone" ELSE "new"]
  /\ setup = NewSetup /\ active = NoPage /\ uc = NoSettings /\ ac = Unread
  /\ fields = FieldsOf(NoSettings) /\ extras = NoDialog
  /\ feature \in {{0, 2}, {1}, {6}} /\ ecr = 0
  /\ rom \in [first : {"valid", "erased"}, rest : {"old"}] \cup [first : {"blank", "stay"}, rest : {"none"}]
  /\ fw = "idle" /\ zeroed = {} /\ had = Zero /\ acts = 0

Next ==
  \/ \E p \in Pages : LoadPage(p) \/ ClosePage(p) \/ Select(p)
  \/ Loaded \/ Closed \/ Edit \/ CacheBox \/ Ok \/ WizNext \/ Cancel \/ Tick
  \/ \E g \in Groups : Reset(g) \/ Count(g)
  \/ OpenExtras \/ Touch \/ \E how \in {"ok", "apply", "cancel"} : CloseExtras(how)
  \/ \E shift \in BOOLEAN : FwBegin(shift)
  \/ FwWrite \/ Unplug \/ Plug

Spec == Init /\ [][Next]_vars
-----------------------------------------------------------------------------
\* What reaches the driver can be decoded: an address of a port, EPP only where the
\* eight registers fit, a time-out in range.
SettingsSound ==
  LET s == drv.uc IN
  s.base >= 256 /\ s.base % 4 = 0 /\ (s.mode % 2 = 1 => s.base % 8 = 0) /\ s.timeout <= 1000

\* Firmware that is marked as valid is complete, wherever an update breaks off.
FirmwareNeverHalf == rom.first = "valid" => rom.rest \in {"old", "new"}

\* The setup data are used by no page after they were freed, and have been freed when
\* a sheet of which a page was shown is gone.
SetupFreedOnce ==
  /\ ~setup.bad
  /\ sheet = "closed" /\ (sys = "addref" \/ setup.used) => ~setup.live

\* OK in the dialog Extras leaves what the user has not touched.
ExtrasHarmless ==
  extras.open /\ ~extras.touched => Written(extras) = feature /\ extras.ecr = ecr

\* A button does not bring back accesses of before, of the other counters.
CountsHappened == \A g \in Groups : drv.cnt[g] \in 0 .. had[g]

\* The sheet's promises of settings, counters, firmware, memory and device.
SheetKeeps == SettingsSound /\ CountsHappened /\ FirmwareNeverHalf /\ SetupFreedOnce /\ ExtrasHarmless

\* A counter that is shown does not run backwards but by its own button, or because
\* the device was plugged in anew.
NeverBack == \A g \in Groups : ac'[g] < ac[g] => g \in zeroed

\* The same of every step of the sheet (prop.cpp:1069).
ShownNeverRunsBack == [][NeverBack]_vars
=============================================================================
