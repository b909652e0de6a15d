------------------------------ MODULE PortTalk ------------------------------
(***************************************************************************)
(* PortTalk.dll in place of the original one (PortTalk.cpp): programs that *)
(* use inport and outport reach a USB2LPT adapter instead, by two feature  *)
(* reports if it is a HID, else by one OutIn request to its driver, which  *)
(* is looked for as LPT2 and as LPT1.  A HID keeps answers until somebody  *)
(* fetches them.                                                           *)
(***************************************************************************)
EXTENDS Integers, Sequences

CONSTANTS
  Users,      \* programs
  Addresses,  \* that they use
  Shared,     \* several programs at a time may read from a HID
  Fails,      \* transfers may fail
  MaxUses     \* bound on the calls

PortTalkAssumption == {Shared, Fails} \subseteq BOOLEAN /\ MaxUses \in Nat

Handles == {"hid", "LPT2", "LPT1"}
Registers == 0 .. 15
Meant(a) == IF a - 888 < 8 THEN a - 888 ELSE a - 888 - 1024 + 8

VARIABLES
  adapters,   \* which of Handles there are
  hAccess,    \* hAccess[p]: what p has opened, "none" if there was nothing
  reg,        \* registers of each adapter: the call that has written them
  wanted,     \* ghost: the same as the programs meant it
  replies,    \* answers that a HID holds
  reading,    \* an inport between its two reports: its address, 0 otherwise
  answer,     \* what the last inport has answered ...
  should,     \* ... and the register's content as it was called
  uses

talkVars == <<adapters, hAccess, reg, wanted, replies, reading, answer, should, uses>>

Init ==
  /\ adapters \in SUBSET Handles
  /\ hAccess = [p \in Users |-> "none"]
  /\ reg = [h \in Handles |-> [r \in Registers |-> 0]] /\ wanted = reg
  /\ replies = <<>> /\ reading = [p \in Users |-> 0]
  /\ answer = [p \in Users |-> 0] /\ should = [p \in Users |-> 0] /\ uses = 0

\* A device that the driver serves is opened by one program only.
InitPortTalk(p) ==
  LET open == {h \in adapters : h = "hid" \/ \A q \in Users : hAccess[q] # h}
  IN  /\ hAccess[p] = "none" /\ open # {}
      /\ hAccess' = [hAccess EXCEPT ![p] = CASE "hid" \in open  -> "hid"
                                             [] "hid" \notin open /\ "LPT2" \in open -> "LPT2"
                                             [] OTHER -> "LPT1"]
      /\ UNCHANGED <<adapters, reg, wanted, replies, reading, answer, should, uses>>

ExitPortTalk(p) ==
  /\ hAccess[p] # "none" /\ reading[p] = 0
  /\ hAccess' = [hAccess EXCEPT ![p] = "none"]
  /\ answer' = [answer EXCEPT ![p] = 0] /\ should' = [should EXCEPT ![p] = 0]
  /\ UNCHANGED <<adapters, reg, wanted, replies, reading, uses>>

Use(p) ==
  /\ hAccess[p] # "none" /\ reading[p] = 0 /\ uses < MaxUses
  /\ Shared \/ \A q \in Users : reading[q] = 0
  /\ uses' = uses + 1

\* The first byte of a command: only the low byte of the address is left.
Command(a) == (a - 888) % 256

\* Fault: it is not marked as one that reads.
ReadCommandPlain(a) == Command(a)

\* The bit of a command that reads.
ReadCommand(a) == IF (Command(a) \div 16) % 2 = 1 THEN Command(a) ELSE Command(a) + 16

\* An adapter answers a command that reads.
Replied(h, b) == IF b \in 16 .. 31 THEN <<reg[h][b - 16]>> ELSE <<>>

outport(p, a) ==
  LET h == hAccess[p]
  IN  /\ Use(p)
      /\ \E ok \in {TRUE, ~Fails} :
           reg' = IF ok /\ Command(a) \in Registers THEN [reg EXCEPT ![h][Command(a)] = uses'] ELSE reg
      /\ wanted' = [wanted EXCEPT ![h][Meant(a)] = uses']
      /\ UNCHANGED <<adapters, hAccess, replies, reading, answer, should>>

\* What is in the buffer if nothing comes: the command.
Answered(p, bytes, a) == answer' = [answer EXCEPT ![p] = IF bytes = <<>> THEN -ReadCommand(a) ELSE bytes[1]]

inport(p, a) ==
  LET h == hAccess[p]
  IN  /\ Use(p)
      /\ should' = [should EXCEPT ![p] = reg[h][Meant(a)]]
      /\ \E ok \in {TRUE, ~Fails} :
           LET bytes == IF ok THEN Replied(h, ReadCommand(a)) ELSE <<>>
           IN  IF h = "hid"
               THEN /\ replies' = replies \o bytes
                    /\ reading' = [reading EXCEPT ![p] = a]
                    /\ UNCHANGED answer
               ELSE Answered(p, bytes, a) /\ UNCHANGED <<replies, reading>>
      /\ UNCHANGED <<adapters, hAccess, reg, wanted>>

\* HidD_GetFeature: the first of the answers.
GetFeature(p) ==
  /\ reading[p] # 0
  /\ \E ok \in {TRUE, ~Fails} :
       LET bytes == IF ok THEN replies ELSE <<>>
       IN  /\ Answered(p, bytes, reading[p])
           /\ replies' = IF bytes = <<>> THEN replies ELSE Tail(replies)
  /\ reading' = [reading EXCEPT ![p] = 0]
  /\ UNCHANGED <<adapters, hAccess, reg, wanted, should, uses>>

Next ==
  \E p \in Users :
    \/ InitPortTalk(p) \/ ExitPortTalk(p) \/ GetFeature(p)
    \/ \E a \in Addresses : outport(p, a) \/ inport(p, a)

Spec == Init /\ [][Next]_talkVars
-----------------------------------------------------------------------------
\* Programs that share adapters, one call at a time, write the registers they mean, read
\* what these hold, and leave no answer behind for the next one (PortTalk.cpp:94-123).
CallsServed ==
  /\ reg = wanted
  /\ \A p \in Users : reading[p] = 0 => answer[p] = should[p]
  /\ (\A p \in Users : reading[p] = 0) => replies = <<>>
=============================================================================
