------------------------------ MODULE LptPort ------------------------------
(***************************************************************************)
(* What a USB2LPT device promises to the programs that use it: it is a     *)
(* parallel port.  An OUT is posted (the call may return before the        *)
(* adapter has executed it), the adapter executes the posted OUTs in the   *)
(* order in which they were issued, each exactly once, and an IN sees      *)
(* every OUT issued before it.  This is the abstract specification that    *)
(* PortIO, the driver's buffered path over two USB pipes, implements.      *)
(***************************************************************************)
EXTENDS Integers, Sequences

CONSTANTS
  Threads,  \* the threads that access the port
  Ports,    \* relative register addresses
  Cached,   \* addresses whose IN may be answered before the OUTs are executed
  Initial   \* the value a register has before its first OUT

VARIABLES
  issued,    \* every OUT so far, <<address, value>>, in the order of the calls
  executed,  \* the OUTs the adapter has executed, in its order
  mark,      \* mark[t]: how many OUTs had been issued when t's last IN started
  ret        \* ret[t]: the bytes thread t's last IN got, <<>> while it has none

vars == <<issued, executed, mark, ret>>

\* The value an IN must see in register a when the OUTs in log were made.
LastWritten(log, a) ==
  LET writes == {i \in 1 .. Len(log) : log[i][1] = a}
  IN  IF writes = {}
      THEN Initial
      ELSE log[CHOOSE i \in writes : \A j \in writes : j <= i][2]

\* The answer to an IN of len bytes at address a (BYTE, WORD or DWORD access).
Answer(log, a, len) == [i \in 1 .. len |-> LastWritten(log, a + i - 1)]

IsPrefixOf(s, u) == Len(s) <= Len(u) /\ s = SubSeq(u, 1, Len(s))

Init ==
  /\ issued = <<>>
  /\ executed = <<>>
  /\ mark = [t \in Threads |-> 0]
  /\ ret = [t \in Threads |-> <<>>]

\* A thread posts OUTs behind the ones already posted.
Post ==
  /\ Len(issued') > Len(issued)
  /\ IsPrefixOf(issued, issued')
  /\ UNCHANGED <<executed, mark, ret>>

\* The adapter executes some of the posted OUTs, in order.
Execute ==
  /\ Len(executed') > Len(executed)
  /\ IsPrefixOf(executed, executed')
  /\ IsPrefixOf(executed', issued)
  /\ UNCHANGED <<issued, mark, ret>>

\* An IN starts: its caller has no answer yet.
Begin(t) ==
  /\ mark' = [mark EXCEPT ![t] = Len(issued)]
  /\ ret' = [ret EXCEPT ![t] = <<>>]
  /\ UNCHANGED <<issued, executed>>

\* An IN is answered with the state of the port at a moment when every OUT
\* issued before it started had been executed.
ReadExecuted(t, a, len) ==
  \E k \in mark[t] .. Len(executed) :
    ret' = [ret EXCEPT ![t] = Answer(SubSeq(executed, 1, k), a, len)]

\* A BYTE IN of a mirrored register is answered with the last OUT issued, of the
\* control register (2) with its five bits.
Mirror(a, v) == IF a = 2 THEN 224 + (v % 32) ELSE v

ReadMirror(t, a) ==
  /\ a \in Cached
  /\ ret' = [ret EXCEPT ![t] = <<Mirror(a, LastWritten(issued, a))>>]

Finish(t) ==
  /\ ret[t] = <<>>
  /\ \E a \in Ports :
        ReadMirror(t, a) \/ \E len \in {1, 2, 4} : ReadExecuted(t, a, len)
  /\ UNCHANGED <<issued, executed, mark>>

Next == Post \/ Execute \/ \E t \in Threads : Begin(t) \/ Finish(t)

Spec == Init /\ [][Next]_vars
============================================================================
