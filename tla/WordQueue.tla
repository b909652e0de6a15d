----------------------------- MODULE WordQueue -----------------------------
(***************************************************************************)
(* What the two hardware FIFOs of an ECP port promise, as EcpPort sees     *)
(* them: a bounded queue that drops what does not fit, is emptied by a     *)
(* change of the mode, and remembers the last word handed out, because a   *)
(* read of the empty queue repeats it.                                     *)
(***************************************************************************)
EXTENDS Integers, Sequences

CONSTANTS Word, NoWord, Size

VARIABLES
  q,     \* the words in the queue
  last   \* the last word handed out since the queue was emptied, or NoWord

vars == <<q, last>>

Init == q = <<>> /\ last = NoWord

Put(w) == Len(q) < Size /\ q' = Append(q, w) /\ UNCHANGED last

Get == q # <<>> /\ q' = Tail(q) /\ last' = Head(q)

\* A bit is changed: the word at the front is read and a new one written.
Change(w) == q # <<>> /\ q' = Append(Tail(q), w) /\ last' = Head(q)

Empty == q' = <<>> /\ last' = NoWord

Next == (\E w \in Word : Put(w) \/ Change(w)) \/ Get \/ Empty

Spec == Init /\ [][Next]_vars
============================================================================
