--------------------------- MODULE CommandStream ---------------------------
(***************************************************************************)
(* The language spoken over the two USB pipes, as a machine that takes one *)
(* byte at a time: an OUT command is its address byte and a data byte, an  *)
(* IN command is one byte (the address with bit 4 set) and is answered by  *)
(* one byte on the IN pipe.  PortIO uses it as the adapter at the far end  *)
(* of the pipes; ProcessInOut, the firmware's packet parser, implements it.*)
(* Registers are kept as the value last written: what the pins make of it  *)
(* (inversions, peripheral) is left out here.                              *)
(***************************************************************************)
EXTENDS Integers, Sequences, SequencesExt

CONSTANT Initial  \* what a register holds before its first OUT

Byte == 0 .. 255
None == 256       \* no command byte is waiting for its data byte

\* Bit 4 of a command byte: an IN command.
IsIn(command) == (command \div 16) % 2 = 1

Reset == [pending |-> None, reg |-> [a \in 0 .. 15 |-> Initial],
          executed |-> <<>>, reply |-> <<>>]

\* The addresses with an OUT routine, and those with an IN routine.
Writable == (0 .. 15) \ {7, 9, 11}
Readable == (0 .. 15) \ {11}

\* The answer to an IN command: 30h, 50h, ... have bit 4 set but no register.
Value(d, b) == IF b - 16 \in Readable THEN d.reg[b - 16] ELSE 255

\* An OUT command with its data byte; 20h and up are not registers.
Execute(d, command, b) ==
  [d EXCEPT !.pending = None,
            !.reg = IF command \in Writable THEN [@ EXCEPT ![command] = b] ELSE @,
            !.executed = Append(@, <<command, b>>)]

\* One more byte of the OUT pipe reaches the command interpreter.
Step(d, b) ==
  IF d.pending # None THEN Execute(d, d.pending, b)
  ELSE IF IsIn(b) THEN [d EXCEPT !.reply = Append(@, Value(d, b))]
  ELSE [d EXCEPT !.pending = b]

Feed(d, bytes) == FoldLeft(Step, d, bytes)
============================================================================
