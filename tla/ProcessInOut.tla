---------------------------- MODULE ProcessInOut ----------------------------
(***************************************************************************)
(* The firmware's packet parser (USB2LPT6/usb2lpt6.c, ProcessInOut): a     *)
(* loop over the bytes of one OUT packet that runs the commands in it and  *)
(* collects the answers.  An OUT command cut by the end of the packet is   *)
(* kept in the static PendingByte, with bit 4 set so that command 0 does   *)
(* not read as "nothing pending", and continued by the next packet.        *)
(* One step is one turn of the do-while loop.                              *)
(***************************************************************************)
EXTENDS Integers, Sequences

CONSTANTS
  Packets,   \* the packets a host may send
  MaxBytes,  \* bound: bytes sent over the whole behaviour
  Initial    \* content of a register before its first OUT

S == INSTANCE CommandStream

ProcessInOutAssumption ==
  /\ Packets \subseteq Seq(S!Byte)
  /\ MaxBytes \in Nat

VARIABLES
  pendingByte,  \* static PendingByte, 0 for none
  data,         \* bytes of the packet not fetched yet (data)
  len,          \* the loop counter len, 0 outside the loop
  reg,          \* the port's registers: the value the last OUT routine was given
  handled,      \* ghost: <<routine, value>> for every OUT command run
  answered,     \* ghost: every answer byte written to buf, over all packets
  stream        \* ghost: every byte received, over all packets

vars == <<pendingByte, data, len, reg, handled, answered, stream>>

\* command &= ~0x10 and command |= 0x10
ClearBit4(b) == IF S!IsIn(b) THEN b - 16 ELSE b
\* Fault: the bit that marks command 0 as pending is not set.
SetNoBit(b) == b

SetBit4(b)   == IF S!IsIn(b) THEN b ELSE b + 16

\* The routine the if-else chain calls for an OUT command.
OutRoutine(command) ==
  CASE command = 0 -> "out0"     [] command = 1 -> "out1"
    [] command = 2 -> "out2"     [] command = 10 -> "out402"
    [] command = 3 -> "out3"     [] command >= 4 /\ command < 7 -> "out4"
    [] command = 8 -> "out400"   [] command = 12 -> "out404"
    [] command = 13 -> "out405"  [] command = 14 -> "out406"
    [] command = 15 -> "out407"  [] command = 32 -> "wait"
    [] command = 33 -> "setbit"  [] command = 34 -> "resbit"
    [] command = 35 -> "cplbit"  [] command = 36 -> "waitbit"
    [] OTHER -> "none"

\* The answer to an IN command: FFh where no routine is called.
InValue(command) ==
  IF command \in 16 .. 31 /\ command # 27 THEN reg[command - 16] ELSE 255

Init ==
  /\ pendingByte = 0 /\ len = 0
  /\ data = <<>>
  /\ reg = [a \in 0 .. 15 |-> Initial]
  /\ handled = <<>> /\ answered = <<>> /\ stream = <<>>

\* A packet arrives; an empty one is ignored.
Call(p) ==
  /\ len = 0 /\ p # <<>>
  /\ Len(stream) + Len(p) <= MaxBytes
  /\ data' = p /\ len' = Len(p)
  /\ stream' = stream \o p
  /\ UNCHANGED <<pendingByte, reg, handled, answered>>

\* The command of this turn, the bytes behind it and the value of len once it
\* has been fetched: from PendingByte (len++) or from the packet.
Continued == pendingByte # 0
Command   == IF Continued THEN ClearBit4(pendingByte) ELSE Head(data)
Rest      == IF Continued THEN data ELSE Tail(data)

Left      == IF Continued THEN len + 1 ELSE len

InCommand ==
  /\ len > 0 /\ S!IsIn(Command)
  /\ answered' = Append(answered, InValue(Command))
  /\ pendingByte' = 0 /\ data' = Rest /\ len' = Left - 1
  /\ UNCHANGED <<reg, handled, stream>>

\* Cut by the end of the packet: --len is 0.
CutCommand ==
  /\ len > 0 /\ ~S!IsIn(Command) /\ Left = 1
  /\ pendingByte' = SetBit4(Command)
  /\ data' = Rest /\ len' = 0
  /\ UNCHANGED <<reg, handled, answered, stream>>

OutCommand ==
  /\ len > 0 /\ ~S!IsIn(Command) /\ Left > 1
  /\ handled' = Append(handled, <<Command, OutRoutine(Command), Head(Rest)>>)
  /\ reg' = IF Command < 16 /\ OutRoutine(Command) # "none"
            THEN [reg EXCEPT ![Command] = Head(Rest)] ELSE reg
  /\ pendingByte' = 0 /\ data' = Tail(Rest) /\ len' = Left - 2
  /\ UNCHANGED <<answered, stream>>

Next == (\E p \in Packets : Call(p)) \/ InCommand \/ CutCommand \/ OutCommand

Spec == Init /\ [][Next]_vars
-----------------------------------------------------------------------------
TypeOK ==
  /\ pendingByte \in {0} \cup {b \in S!Byte : S!IsIn(b)}
  /\ data \in Seq(S!Byte) /\ len \in 0 .. 255
  /\ reg \in [0 .. 15 -> S!Byte]

\* However the host cuts the command stream into packets, between packets the
\* parser has run the same commands, with the same data bytes and answers, as a
\* machine fed byte by byte, and holds the same half command.
Reference == S!Feed(S!Reset, stream)
SameAsStream ==
  len = 0 =>
    /\ [i \in DOMAIN handled |-> <<handled[i][1], handled[i][3]>>] = Reference.executed
    /\ answered = Reference.reply
    /\ IF pendingByte = 0 THEN Reference.pending = S!None
                          ELSE Reference.pending = ClearBit4(pendingByte)

=============================================================================
