----------------------------- MODULE MCFirmware -----------------------------
(* Parts of the firmware that share no state, one per behaviour: the FIFO modes, *)
(* what the parser makes of packets, and the boot loader.                        *)
EXTENDS EcpPort

CONSTANTS Packets, MaxBytes, Initial,
          PageWords, BlockWords, First, Per, FlashWords, Ends, Tries, Breaks, MaxFaults

VARIABLES part,
          pendingByte, packet, len, reg, handled, answered, stream,
          state, flash, buffer, addr, offset, todo, magic, exit,
          pc, end, start, given, tries, opened, handle, waits, faults

P == INSTANCE ProcessInOut WITH data <- packet
B == INSTANCE BootLoader WITH mode <- state, sent <- given
ASSUME FirmwareAssumption == P!ProcessInOutAssumption /\ B!BootAssumption

parser == <<pendingByte, packet, len, reg, handled, answered, stream>>
update == <<state, flash, buffer, addr, offset, todo, magic, exit,
            pc, end, start, given, tries, opened, handle, waits, faults>>

Line(in, level) == [input |-> in, stb |-> TRUE, af |-> level]
\* Output, and input with HostAck (/AF) low: ready for the first byte.
OutAndIn == {Line(FALSE, TRUE), Line(TRUE, FALSE)}
\* Input with the bits 0 and 1 of DCR left 0.
OutAndPlainIn == {Line(FALSE, TRUE), Line(TRUE, TRUE)}

\* OUT 0 and IN 0, and three without routine: OUT 7, IN 11 and 30h.
Alphabet == {0, 7, 16, 27, 48}
ShortPackets == UNION {[1 .. n -> Alphabet] : n \in 1 .. 3}

\* A part that is not looked at stays as it begins.
MCInit ==
  /\ part \in {"fifo", "parser", "update"}
  /\ Init /\ P!Init /\ B!Init
  /\ part # "fifo" => mode = 1 /\ offer[2]
  /\ part # "update" => end = 6

MCNext ==
  \/ part = "fifo" /\ Next /\ UNCHANGED <<part, parser, update>>
  \/ part = "parser" /\ P!Next /\ UNCHANGED <<part, vars, update>>
  \/ part = "update" /\ B!Next /\ UNCHANGED <<part, vars, parser>>

(* Each part is fair in the behaviours that are about it; in the others it rests, whatever *)
(* it could do. The main loop of the FIFO modes turns, and the peripheral answers; the boot *)
(* loader's loop runs, and so does the tool.                                               *)
MCSpec ==
  /\ MCInit /\ [][MCNext]_<<part, vars, parser, update>>
  /\ WF_vars(part = "fifo" /\ Loop) /\ WF_vars(part = "fifo" /\ Take)
  /\ WF_vars(part = "fifo" /\ Ready) /\ WF_vars(part = "fifo" /\ Release)
  /\ WF_update(part = "update" /\ B!Store) /\ WF_update(part = "update" /\ B!Leave)
  /\ WF_update(part = "update" /\ B!Open) /\ WF_update(part = "update" /\ B!Info)
  /\ WF_update(part = "update" /\ B!Setup) /\ WF_update(part = "update" /\ B!Packet)
  /\ WF_update(part = "update" /\ B!BlockDone) /\ WF_update(part = "update" /\ B!Lost)
  /\ WF_update(part = "update" /\ \E asked \in BOOLEAN : B!Reboot(asked))

\* ProcessInOut!SameAsStream, BootLoader!WholeFirmware and, of the behaviours that are
\* about it, BootLoader!UpdateEnds.
SameAsStream == P!SameAsStream
WholeFirmware == B!WholeFirmware
UpdateEnds == part = "update" => B!UpdateEnds
=============================================================================
