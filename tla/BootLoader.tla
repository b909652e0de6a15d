----------------------------- MODULE BootLoader -----------------------------
(***************************************************************************)
(* A firmware update of a low-speed adapter: the host tool bootloadHID     *)
(* (src-bootloadtool-Win32/main.cpp) sends the image in blocks as HID      *)
(* reports to the boot loader (src-ATmega8-bootload/BL.c), which takes     *)
(* them packet by packet and programs the flash page by page.  Transfers   *)
(* break, the device loses its power at any moment, and the tool tries     *)
(* again from the block that failed.                                       *)
(*                                                                         *)
(* Flash is counted in words.  A word is Old (the firmware before), Erased *)
(* (also the filling of the image), or the number of its place in the      *)
(* image.                                                                  *)
(***************************************************************************)
EXTENDS Integers

CONSTANTS
  PageWords,   \* SPM_PAGESIZE in words: 32
  BlockWords,  \* words of a report with ID 2: 64
  First, Per,  \* words in its first packet and in each further one: 2, 4
  FlashWords,  \* words below the boot loader: 0x1800 bytes
  Ends,        \* lengths of the images a user may choose
  Tries,       \* how often the tool calls uploadData: 5
  Breaks,      \* words of a block the device has when its transfer may break
  MaxFaults    \* bound: broken transfers and losses of power

BootAssumption ==
  /\ {PageWords, BlockWords, First, Per, FlashWords, Tries} \subseteq Nat \ {0}
  /\ First <= BlockWords /\ BlockWords % PageWords = 0
  /\ FlashWords % BlockWords = 0
  /\ Ends \subseteq Nat \ {0} /\ Breaks \subseteq 0 .. BlockWords /\ MaxFaults \in Nat

Old == -2
Erased == -1
None == -3
Cells == 0 .. FlashWords + BlockWords - 1  \* the last block: the boot loader

VARIABLES
  \* the device
  mode,    \* "off", "boot", or "app": the firmware runs
  flash,
  buffer,  \* the controller's page buffer, filled word by word
  addr,    \* currentAddress
  offset,  \* words of the report processed
  todo,    \* words of the received packet still to be stored
  magic,   \* the EEPROM's byte 0 is 0x42
  exit,    \* exitMainloop
  \* the tool
  pc,      \* where it is
  end,     \* endAddr, the image's end
  start,   \* startAddr, the block at work
  sent,    \* words of it sent
  tries,   \* calls of uploadData that failed
  opened,  \* subsequentopen
  handle,  \* h is good: the device has been there since it was opened
  waits,   \* i of uploadData
  faults

device == <<mode, flash, buffer, addr, offset, todo, magic, exit>>
tool == <<pc, end, start, sent, tries, opened, handle, waits>>
vars == <<device, tool, faults>>

Image(a) == IF a < end THEN a ELSE Erased

\* The page a word is on, and its place there.
Page(a) == a \div PageWords
Place(a) == a % PageWords

NoBuffer == [w \in 0 .. PageWords - 1 |-> None]

\* The property sheet has written the magic number and restarted the device.
Init ==
  /\ mode = "boot" /\ magic = TRUE /\ flash = [a \in Cells |-> Old]
  /\ buffer = NoBuffer /\ addr = 0 /\ offset = 0 /\ todo = 0 /\ exit = FALSE
  /\ pc = "open" /\ end \in Ends /\ start = 0 /\ sent = 0
  /\ tries = 0 /\ opened = FALSE /\ handle = FALSE /\ waits = 0 /\ faults = 0
-----------------------------------------------------------------------------
(* The device *)

\* boot_page_fill: a word of the page buffer is filled once, until the buffer
\* has been written.
Fill(w, v) == IF buffer[w] = None THEN [buffer EXCEPT ![w] = v] ELSE buffer

\* Fault: the page is not erased before it is filled.
StoreKeepsPage ==
  LET w == Place(addr)
      filled == Fill(w, Image(addr))
  IN  /\ mode = "boot" /\ todo > 0
      /\ todo' = todo - 1 /\ addr' = addr + 1
      /\ IF w = PageWords - 1
           THEN /\ flash' = [a \in Cells |->
                     IF Page(a) = Page(addr) /\ flash[a] = Erased
                       THEN filled[Place(a)] ELSE flash[a]]
                /\ buffer' = NoBuffer
           ELSE flash' = flash /\ buffer' = filled
      /\ UNCHANGED <<mode, offset, magic, exit, tool, faults>>

\* One turn of usbFunctionWrite's loop: at its begin a page is erased, at its
\* end it is written.
Store ==
  LET w == Place(addr)
      filled == Fill(w, Image(addr))
      clear == IF w = 0 THEN [a \in Cells |-> IF Page(a) = Page(addr)
                                               THEN Erased ELSE flash[a]]
                        ELSE flash
  IN  /\ mode = "boot" /\ todo > 0
      /\ todo' = todo - 1 /\ addr' = addr + 1
      /\ IF w = PageWords - 1
           THEN /\ flash' = [a \in Cells |-> IF Page(a) = Page(addr)
                               THEN filled[Place(a)] ELSE clear[a]]
                /\ buffer' = NoBuffer
           ELSE flash' = clear /\ buffer' = filled
      /\ UNCHANGED <<mode, offset, magic, exit, tool, faults>>

\* Fault: the EEPROM keeps the magic number.
LeaveStays ==
  /\ mode = "boot" /\ exit /\ todo = 0
  /\ mode' = "app" /\ exit' = FALSE /\ handle' = FALSE
  /\ UNCHANGED <<flash, buffer, addr, offset, todo, magic, pc, end, start, sent, tries,
                 opened, waits, faults>>

\* The main loop sees exitMainloop, and the EEPROM is written.
Leave ==
  /\ mode = "boot" /\ exit /\ todo = 0
  /\ mode' = "app" /\ exit' = FALSE /\ magic' = FALSE /\ handle' = FALSE
  /\ UNCHANGED <<flash, buffer, addr, offset, todo, pc, end, start, sent, tries, opened,
                 waits, faults>>

PowerFail ==
  /\ mode # "off" /\ faults < MaxFaults /\ faults' = faults + 1
  /\ mode' = "off" /\ buffer' = NoBuffer /\ handle' = FALSE
  /\ addr' = 0 /\ offset' = 0 /\ todo' = 0 /\ exit' = FALSE
  /\ IF exit THEN magic' \in BOOLEAN ELSE UNCHANGED magic  \* being written
  /\ UNCHANGED <<flash, pc, end, start, sent, tries, opened, waits>>

\* Fault: the EEPROM is not asked.
PowerUpByFlash ==
  /\ mode = "off"
  /\ mode' = IF flash[0] = Erased THEN "boot" ELSE "app"
  /\ UNCHANGED <<flash, buffer, addr, offset, todo, magic, exit, tool, faults>>

\* bootLoaderInit: without a firmware, or with the magic number, stay here.
PowerUp ==
  /\ mode = "off"
  /\ mode' = IF flash[0] = Erased \/ magic THEN "boot" ELSE "app"
  /\ UNCHANGED <<flash, buffer, addr, offset, todo, magic, exit, tool, faults>>
-----------------------------------------------------------------------------
(* The tool: main and uploadData *)

\* uploadData returns false.
Fail == /\ tries' = tries + 1 /\ waits' = 0
        /\ pc' = IF tries + 1 < Tries THEN "open" ELSE "failed"

\* A first try for a device that is not there fails at once, a later one waits
\* a moment for it to come back.
Open ==
  /\ pc = "open"
  /\ IF mode = "boot"
       THEN /\ pc' = "info" /\ opened' = TRUE /\ handle' = TRUE
            /\ UNCHANGED <<tries, waits>>
     ELSE /\ UNCHANGED <<opened, handle>>
          /\ IF opened /\ waits = 0 THEN waits' = 1 /\ UNCHANGED <<pc, tries>> ELSE Fail
  /\ UNCHANGED <<device, end, start, sent, faults>>

RoundUp(a) == ((a + BlockWords - 1) \div BlockWords) * BlockWords

\* The sizes are asked for, the image's bounds are checked and rounded.
Info ==
  /\ pc = "info"
  /\ IF ~handle \/ end > FlashWords THEN Fail /\ UNCHANGED start
     ELSE pc' = "setup" /\ start' = (start \div BlockWords) * BlockWords
                        /\ UNCHANGED <<tries, waits>>
  /\ UNCHANGED <<device, end, sent, opened, handle, faults>>

\* HidD_SetFeature, the SETUP packet: the device is to expect a new block; or
\* all blocks have been sent.
Setup ==
  /\ pc = "setup" /\ todo = 0
  /\ IF start >= RoundUp(end)
       THEN pc' = "ask" /\ UNCHANGED <<offset, sent, tries, waits>>
     ELSE IF handle
       THEN pc' = "data" /\ offset' = 0 /\ sent' = 0 /\ UNCHANGED <<tries, waits>>
     ELSE Fail /\ UNCHANGED <<offset, sent>>
  /\ UNCHANGED <<mode, flash, buffer, addr, todo, magic, exit, end, start, opened, handle, faults>>

\* A packet of the block: the first one bears the address.
Packet ==
  LET n == IF sent = 0 THEN First
           ELSE IF BlockWords - sent < Per THEN BlockWords - sent ELSE Per
  IN  /\ pc = "data" /\ handle /\ todo = 0 /\ sent < BlockWords
      /\ addr' = IF offset = 0 THEN start ELSE addr
      /\ offset' = offset + n /\ todo' = n /\ sent' = sent + n
      /\ UNCHANGED <<mode, flash, buffer, magic, exit, pc, end, start, tries, opened,
                     handle, waits, faults>>

\* usbFunctionWrite has told the driver that this was the last packet: the
\* status stage ends the transfer.
BlockDone ==
  /\ pc = "data" /\ handle /\ sent = BlockWords /\ todo = 0
  /\ offset >= BlockWords
  /\ start' = start + BlockWords /\ pc' = "setup"
  /\ UNCHANGED <<device, end, sent, tries, opened, handle, waits, faults>>

\* The transfer fails; the device goes on with what it has received.
Break ==
  /\ pc = "data" /\ handle /\ sent \in Breaks
  /\ faults < MaxFaults /\ faults' = faults + 1
  /\ Fail
  /\ UNCHANGED <<device, end, start, sent, opened, handle>>

\* The device has gone, or has been away, meanwhile.
Lost ==
  /\ pc = "data" /\ ~handle
  /\ Fail
  /\ UNCHANGED <<device, end, start, sent, opened, handle, faults>>

\* With -r the device is told to leave the boot loader; whether that succeeds
\* is ignored.
Reboot(asked) ==
  /\ pc = "ask" /\ pc' = "ok"
  /\ IF asked /\ handle THEN exit' = TRUE ELSE UNCHANGED exit
  /\ UNCHANGED <<mode, flash, buffer, addr, offset, todo, magic, end, start, sent,
                 tries, opened, handle, waits, faults>>
-----------------------------------------------------------------------------
Next ==
  \/ Store \/ Leave \/ PowerFail \/ PowerUp
  \/ Open \/ Info \/ Setup \/ Packet \/ BlockDone \/ Break \/ Lost
  \/ \E asked \in BOOLEAN : Reboot(asked)

Spec == Init /\ [][Next]_vars
-----------------------------------------------------------------------------
TypeOK ==
  /\ mode \in {"off", "boot", "app"} /\ flash \in [Cells -> Int]
  /\ buffer \in [0 .. PageWords - 1 -> Int]
  /\ addr \in 0 .. FlashWords /\ offset \in 0 .. BlockWords
  /\ todo \in 0 .. BlockWords
  /\ pc \in {"open", "info", "setup", "data", "ask", "ok", "failed"}
  /\ start \in 0 .. FlashWords /\ sent \in 0 .. BlockWords
  /\ tries \in 0 .. Tries /\ waits \in 0 .. 1 /\ faults \in 0 .. MaxFaults

\* "The firmware is written successfully" is true: the flash holds the image,
\* whatever went wrong before.  And a firmware that runs is the old one or the
\* whole new one, never a part.
WholeFirmware ==
  LET written == \A a \in 0 .. RoundUp(end) - 1 : flash[a] = Image(a) IN
  /\ pc = "ok" => written
  /\ mode = "app" => written \/ \A a \in 0 .. FlashWords - 1 : flash[a] = Old

\* The tool comes to an end, whatever happens to the device; and a device that
\* was told to leave the boot loader, and keeps its power, runs its firmware and
\* will do so from now on.
UpdateEnds ==
  /\ <>(pc \in {"ok", "failed"})
  /\ exit ~> (mode = "off" \/ (mode = "app" /\ ~magic))
=============================================================================
