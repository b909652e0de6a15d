SPECIFICATION MCSpec
CONSTANTS
  FifoSize = 4
  Bytes = {0}
  NoWord = none
  Modes = {1, 2, 3}
  Controls <- OutAndIn
  Polite = TRUE
  MaxOps = 6
  MaxOffers = 2
  Packets <- ShortPackets
  MaxBytes = 6
  Initial = 9
  PageWords = 4
  BlockWords = 8
  First = 1
  Per = 2
  FlashWords = 16
  Ends = {6, 16, 18}
  Tries = 5
  Breaks = {0, 1, 3, 8}
  MaxFaults = 4
INVARIANTS EachWordOnce SameAsStream WholeFirmware
PROPERTIES ActsAsQueue Drained UpdateEnds
CHECK_DEADLOCK FALSE
