SPECIFICATION Spec
CONSTANTS
  Threads = {t1}
  NoThread = none
  Ops <- LongOps
  MaxOps = 3
  BufSize = 5
  Configs <- WriteCacheOrNot
  Initial = 0
  AllocMayFail = TRUE
  QuietTimer = FALSE
INVARIANTS BufferBound
CHECK_DEADLOCK FALSE
