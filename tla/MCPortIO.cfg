SPECIFICATION SteadySpec
CONSTANTS
  Threads = {t1, t2}
  NoThread = none
  Ops <- PortOps
  MaxOps = 2
  BufSize = 5
  Configs <- Caches
  Initial = 0
  AllocMayFail = FALSE
  QuietTimer = TRUE
INVARIANTS BufferHasOneUser
PROPERTIES ActsAsPort NothingHeldForEver
CHECK_DEADLOCK FALSE
