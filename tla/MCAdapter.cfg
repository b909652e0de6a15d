SPECIFICATION MCSpec
CONSTANTS
  Irps = {1, 2}
  Smp = FALSE
  NoMemory = TRUE
  PowerAfterAll = FALSE
  A = A
  B = B
  Devices = {A, B}
  NoDevice = none
  Torn = torn
  Offsets <- TwoBlocks
  Configs <- TwoDevices
  TableLen = 4
  NumDR = 2
  Foreign = {1}
  PtrSize = 4
  Serial = TRUE
  Firmwares <- AllFirmwares
  MaxStarts = 2
  Drops = FALSE
  PoolFails = FALSE
  Eager = FALSE
  Adapters = {a1, a2}
  Limit = 3
  LinkOnly = FALSE
  Moved = FALSE
  NamesFail = FALSE
  Bases = {888, 580, 956, 257}
  Timeouts = {200, 2000}
  Systems = {"addref", "create"}
  Mishaps = {}
  MaxActs = 4
  MaxCount = 1
INVARIANTS RequestsKept TrapsBelong StartHolds NamesKept SheetKeeps
PROPERTY ShownNeverRunsBack
CHECK_DEADLOCK FALSE
