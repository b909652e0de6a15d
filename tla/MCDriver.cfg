SPECIFICATION MCSpec
CONSTANTS
  Jobs = {j1, j2}
  Refusal = "untouched"
  Cpus = {c1, c2, c3}
  PoolFails = FALSE
  BusyCode = FALSE
  Systems = {"nt", "win98", "amd64"}
  Devices = {A, B}
  Nobody = none
  Blocks = {888, 632}
  Ports = {0}
  NumDR = 2
  TableLen = 3
  MaxAccess = 2
  Coincide = FALSE
  Odd66 = FALSE
  Push = FALSE
  Wide = FALSE
  Processors = {c1, c2}
  Slots = {0, 1}
  Addrs = {888, 632}
  Serial = TRUE
  NoPool = FALSE
  BusyPorts = FALSE
  Thieves = TRUE
INVARIANTS FreedOnceAtEnd PatchedWhole AccessAsMeant TrapsSound
PROPERTIES ActsAsJob EverybodyReturns TrapsComeBack
CHECK_DEADLOCK FALSE
