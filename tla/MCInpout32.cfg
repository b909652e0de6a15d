SPECIFICATION MCSpec
CONSTANTS
  Processes = {p1, p2, p3}
  Admins = {p1, p2}
  TruePorts <- MCTruePorts
  MaxHids = 1
  MaxPrns = 1
  MaxLoads = 4
  Operations <- MCOperations
  Length = 3
  NotInjected = FALSE
  OwnDebugged = FALSE
  N = 5
  DeviceLists <- MCDeviceLists
  Overlap = FALSE
  Gaps = FALSE
  HelperFails = FALSE
  Systems = {"9x", "nt64"}
  Alone = TRUE
  HighLin = FALSE
  MaxCalls = 4
  Cpus = {0, 1}
  Taken = {}
  NoMemory = FALSE
  Preempt = FALSE
INVARIANTS PortsServed RunsAsNative AddressesTrue MappingsKept AccessAsOpened
CHECK_DEADLOCK FALSE
