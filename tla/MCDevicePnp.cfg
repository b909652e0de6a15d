SPECIFICATION FairSpec
CONSTANTS
  Devices = {d1}
  Threads = {t1, t2}
  Bases = {0, 1}
  Defaults <- MCDefaults
  Nt = TRUE
  WriteCache = {TRUE, FALSE}
  LateSettings = FALSE
  Restarts = FALSE
  LateAccesses = FALSE
  OddPipes = FALSE
  PoolFails = FALSE
INVARIANTS NothingLeft BiosTells
PROPERTIES RemovalEnds
CHECK_DEADLOCK FALSE
