SPECIFICATION MCSpec
CONSTANTS
  Parts = {"queue", "porttalk", "monitor"}
  Kinds = {"pp", "lpt", "hid", "prn"}
  Outs <- MCOuts
  Ins <- MCIns
  Batches <- MCBatches
  MaxReport = 3
  Packet = 2
  InKinds = {"pp", "prn"}
  PpPasses = {1}
  Fails = {"lpt", "prn"}
  ClosesFull = FALSE
  MaxIssued = 3
  Users = {u1, u2}
  Addresses = {888, 889, 890}
  Shared = FALSE
  TransfersFail = FALSE
  MaxUses = 4
  Data = {0}
  Status = {7}
  Control = {0}
  Modes = {0, 1, 7}
  Features <- TwoFeatures
  Looks = 2
  NoCycle = NoCycle
  LatchAtEnd = FALSE
  Careful = TRUE
  MaxOps = 4
  Others = {0, 2, 10}
  Trusting = FALSE
  ControlBits = {0, 1, 3}
  PortModes = {0, 4}
  PortFeatures <- AllFeatures
  MaxCommands = 3
  NoTest = NoTest
  MaxBefore = 1
INVARIANTS RunsWhatWasIssued AnswersTrue PageIsTrue
CHECK_DEADLOCK FALSE
