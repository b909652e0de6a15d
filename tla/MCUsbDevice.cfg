SPECIFICATION Spec
CONSTANTS
  Requests <- AllRequests
  Pkt = 8
  ReplySize = 6
  Answers1 = {0, 2}
  MaxOut1 = 2
  MaxHid = 3
  MaxLost = 1
INVARIANTS Out1Once TransfersServed

CHECK_DEADLOCK FALSE
