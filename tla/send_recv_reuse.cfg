SPECIFICATION Spec
CONSTANTS
  k1 = k1
  k2 = k2
  Clients = {k1, k2}
  MaxCalls <- TwoAndOne
  Timeouts <- NoTimeouts
  MayLose = FALSE
  Pending = Pending
  NoPacket = NoPacket
  Torn = Torn
INVARIANT RefusedNotCalled
CHECK_DEADLOCK FALSE
