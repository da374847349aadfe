SPECIFICATION FairSpec
CONSTANTS
  k1 = k1
  k2 = k2
  Clients = {k1, k2}
  MaxCalls <- TwoAndOne
  Timeouts <- OnlyK1
  MayLose = TRUE
  Pending = Pending
  NoPacket = NoPacket
  Torn = Torn
INVARIANTS TypeOK WildOnlyIfAstray NoLostNotification NoLeakedCallback
PROPERTIES KeepsPromise CallReturns
CHECK_DEADLOCK FALSE
