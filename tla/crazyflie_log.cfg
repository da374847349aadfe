SPECIFICATION FairSpec
CONSTANTS
  a = a
  b = b
  n1 = n1
  n2 = n2
  IdCount = 3
  Items = {a, b}
  LeftOver = {a}
  MaxItems = 4
  ResetMayFail = FALSE
  MaxFaults = 1
  NoBlock = NoBlock
  NoOp = NoOp
  NoItem = NoItem
  Names = {n1, n2}
  Requests <- MCRequests
  Missing = Missing
  NoId = NoId
  NoJob = NoJob
INVARIANTS TypeOK NameOwnsItsBlock NamedBlockIsEntire
PROPERTY CallEnds
