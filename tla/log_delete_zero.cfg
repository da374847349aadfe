SPECIFICATION Spec
CONSTANTS
  a = a
  b = b
  n1 = n1
  n2 = n2
  IdCount = 2
  Items = {a, b}
  LeftOver = {a}
  MaxItems = 2
  ResetMayFail = FALSE
  MaxFaults = 2
  NoBlock = NoBlock
  NoOp = NoOp
  NoItem = NoItem
  Names = {n1, n2}
  Requests <- MCRequests
  Missing = Missing
  NoId = NoId
  NoJob = NoJob
PROPERTY DeletedNameIsGone
