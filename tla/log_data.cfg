SPECIFICATION Spec
CONSTANTS
  a = a
  b = b
  IdCount = 2
  Items = {a, b}
  LeftOver = {a}
  MaxItems = 2
  ResetMayFail = TRUE
  MaxFaults = 1
  NoBlock = NoBlock
  NoOp = NoOp
  NoItem = NoItem
  Listeners = {l1}
  ItemType <- MCItemType
  MaxPackets = 2
  MaxActive = 1
  Unbound = Unbound
  NoValue = NoValue
  Garbage = Garbage
INVARIANTS LogTypeOK OccupiedIsOnFirmware FreeIsNotOnFirmware ListMatchesFirmware
INVARIANTS ValuesAreOfTheirItems WildOnlyIfMisused
PROPERTY CreateFailsOnlyIfFull
CHECK_DEADLOCK FALSE
VIEW MCView
