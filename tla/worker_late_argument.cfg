SPECIFICATION Spec
CONSTANTS
  c1 = c1
  c2 = c2
  c3 = c3
  p1 = p1
  p2 = p2
  Callbacks = {c1, c3}
  Packets = {p1, p2}
  CbChan <- TwoAndOneChan
  PktChan <- OnePktEach
  Returns <- MayRefuse
  Empty = Empty
  Torn = Torn
  NoNode = NoNode
INVARIANT CalledWithOwnChannel
CHECK_DEADLOCK FALSE
