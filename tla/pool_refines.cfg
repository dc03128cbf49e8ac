CONSTANTS
  Readers = {r1}
  Producer = P
  MaxUsers = 1
  MaxEle = 3
  TBlocks = 4
  MaxSem = 1
  ReInitWin = 2
  BufBlocks = 4
  Needs = {1, 2, 3}
  Places = {}
  Ops = {"GetResource", "ProducerCrash"}
  MaxFrames = 4
  MaxStarts = 2
SPECIFICATION Spec
INVARIANT RingInv
PROPERTY ImplementsFrameLog
CHECK_DEADLOCK FALSE
