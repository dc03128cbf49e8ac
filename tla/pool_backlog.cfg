CONSTANTS
  Readers = {r1}
  Producer = P
  MaxUsers = 2
  MaxEle = 5
  TBlocks = 4
  MaxSem = 2
  ReInitWin = 2
  BufBlocks = 4
  Needs = {1, 2}
  Places = {}
  Ops = {"GetResource", "ReqFree", "ReaderCrash"}
  MaxFrames = 7
  MaxStarts = 1
SPECIFICATION Spec
INVARIANT SemCountsBacklog
PROPERTY FramesInOrder
CHECK_DEADLOCK FALSE
