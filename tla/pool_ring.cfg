CONSTANTS
  Readers = {r1}
  Producer = P
  MaxUsers = 2
  MaxEle = 3
  TBlocks = 5
  MaxSem = 2
  ReInitWin = 2
  BufBlocks = 5
  Needs = {1, 2, 3}
  Places = {}
  Ops = {"GetPacket", "GetResource", "ReaderCrash", "ProducerCrash"}
  MaxFrames = 4
  MaxStarts = 1
SPECIFICATION Spec
INVARIANTS TypeOK LiveDataIntact WindowIsNewestFrames DeliveredIntact MutualExclusion NoLostWakeup
CHECK_DEADLOCK FALSE
