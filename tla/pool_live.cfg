CONSTANTS
  Readers = {r1, r2}
  Producer = P
  MaxUsers = 2
  MaxEle = 3
  TBlocks = 3
  MaxSem = 2
  ReInitWin = 2
  BufBlocks = 3
  Needs = {1, 2}
  Places = {}
  Ops = {"GetPacket", "ReaderCrash", "ProducerCrash"}
  MaxFrames = 2
  MaxStarts = 1
SPECIFICATION FairSpec
PROPERTY ReadReturns
CHECK_DEADLOCK FALSE
