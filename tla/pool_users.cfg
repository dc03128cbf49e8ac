CONSTANTS
  Readers = {r1, r2}
  Producer = P
  MaxUsers = 2
  MaxEle = 2
  TBlocks = 2
  MaxSem = 0
  ReInitWin = 2
  BufBlocks = 1
  Needs = {1}
  Places <- StepBackOrOn
  Ops = {"GetResource", "MvUsrPlace", "MvNewPlace", "ReActive", "ReqFree", "DelUsr", "ReaderCrash", "ProducerCrash"}
  MaxFrames = 1
  MaxStarts = 2
SPECIFICATION Spec
INVARIANTS LockNotLost
CHECK_DEADLOCK FALSE
SYMMETRY ReaderSymmetry
