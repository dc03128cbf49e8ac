SPECIFICATION Spec
CONSTANTS
  NGates = 2
  Configured = {0}
  MaxFd = 2
  MaxConns = 2
  MaxQueue = 2
  Ops = {"PeerDrops"}
INVARIANT
  ConnectionHasReceiver
CHECK_DEADLOCK FALSE
