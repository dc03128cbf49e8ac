SPECIFICATION Spec
CONSTANTS
  NGates = 3
  Configured = {0, 2}
  MaxFd = 3
  MaxConns = 2
  MaxQueue = 1
  Ops = {"SetIp", "PeerDrops", "Alarm"}
INVARIANTS
  TypeOK
  OneConnection
CHECK_DEADLOCK FALSE
