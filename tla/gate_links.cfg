SPECIFICATION FairSpec
CONSTANTS
  NGates = 2
  Configured = {0, 1}
  MaxFd = 2
  MaxConns = 3
  MaxQueue = 1
  Ops = {"PeerDrops", "Other", "Alarm", "Reply"}
INVARIANTS
  GateFdOwned
  NoFdLeak
  ReconnectWaits
PROPERTY
  LostLinkReleased
CHECK_DEADLOCK FALSE
