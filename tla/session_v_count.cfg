SPECIFICATION SdkSpec
CONSTANTS
    MaxLan = 1
    MaxWan = 1
    Clients = {k1}
    LanClients = {k1}
    SdkConns = {k1}
    NoConn = NoConn
    MaxErrors = 0
INVARIANT
    CountsNotNegative
CHECK_DEADLOCK FALSE
