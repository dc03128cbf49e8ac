SPECIFICATION FairSpec
CONSTANTS
    MaxLan = 1
    MaxWan = 0
    Clients = {c1, c2, c3}
    LanClients = {c1, c2}
    NoConn = NoConn
    MaxErrors = 1
INVARIANTS
    TypeOK
    UsersCounted
    FdOwned
    StrayOnce
PROPERTIES
    ClientAnswered
CHECK_DEADLOCK FALSE
