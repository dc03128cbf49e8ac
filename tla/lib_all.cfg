SPECIFICATION FairSpec
CONSTANTS
    MaxRecs = 2
    DelBatch = 1
    Capacity = 2
    MinVal = 1
    RmVal = 1
    RmStop = 2
    AutoUnlock = 2
    MaxCmds = 1
    MaxCrashes = 1
    MaxFaults = 1
INVARIANTS
    TypeOK
    IngIndexed
    NoStaleIng
    OneFilePerRecording
    FilesIndexed
PROPERTIES
    OnlyUnlockedRemoved
    SpaceRecovered
CHECK_DEADLOCK FALSE
