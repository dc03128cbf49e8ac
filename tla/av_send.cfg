SPECIFICATION FairSpec
CONSTANTS
    MapFrames = 5
    ReserveVideo = 3
    ReserveAudio = 2
    MaxAudio = 1
    Resume = 1
    ThDropP = 2
    ThDropV = 3
    SizeI = 2
    SlowRoom = 2
    SockBuf = 5
    MaxFaults = 1
    MaxSwitches = 1
INVARIANTS
    TypeOK
    MapNotFull
    MapMatchesSocket
    PAfterI
PROPERTIES
    VideoResumes
    PictureRecovers
