SPECIFICATION FairSpec
CONSTANTS
    NOFILE  = 9
    NLISTEN = 1
    NPID    = 1
    NPEER   = 2
    OUTBUF  = 1
    CHUNKS  = 0
    Routes  = {"cgiBody", "file"}
    Faults  = {}
INVARIANTS InServiceWired MapsPointHome NothingLost
PROPERTIES KeepsPromises KeepsPromisesInTime EveryCgiReaped
