SPECIFICATION FairSpec
CONSTANTS
    NOFILE  = 6
    NLISTEN = 1
    NPID    = 2
    NPEER   = 1
    OUTBUF  = 1
    CHUNKS  = 1
    Routes  = {"cgi", "cgiBody"}
    Faults  = {"idle", "fin", "rst", "ignoreStdin", "closeStdout"}
INVARIANTS KillsItsOwnChild PollSetSound OnlyBrokenAreLost
PROPERTIES BlocksOnlyOnMuted
