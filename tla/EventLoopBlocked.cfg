SPECIFICATION FairSpec
CONSTANTS
    NOFILE  = 6
    NLISTEN = 1
    NPID    = 1
    NPEER   = 1
    OUTBUF  = 1
    CHUNKS  = 0
    Routes  = {"cgi"}
    Faults  = {"closeStdout"}
PROPERTY NeverBlocks
