SPECIFICATION Spec
CONSTANTS
    NOFILE  = 6
    NLISTEN = 1
    NPID    = 1
    NPEER   = 1
    OUTBUF  = 2
    CHUNKS  = 0
    Routes  = {"cgi"}
    Faults  = {}
INVARIANT CgiOutputComplete
