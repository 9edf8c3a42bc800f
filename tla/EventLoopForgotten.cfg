SPECIFICATION Spec
CONSTANTS
    NOFILE  = 6
    NLISTEN = 1
    NPID    = 1
    NPEER   = 3
    OUTBUF  = 0
    CHUNKS  = 0
    Routes  = {"cgiBody"}
    Faults  = {"rst", "ignoreStdin"}
INVARIANT NoConnectionForgotten
