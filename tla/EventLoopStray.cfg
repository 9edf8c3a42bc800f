SPECIFICATION Spec
CONSTANTS
    NOFILE  = 3
    NLISTEN = 1
    NPID    = 0
    NPEER   = 2
    OUTBUF  = 0
    CHUNKS  = 1
    Routes  = {"page", "file"}
    Faults  = {"rst"}
INVARIANT SentIsOfTheBuffer
