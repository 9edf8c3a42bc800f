SPECIFICATION Spec
CONSTANTS
    RECV    = 3
    MAXHEAD = 14
    MAXBODY = 4
    Streams <- TrailerStreams
INVARIANT NextRequestMarked
CHECK_DEADLOCK FALSE
