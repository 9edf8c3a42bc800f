SPECIFICATION Spec
CONSTANTS
    RECV    = 3
    MAXHEAD = 14
    MAXBODY = 4
    Streams <- FormStreams
INVARIANT OnlyTheFilePart
CHECK_DEADLOCK FALSE
