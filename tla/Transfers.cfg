SPECIFICATION FairSpec
CONSTANTS
    c1 = c1
    c2 = c2
    Conn    = {c1, c2}
    Given   = {"a"}
    Sizes   = {0, 2}
    READ    = 1
    PIPE    = 2
    Outputs <- ScriptsOfOne
    UPLOADS = 2
    Seconds = {}
    Forms   = {2}
INVARIANTS
    TypeOK
    DownloadsAreFaithful
    UploadsAreWhole
    ScriptsAreQuoted
PROPERTY EveryTransferEnds
CHECK_DEADLOCK FALSE
