SPECIFICATION FairSite
CONSTANTS
    Begins    <- NameBegins
    EndsIn    <- NameEnds
    WORD      = 64
    KILO      = 4
    Leftovers = {0, 5}
    PORTS     = 1000
    Dotted    <- ReadableHosts
    Local     <- HereHosts
    Texts     <- TextsToRead
    Files     <- FilesToRead
    Requests  <- AllRequests
    Disk      <- DiskAtStart
INVARIANTS
    ReadsWhatIsMeant
    CatchesOmissions
    ResolvesByDescent
    Confined
    NamesStayOnTheirPort
    LimitOfItsLocation
    SourceOnlyThroughIndex
PROPERTIES
    ChangesWhereAllowed
    EveryRequestAnswered
CHECK_DEADLOCK FALSE
