SPECIFICATION FairSpec
CONSTANTS
    RECV    = 3
    MAXHEAD = 14
    MAXBODY = 4
    Streams <- PlainStreams
INVARIANTS
    TypeOK
    AnswersWhatWasSent
    BufferStartsAMessage
    CompleteWhenWhole
PROPERTY AllAnswered
CHECK_DEADLOCK FALSE
