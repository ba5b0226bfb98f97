CONSTANTS
    Sizes = {0, 1}
    MaxSend = 2
    MaxClose = 1
SPECIFICATION FairSpec
INVARIANTS
    TypeOK
    NoOverlap
    BufferIsFront
    BodyOwnOrStale
PROPERTIES
    IsChannel
    SentIsDelivered
    CloseSpreads
CHECK_DEADLOCK FALSE
