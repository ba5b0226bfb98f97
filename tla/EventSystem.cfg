CONSTANTS
    Listeners = {l1, l2}
    Events = {scroll, button}
    Usable = {button}
    Destroy = {scroll}
    MaxListeners = 2
    MaxQueue = 2
    MaxDepth = 2
SPECIFICATION FairSpec
INVARIANTS
    TypeOK
    ServedInOrder
    SkipsBounded
    NothingLost
    UndefinedOnlyByMisuse
PROPERTIES
    EventuallyDispatched
CHECK_DEADLOCK FALSE
