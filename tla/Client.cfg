CONSTANTS
    MaxConnect = 3
    MaxSend = 2
SPECIFICATION FairSpec
INVARIANTS
    OpenOnlyIfCloseDiscarded
PROPERTIES
    ReleasedIsQuiet
    DisconnectReturns
CHECK_DEADLOCK FALSE
