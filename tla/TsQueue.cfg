CONSTANTS
    Producers = {p1, p2}
    Consumer = c
    NoThread = NoThread
    MaxPush = 3
    MaxBatch = 2
SPECIFICATION FairSpec
INVARIANTS
    TypeOK
    PopNeverEmpty
    SleepsOnlyIfMissed
PROPERTIES
    PushCompletes
    SleeperServed
    IsMailbox
