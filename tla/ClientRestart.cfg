CONSTANTS
    MaxConnect = 2
    MaxSend = 1
SPECIFICATION Spec
INVARIANTS
    RunOnlyWhenRestarted
CHECK_DEADLOCK FALSE
