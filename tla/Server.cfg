CONSTANTS
    Clients = {c1, c2}
    NoClient = NoClient
    FirstId = 1000
    MaxCalls = 2
    MaxIncoming = 1
SPECIFICATION Spec
SYMMETRY Symmetry
VIEW DequeView
INVARIANTS
    BackIsNew
    ConnectedIsKept
    NotifiedOnce
CHECK_DEADLOCK FALSE
