CONSTANTS
    Clients = {c1, c2, c3}
    NoClient = NoClient
    FirstId = 1000
    MaxCalls = 1
    MaxIncoming = 0
SPECIFICATION Spec
SYMMETRY Symmetry
VIEW FarewellView
INVARIANTS
    FarewellsSent
    RecursionBounded
CHECK_DEADLOCK FALSE
