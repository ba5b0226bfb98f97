CONSTANTS
    Items = {i1, i2}
    Empty = Empty
    Sizes <- MCSizes
    MaxCalls = 3
SPECIFICATION Spec
INVARIANTS
    PlacesShowTheirTiles
    CornersAndSides
    UndefinedOnlyAtOrigin
CHECK_DEADLOCK FALSE
