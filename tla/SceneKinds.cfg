CONSTANTS
    Names <- MCNames
    Places <- MCPlaces
    Kinds <- ViewerKinds
    Lonly <- ViewerKinds
    Requires <- MCRequires
    WritesNameOf <- MCWritesNameOf
    TypeName <- MCTypeName
    MaxObjects = 1
    MaxComponents = 2
    MaxSize = 3
    MaxEdits = 0
SPECIFICATION Spec
PROPERTIES
    LoadKeepsKinds
CHECK_DEADLOCK FALSE
